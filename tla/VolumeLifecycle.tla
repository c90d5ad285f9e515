-------------------------- MODULE VolumeLifecycle --------------------------
(***************************************************************************)
(* One array volume as the driver of one host handles it: Mount, Unmount,  *)
(* Remove, the two deferred teardowns (linger and keep), Shutdown, plugin  *)
(* crash and recovery (internal/driver/driver.go).  Docker, containers and *)
(* the other hosts of the array are the environment and may do anything    *)
(* they can really do, at any moment.                                      *)
(*                                                                         *)
(* Every operation on the volume runs under the per-volume lock, so at     *)
(* most one is under way: op is the lock's holder and how far it got.  A   *)
(* request or timer callback still waiting for the lock has no effect.     *)
(* An operation is cut into steps at every call that leaves the process    *)
(* (array, transport, mount table), since the environment moves between    *)
(* them.  Time is abstracted: a timer that is armed may fire at any        *)
(* moment, a poll may see any number of rounds.                            *)
(***************************************************************************)
EXTENDS Naturals, FiniteSets

CONSTANTS
    IDs,        \* mount IDs Docker uses for this volume on this host
    NoID,       \* "no mount ID"
    Peers,      \* the array's other hosts
    Faults,     \* what can go wrong: a subset of FaultKinds
    Transport,  \* "iscsi" (multipath) or "nvme"
    LingerOn,   \* FA_UNMOUNT_LINGER > 0
    KeepOn,     \* FA_PREEMPT_GRACE > 0, which is what keepFor is half of
    PreemptRWO  \* FA_PREEMPT_RWO

FaultKinds ==
    { "array",    \* an array call fails and changed nothing
      "lost",     \* an array call takes effect but its answer is lost
      "late",     \* the device does not appear before the timeout
      "check",    \* a check or step between device and mount fails
      "detach",   \* the transport's Detach or its Exclusive lock fails
      "umount",   \* umount(8) fails
      "sync",     \* sync -f fails
      "inuse",    \* a look at who holds a device or mount fails
      "slow",     \* a holder of the device outlasts waitIdle's timeout
      "docker",   \* Docker loses a Mount answer or never sends an Unmount
      "restart",  \* the plugin is stopped in an orderly way and started again
      "crash",    \* the plugin process dies
      "namespace",\* the plugin's own mount does not survive the process
      "unseen",   \* the recovery cannot read whether it is mounted
      "reboot" }  \* the whole host restarts

ASSUME ConstantsAssumption ==
    /\ NoID \notin IDs
    /\ Faults \subseteq FaultKinds
    /\ Transport \in {"iscsi", "nvme"}
    /\ LingerOn \in BOOLEAN
    /\ KeepOn \in BOOLEAN
    /\ PreemptRWO \in BOOLEAN
    /\ LingerOn => KeepOn  \* config.ValidateLinger: a linger needs a grace

VARIABLES
    \* this host's driver process
    up,       \* "running", "closing" (Shutdown has begun) or "down"
    visit,    \* Shutdown's snapshot holds the volume and has yet to visit it
    op,       \* the operation that holds the volume's lock
    tracked,  \* d.mounts has an entry for the volume
    serial,   \* that entry knows the volume's serial (not so when recovered)
    refs,     \* that entry's Docker mount IDs
    young,    \* those added less than refPending ago
    linger,   \* the entry's linger timer: "off" or "armed"
    late,     \* linger callbacks that fired and wait for the lock
    keep,     \* d.pending: "off", "armed", or "fired" and waiting for the lock
    \* this host
    fs,       \* the filesystem is mounted in the plugin's mount namespace
    dev,      \* the host has a device for the volume
    docker,   \* what Docker and the container make of each mount ID
    drain,    \* a stopped container's namespace still flushes the filesystem
    \* the array
    self,     \* the volume is connected to this host
    others,   \* the other hosts it is connected to
    volume,   \* "live" or "destroyed"
    \* history, read by properties only
    excused,  \* IDs the driver may forget: from before a restart, or gone stale
    arrived,  \* hosts that connected since op last listed the connections
    cut,      \* another host disconnected this one since then
    stranded  \* the driver last left the attachment with nothing to release it

driverVars  == <<up, visit, op, tracked, serial, refs, young, linger, late, keep>>
hostVars    == <<fs, dev, docker, drain>>
arrayVars   == <<self, others, volume>>
historyVars == <<excused, arrived, cut, stranded>>
vars        == <<driverVars, hostVars, arrayVars, historyVars>>

entryVars == <<tracked, serial, refs, young>>
timerVars == <<linger, late, keep>>
procVars  == <<up, visit>>

Kinds == {"none", "mount", "unmount", "remove", "linger", "keep", "shutdown"}
Steps == {"none", "look", "preempt", "leftover", "clear", "connect", "wait",
          "check", "recheck", "abandon",
          "umount", "lookup", "idle", "detach", "unlink", "conns", "destroy"}

NoOp == [kind |-> "none", step |-> "none", id |-> NoID, hosts |-> {}]

Op ==
    { o \in [kind : Kinds, step : Steps, id : IDs \union {NoID}, hosts : SUBSET Peers] :
        o.kind = "mount" => o.id \in IDs }

TypeOK ==
    /\ up \in {"running", "closing", "down"}
    /\ visit \in BOOLEAN
    /\ op \in Op
    /\ tracked \in BOOLEAN
    /\ serial \in BOOLEAN
    /\ refs \subseteq IDs
    /\ young \subseteq refs
    /\ linger \in {"off", "armed"}
    /\ late \subseteq {"current", "stale"}
    /\ keep \in {"off", "armed", "fired"}
    /\ fs \in BOOLEAN
    /\ dev \in BOOLEAN
    /\ docker \in [IDs -> {"none", "granted", "running", "exited"}]
    /\ drain \in BOOLEAN
    /\ self \in BOOLEAN
    /\ others \subseteq Peers
    /\ volume \in {"live", "destroyed"}
    /\ excused \subseteq IDs
    /\ arrived \subseteq Peers
    /\ cut \in BOOLEAN
    /\ stranded \in BOOLEAN

Init ==
    /\ up = "running" /\ visit = FALSE /\ op = NoOp
    /\ tracked = FALSE /\ serial = FALSE /\ refs = {} /\ young = {}
    /\ linger = "off" /\ late = {} /\ keep = "off"
    /\ fs = FALSE /\ dev = FALSE /\ drain = FALSE
    /\ docker = [id \in IDs |-> "none"]
    /\ self = FALSE /\ others \in SUBSET Peers /\ volume = "live"
    /\ excused = {} /\ arrived = {} /\ cut = FALSE /\ stranded = FALSE

-----------------------------------------------------------------------------
(* What the host can be asked. *)

\* Mounter.InUseByContainer: a container's mount namespace holds the
\* filesystem.  One being torn down has no process left and does not count.
InUse == \E id \in IDs : docker[id] = "running"

\* Mounter.Busy: some mount, in whatever namespace, claims the device.
Busy == fs \/ InUse \/ drain

May(fault) == fault \in Faults

\* The array turns a call down: it fails, or the volume is destroyed, which
\* lists no connections and takes none.
ArrayRefuses == May("array") \/ volume = "destroyed"

\* What transport.Detach leaves of the device: nvmeTCP.Detach does nothing,
\* the namespace goes on the rescan after the disconnect.
DevDetached == IF Transport = "iscsi" THEN FALSE ELSE dev

-----------------------------------------------------------------------------
(* Timers. *)

\* The linger callbacks once the generation moves on or the entry goes: each
\* will find itself replaced.
Superseded == IF late # {} THEN {"stale"} ELSE {}

ScheduleTeardown == linger' = "armed" /\ late' = Superseded

CancelTeardown == linger' = "off" /\ late' = Superseded

\* keepAttached replaces the record's timer, cancelKeep drops the record.  A
\* keep callback of an older generation returns without effect.
KeepAttached == keep' = "armed"

CancelKeep == keep' = "off"

\* delete(d.mounts, an).  A linger timer the entry still has stays armed and
\* fires as the timer of an entry that is gone.
Untrack ==
    /\ tracked' = FALSE /\ serial' = FALSE /\ refs' = {} /\ young' = {}
    /\ linger' = "off"
    /\ late' = IF linger = "armed" \/ late # {} THEN {"stale"} ELSE {}

-----------------------------------------------------------------------------
(* Taking the lock, moving on under it and letting it go. *)

Free == op = NoOp /\ up # "down"

Hold(kind, step, id) ==
    op' = [kind |-> kind, step |-> step, id |-> id, hosts |-> {}]

At(step) == op.step = step

Goto(step) == op' = [op EXCEPT !.step = step]

\* A fresh list of the connections starts the history anew, and with no
\* operation under way there is none to keep.
FreshHistory == arrived' = {} /\ cut' = FALSE

Done == op' = NoOp /\ FreshHistory

\* The driver lets go of the attachment here, whether or not it released it: the
\* step ends with an error, or the process with all that it remembered.
Strand == stranded' = (self' /\ keep' = "off")

-----------------------------------------------------------------------------
(* Mount. *)

\* Docker learns that the mount succeeded, unless the answer is lost.
Answer(id) ==
    \/ docker' = [docker EXCEPT ![id] = "granted"]
    \/ May("docker") /\ UNCHANGED docker

\* Already mounted here: one more reference, and no timer may take it away.
MountServed(id) ==
    /\ Free /\ docker[id] = "none" /\ tracked
    /\ CancelKeep /\ CancelTeardown
    /\ refs' = refs \union {id} /\ young' = young \union {id}
    /\ excused' = excused \ {id}
    /\ Answer(id)
    /\ UNCHANGED <<procVars, op, tracked, serial, fs, dev, drain, arrayVars, arrived, cut, stranded>>

\* Mutant: the kept attachment's record is dropped before the volume is mounted.
MountBeginDropsKeep(id) ==
    /\ Free /\ docker[id] = "none" /\ ~tracked /\ volume = "live"
    /\ Hold("mount", "look", id) /\ CancelKeep
    /\ UNCHANGED <<procVars, entryVars, linger, late, hostVars, arrayVars, historyVars>>

\* Not mounted here and the volume is there: the attach begins.
MountBegin(id) ==
    /\ Free /\ docker[id] = "none" /\ ~tracked /\ volume = "live"
    /\ Hold("mount", "look", id)
    /\ UNCHANGED <<procVars, entryVars, timerVars, hostVars, arrayVars, historyVars>>

\* Any error return of Mount that leaves everything as it is.
MountFails(step) ==
    /\ op.kind = "mount" /\ At(step)
    /\ Done
    /\ UNCHANGED <<procVars, entryVars, timerVars, hostVars, arrayVars, excused>>

\* takeOver: list the connections until no other host has one; give up the
\* attempt (error, preemption off, wait spent), or find the grace spent too.
TakeOverReleased ==
    /\ op.kind = "mount" /\ At("look") /\ others = {}
    /\ Goto("leftover") /\ FreshHistory
    /\ UNCHANGED <<procVars, entryVars, timerVars, hostVars, arrayVars, excused, stranded>>

TakeOverGivesUp ==
    /\ others # {} \/ ArrayRefuses
    /\ MountFails("look") /\ UNCHANGED stranded

TakeOverExpired ==
    /\ op.kind = "mount" /\ At("look") /\ others # {} /\ PreemptRWO
    /\ op' = [op EXCEPT !.step = "preempt", !.hosts = others]
    /\ FreshHistory
    /\ UNCHANGED <<procVars, entryVars, timerVars, hostVars, arrayVars, excused, stranded>>

\* Mutant: only the first of the hosts is disconnected.
PreemptFirstOnly(h) ==
    /\ op.kind = "mount" /\ At("preempt") /\ h \in op.hosts
    /\ others' = others \ {h} /\ arrived' = arrived \ {h}
    /\ Goto("leftover")
    /\ UNCHANGED <<procVars, entryVars, timerVars, hostVars, self, volume, excused, cut, stranded>>

\* Disconnect one host of the list that was read last, not of a fresh one.
Preempt(h) ==
    /\ op.kind = "mount" /\ At("preempt") /\ h \in op.hosts
    /\ others' = others \ {h} /\ arrived' = arrived \ {h}
    /\ op' = [op EXCEPT !.hosts = @ \ {h},
                        !.step = IF op.hosts = {h} THEN "leftover" ELSE @]
    /\ UNCHANGED <<procVars, entryVars, timerVars, hostVars, self, volume, excused, cut, stranded>>

PreemptFails(h) ==
    /\ op.kind = "mount" /\ At("preempt") /\ h \in op.hosts
    /\ \/ May("array") /\ UNCHANGED others
       \/ May("lost") /\ others' = others \ {h}
    /\ Done
    /\ UNCHANGED <<procVars, entryVars, timerVars, hostVars, self, volume, excused, stranded>>

\* Mutant: a device left from an earlier connection is not looked for.
LeftoverIgnored ==
    /\ op.kind = "mount" /\ At("leftover")
    /\ Goto("connect") /\ cut' = FALSE
    /\ UNCHANGED <<procVars, entryVars, timerVars, hostVars, arrayVars, excused, arrived, stranded>>

\* clearLeftover, its list of the connections.
LeftoverListed ==
    /\ op.kind = "mount" /\ At("leftover")
    /\ Goto(IF self THEN "connect" ELSE "clear") /\ cut' = FALSE
    /\ UNCHANGED <<procVars, entryVars, timerVars, hostVars, arrayVars, excused, arrived, stranded>>

LeftoverFails == ArrayRefuses /\ MountFails("leftover") /\ UNCHANGED stranded

\* clearLeftover, the device this host kept without a connection.
LeftoverCleared ==
    /\ op.kind = "mount" /\ At("clear") /\ ~(dev /\ Busy)
    /\ Goto("connect") /\ dev' = DevDetached
    /\ UNCHANGED <<procVars, entryVars, timerVars, fs, docker, drain, arrayVars, historyVars>>

LeftoverHeld ==
    /\ dev /\ (Busy \/ May("inuse") \/ May("detach"))
    /\ MountFails("clear") /\ UNCHANGED stranded

\* connectSwept fails before the connect, or the connect's answer is an error.
\* Mount then returns without a rollback, whatever the array did.
ConnectFails ==
    /\ op.kind = "mount" /\ At("connect")
    /\ \/ (ArrayRefuses \/ May("detach") \/ May("check")) /\ UNCHANGED self
       \/ May("lost") /\ volume = "live" /\ self' = TRUE
    /\ Done
    /\ UNCHANGED <<procVars, entryVars, timerVars, hostVars, others, volume, excused>>
    /\ IF self' = self THEN UNCHANGED stranded ELSE Strand

\* Connected; the sweep after the connect may still fail and roll back.
Connected ==
    /\ op.kind = "mount" /\ At("connect") /\ volume = "live"
    /\ self' = TRUE /\ stranded' = FALSE
    /\ \/ Goto("wait")
       \/ (May("array") \/ May("check")) /\ Goto("detach")
    /\ UNCHANGED <<procVars, entryVars, timerVars, hostVars, others, volume,
                   excused, arrived, cut>>

DeviceFound ==
    /\ op.kind = "mount" /\ At("wait") /\ (self \/ dev)
    /\ dev' = TRUE /\ Goto("check")
    /\ UNCHANGED <<procVars, entryVars, timerVars, fs, docker, drain, arrayVars, historyVars>>

\* The device is late: keep the attachment for a retry, or roll it back.
DeviceLate ==
    /\ op.kind = "mount" /\ At("wait") /\ (May("late") \/ ~self)
    /\ IF KeepOn THEN KeepAttached /\ Done
                 ELSE Goto("detach") /\ UNCHANGED <<keep, arrived, cut>>
    /\ UNCHANGED <<procVars, entryVars, linger, late, hostVars, arrayVars, excused, stranded>>

\* CheckLUN, MountedAt, EnsureFilesystem and mount: one of them fails, the
\* device turns out to be mounted here already, or the filesystem is mounted.
DeviceRefused ==
    /\ op.kind = "mount" /\ At("check") /\ (May("check") \/ ~self)
    /\ Goto("detach")
    /\ UNCHANGED <<procVars, entryVars, timerVars, hostVars, arrayVars, historyVars>>

DeviceMountedAlready == fs /\ MountFails("check") /\ Strand

FilesystemMounted ==
    /\ op.kind = "mount" /\ At("check") /\ ~fs
    /\ fs' = TRUE /\ Goto("recheck")
    /\ UNCHANGED <<procVars, entryVars, timerVars, dev, docker, drain, arrayVars, historyVars>>

\* The second CheckLUN passes: the mount is published and answered.
MountPublished ==
    /\ op.kind = "mount" /\ At("recheck")
    /\ tracked' = TRUE /\ serial' = TRUE /\ refs' = {op.id} /\ young' = {op.id}
    /\ CancelKeep /\ Answer(op.id) /\ Done
    /\ excused' = excused \ {op.id}
    /\ UNCHANGED <<procVars, linger, late, fs, dev, drain, arrayVars, stranded>>

\* It fails (iSCSI only, nvmeTCP.CheckLUN has none): abandonMount unmounts and rolls back, or cannot even unmount.
MountCrossed ==
    /\ op.kind = "mount" /\ At("recheck") /\ May("check") /\ Transport = "iscsi"
    /\ Goto("abandon")
    /\ UNCHANGED <<procVars, entryVars, timerVars, hostVars, arrayVars, historyVars>>

MountAbandoned ==
    /\ op.kind = "mount" /\ At("abandon")
    /\ fs' = FALSE /\ Goto("detach")
    /\ UNCHANGED <<procVars, entryVars, timerVars, dev, docker, drain, arrayVars, historyVars>>

MountStuck == May("umount") /\ MountFails("abandon") /\ Strand

-----------------------------------------------------------------------------
(* Detach, then disconnect: releaseHost and rollbackLocked, whoever calls    *)
(* them.  While tracked, the caller is teardown and drops the entry.         *)

\* iscsi.Detach refuses a multipath map that something holds.
DetachRefused == Transport = "iscsi" /\ dev /\ Busy

Detached ==
    /\ At("detach") /\ ~DetachRefused
    /\ dev' = DevDetached /\ Goto("unlink")
    /\ UNCHANGED <<procVars, entryVars, timerVars, fs, docker, drain, arrayVars, historyVars>>

\* What a failed release leaves to do: a kept attachment is tried again later.
ReleaseFailed ==
    /\ keep' = IF op.kind = "keep" THEN "armed" ELSE keep
    /\ Untrack /\ Done

\* Mutant: the host is disconnected although the detach failed.
DetachFailureIgnored ==
    /\ At("detach") /\ (DetachRefused \/ May("detach"))
    /\ Goto("unlink")
    /\ UNCHANGED <<procVars, entryVars, timerVars, hostVars, arrayVars, historyVars>>

DetachFails ==
    /\ At("detach") /\ (DetachRefused \/ May("detach"))
    /\ ReleaseFailed
    /\ UNCHANGED <<procVars, hostVars, arrayVars, excused>> /\ Strand

\* Disconnected.  Remove goes on with its next phase; all others are done.
Disconnected ==
    /\ At("unlink")
    /\ self' = FALSE /\ stranded' = FALSE /\ Untrack
    /\ dev' \in IF Transport = "iscsi" THEN {dev} ELSE {dev, FALSE}
    /\ IF op.kind = "remove"
       THEN Goto(IF tracked THEN "conns" ELSE "destroy") /\ UNCHANGED <<arrived, cut>>
       ELSE Done
    /\ UNCHANGED <<procVars, keep, fs, docker, drain, others, volume, excused>>

DisconnectFails ==
    /\ At("unlink")
    /\ \/ May("array") /\ UNCHANGED self
       \/ May("lost") /\ self' = FALSE
    /\ ReleaseFailed
    /\ UNCHANGED <<procVars, hostVars, others, volume, excused>> /\ Strand

-----------------------------------------------------------------------------
(* Unmount, and the teardown every path shares.                              *)

\* Docker may repeat an Unmount, or send one for a mount it lost the answer to.
Releasing(id) ==
    /\ Free /\ docker[id] # "running"
    /\ docker' = [docker EXCEPT ![id] = "none"]

\* Mutant: when the reference was added is not forgotten with it.
UnmountKeepsAge(id) ==
    /\ Releasing(id) /\ tracked /\ refs \ {id} # {}
    /\ (young \ {id}) # {} \/ InUse \/ May("inuse")
    /\ refs' = refs \ {id} /\ UNCHANGED young
    /\ excused' = excused \ {id}
    /\ UNCHANGED <<procVars, op, tracked, serial, timerVars, fs, dev, drain, arrayVars, arrived, cut, stranded>>

\* Not the last reference, and dropStaleRefs finds the rest may be in use.
UnmountKeeps(id) ==
    /\ Releasing(id) /\ tracked /\ refs \ {id} # {}
    /\ (young \ {id}) # {} \/ InUse \/ May("inuse")
    /\ refs' = refs \ {id} /\ young' = young \ {id}
    /\ excused' = excused \ {id}
    /\ UNCHANGED <<procVars, op, tracked, serial, timerVars, fs, dev, drain, arrayVars, arrived, cut, stranded>>

\* The last reference, or dropStaleRefs drops the others: sync and linger, or
\* tear down at once (no linger, or the sync failed).  Only a reference that is old
\* and has no container may be dropped.
UnmountLast(id) ==
    /\ Releasing(id) /\ tracked
    /\ refs \ {id} # {} => (young \ {id}) = {} /\ ~InUse
    /\ refs' = {} /\ young' = {}
    /\ LET stale == {i \in refs \ young : docker[i] # "running"}
       IN excused' = {i \in excused \union stale : i # id /\ docker[i] # "none"}
    /\ \/ LingerOn /\ ScheduleTeardown /\ UNCHANGED op
       \/ (~LingerOn \/ May("sync")) /\ Hold("unmount", "umount", id) /\ UNCHANGED <<linger, late>>
    /\ UNCHANGED <<procVars, tracked, serial, keep, fs, dev, drain, arrayVars, arrived, cut, stranded>>

UnmountUntracked(id) ==
    /\ Releasing(id) /\ ~tracked
    /\ Hold("unmount", "lookup", id)
    /\ excused' = excused \ {id}
    /\ UNCHANGED <<procVars, entryVars, timerVars, fs, dev, drain, arrayVars, arrived, cut, stranded>>

\* teardown's umount.  One that fails leaves the volume tracked; only the
\* linger's own teardown schedules another try.
Unmounted ==
    /\ At("umount")
    /\ fs' = FALSE /\ Goto(IF serial THEN "idle" ELSE "lookup")
    /\ UNCHANGED <<procVars, entryVars, timerVars, dev, docker, drain, arrayVars, historyVars>>

UmountFails ==
    /\ At("umount") /\ May("umount")
    /\ IF op.kind = "linger" THEN ScheduleTeardown ELSE UNCHANGED <<linger, late>>
    /\ Done
    /\ UNCHANGED <<procVars, entryVars, keep, hostVars, arrayVars, excused, stranded>>

\* The serial of a recovered or untracked mount, from the array.
SerialFound ==
    /\ At("lookup")
    /\ Goto("idle")
    /\ UNCHANGED <<procVars, entryVars, timerVars, hostVars, arrayVars, historyVars>>

\* Mutant: an early return leaves the entry of a filesystem that is unmounted.
SerialLookupFailsTracked ==
    /\ At("lookup") /\ May("array")
    /\ Done
    /\ UNCHANGED <<procVars, entryVars, timerVars, hostVars, arrayVars, excused, stranded>>

SerialLookupFails ==
    /\ At("lookup") /\ May("array")
    /\ Untrack /\ Done
    /\ UNCHANGED <<procVars, keep, hostVars, arrayVars, excused>> /\ Strand

\* waitIdle: wait until nothing holds the device, or give up.
DeviceIdle ==
    /\ At("idle") /\ ~(dev /\ Busy)
    /\ Goto("detach")
    /\ UNCHANGED <<procVars, entryVars, timerVars, hostVars, arrayVars, historyVars>>

DeviceStaysBusy ==
    /\ At("idle") /\ dev /\ ((Busy /\ May("slow")) \/ May("inuse"))
    /\ Untrack /\ Done
    /\ UNCHANGED <<procVars, keep, hostVars, arrayVars, excused>> /\ Strand

-----------------------------------------------------------------------------
(* Remove. *)

RemoveDestroyed ==
    /\ Free /\ volume = "destroyed"
    /\ CancelKeep
    /\ UNCHANGED <<procVars, op, entryVars, linger, late, hostVars, arrayVars, historyVars>>

\* A volume that only lingers is released first.
RemoveLingering ==
    /\ Free /\ volume = "live" /\ tracked /\ refs = {} /\ ~InUse
    /\ CancelTeardown /\ Hold("remove", "umount", NoID)
    /\ UNCHANGED <<procVars, entryVars, keep, hostVars, arrayVars, historyVars>>

RemoveUnmounted ==
    /\ Free /\ volume = "live" /\ ~tracked
    /\ Hold("remove", "conns", NoID)
    /\ UNCHANGED <<procVars, entryVars, timerVars, hostVars, arrayVars, historyVars>>

\* Mutant: this host's own connection is no reason to release first.
RemoveOwnIgnored ==
    /\ op.kind = "remove" /\ At("conns") /\ others = {}
    /\ Goto("destroy") /\ FreshHistory
    /\ UNCHANGED <<procVars, entryVars, timerVars, hostVars, arrayVars, excused, stranded>>

RemoveConnsListed ==
    /\ op.kind = "remove" /\ At("conns") /\ others = {}
    /\ Goto(IF self THEN "detach" ELSE "destroy") /\ FreshHistory
    /\ UNCHANGED <<procVars, entryVars, timerVars, hostVars, arrayVars, excused, stranded>>

RemoveRefused ==
    /\ op.kind = "remove" /\ At("conns") /\ (others # {} \/ ArrayRefuses)
    /\ Done
    /\ UNCHANGED <<procVars, entryVars, timerVars, hostVars, arrayVars, excused, stranded>>

VolumeDestroyed ==
    /\ op.kind = "remove" /\ At("destroy")
    /\ CancelKeep /\ volume' = "destroyed" /\ Done
    /\ UNCHANGED <<procVars, entryVars, linger, late, hostVars, self, others, excused, stranded>>

DestroyFails ==
    /\ op.kind = "remove" /\ At("destroy") /\ May("array")
    /\ CancelKeep /\ Done
    /\ UNCHANGED <<procVars, entryVars, linger, late, hostVars, arrayVars, excused, stranded>>

-----------------------------------------------------------------------------
(* The deferred teardowns and Shutdown. *)

LingerFires ==
    /\ up # "down" /\ linger = "armed"
    /\ linger' = "off" /\ late' = late \union {"current"}
    /\ UNCHANGED <<procVars, op, entryVars, keep, hostVars, arrayVars, historyVars>>

\* Mutant: what happened while the callback waited for the lock is not looked at.
StillTracked(timer) == up = "running" /\ tracked

\* lingerExpired's test under the lock: the entry, the generation, no refs.
StillLingers(timer) ==
    up = "running" /\ tracked /\ timer = "current" /\ refs = {}

LingerStandsDown(timer) ==
    /\ Free /\ timer \in late /\ ~StillLingers(timer)
    /\ late' = late \ {timer}
    /\ UNCHANGED <<procVars, op, entryVars, linger, keep, hostVars, arrayVars, historyVars>>

\* Mutant: a teardown refused for a container's sake is not tried again.
LingerRefusedForGood(timer) ==
    /\ Free /\ timer \in late /\ StillLingers(timer)
    /\ InUse \/ May("inuse")
    /\ late' = late \ {timer}
    /\ UNCHANGED <<procVars, op, entryVars, linger, keep, hostVars, arrayVars, historyVars>>

LingerRefused(timer) ==
    /\ Free /\ timer \in late /\ StillLingers(timer)
    /\ InUse \/ May("inuse")
    /\ linger' = "armed" /\ late' = late \ {timer}
    /\ UNCHANGED <<procVars, op, entryVars, keep, hostVars, arrayVars, historyVars>>

LingerExpired(timer) ==
    /\ Free /\ timer \in late /\ StillLingers(timer) /\ ~InUse
    /\ late' = late \ {timer}
    /\ Hold("linger", "umount", NoID)
    /\ UNCHANGED <<procVars, entryVars, linger, keep, hostVars, arrayVars, historyVars>>

KeepFires ==
    /\ up # "down" /\ keep = "armed"
    /\ keep' = "fired"
    /\ UNCHANGED <<procVars, op, entryVars, linger, late, hostVars, arrayVars, historyVars>>

\* Mutant: the record is dropped and nothing released.
KeepDropped ==
    /\ Free /\ up = "running" /\ keep = "fired"
    /\ keep' = "off"
    /\ UNCHANGED <<procVars, op, entryVars, linger, late, hostVars, arrayVars, historyVars>>

\* Mounted meanwhile: the record is dropped and the attachment is the mount's.
KeepExpired ==
    /\ Free /\ up = "running" /\ keep = "fired"
    /\ keep' = "off"
    /\ IF tracked THEN UNCHANGED op ELSE Hold("keep", "detach", NoID)
    /\ UNCHANGED <<procVars, entryVars, linger, late, hostVars, arrayVars, historyVars>>

\* Shutdown takes its list of idle volumes before it waits for their locks.
ShutdownBegins ==
    /\ May("restart") /\ up = "running"
    /\ up' = "closing" /\ visit' = (tracked /\ refs = {})
    /\ UNCHANGED <<op, entryVars, timerVars, hostVars, arrayVars, historyVars>>

ShutdownVisits ==
    /\ Free /\ visit /\ visit' = FALSE
    /\ IF tracked /\ refs = {}
       THEN /\ CancelTeardown
            /\ \/ ~InUse /\ Hold("shutdown", "umount", NoID)
               \/ (InUse \/ May("inuse")) /\ UNCHANGED op
       ELSE UNCHANGED <<op, linger, late>>
    /\ UNCHANGED <<up, entryVars, keep, hostVars, arrayVars, historyVars>>

-----------------------------------------------------------------------------
(* The process ends, is started again, and recovers what is still mounted. *)

Forgotten ==
    /\ visit' = FALSE /\ op' = NoOp /\ FreshHistory /\ stranded' = self
    /\ tracked' = FALSE /\ serial' = FALSE /\ refs' = {} /\ young' = {}
    /\ linger' = "off" /\ late' = {} /\ keep' = "off"

\* main: out of time or finished after SIGTERM; or a crash at any moment.
Stop ==
    /\ up = "closing" \/ (up = "running" /\ May("crash"))
    /\ up' = "down" /\ Forgotten
    /\ fs' \in {fs} \union (IF May("namespace") THEN {FALSE} ELSE {})
    /\ excused' = {id \in IDs : docker[id] # "none"}
    /\ UNCHANGED <<dev, docker, drain, arrayVars>>

\* New: recoverMounts makes an entry of what it finds mounted, in use or not.
Start ==
    /\ up = "down" /\ up' = "running"
    /\ \/ /\ fs /\ tracked' = TRUE
          /\ linger' = IF LingerOn THEN "armed" ELSE "off"
       \/ (fs => May("unseen")) /\ UNCHANGED <<tracked, linger>>
    /\ UNCHANGED <<visit, op, serial, refs, young, late, keep, hostVars, arrayVars, historyVars>>

\* The host restarts: its mounts and containers are gone, the array's
\* connection is not, and the boot may find the device again.
Reboot ==
    /\ May("reboot")
    /\ up' = "down" /\ Forgotten
    /\ fs' = FALSE /\ drain' = FALSE /\ dev' \in {FALSE, self}
    /\ docker' = [id \in IDs |-> "none"] /\ excused' = {}
    /\ UNCHANGED arrayVars

-----------------------------------------------------------------------------
(* Docker and its containers. *)

ContainerStarts(id) ==
    /\ docker[id] = "granted" /\ fs
    /\ docker' = [docker EXCEPT ![id] = "running"]
    /\ UNCHANGED <<driverVars, fs, dev, drain, arrayVars, historyVars>>

\* Its namespace is torn down asynchronously and may flush for a while.
ContainerExits(id) ==
    /\ docker[id] = "running"
    /\ docker' = [docker EXCEPT ![id] = "exited"]
    /\ drain' = TRUE
    /\ UNCHANGED <<driverVars, fs, dev, arrayVars, historyVars>>

Drained ==
    /\ drain /\ drain' = FALSE
    /\ UNCHANGED <<driverVars, fs, dev, docker, arrayVars, historyVars>>

UnmountNeverSent(id) ==
    /\ May("docker") /\ docker[id] \in {"granted", "exited"}
    /\ docker' = [docker EXCEPT ![id] = "none"]
    /\ excused' = excused \ {id}
    /\ UNCHANGED <<driverVars, fs, dev, drain, arrayVars, arrived, cut, stranded>>

\* refPending goes by since the reference was added.
RefAges(id) ==
    /\ id \in young /\ young' = young \ {id}
    /\ UNCHANGED <<procVars, op, tracked, serial, refs, timerVars, hostVars, arrayVars, historyVars>>

-----------------------------------------------------------------------------
(* The host's kernel and the other hosts. *)

\* A scan finds a connected volume late.  None runs between a detach and the
\* disconnect after it, which share the transport's Exclusive lock.
DeviceAppears ==
    /\ self /\ ~dev /\ ~At("unlink")
    /\ dev' = TRUE
    /\ UNCHANGED <<driverVars, fs, docker, drain, arrayVars, historyVars>>

PeerConnects(p) ==
    /\ p \notin others /\ volume = "live"
    /\ others' = others \union {p}
    /\ arrived' = IF op = NoOp THEN {} ELSE arrived \union {p}
    /\ UNCHANGED <<driverVars, hostVars, self, volume, excused, cut, stranded>>

PeerDisconnects(p) ==
    /\ p \in others /\ others' = others \ {p}
    /\ UNCHANGED <<driverVars, hostVars, self, volume, historyVars>>

\* Another node's takeOver finds this host past the grace.
PeerPreempts ==
    /\ self /\ self' = FALSE
    /\ cut' = (op # NoOp)
    /\ UNCHANGED <<driverVars, hostVars, others, volume, excused, arrived, stranded>>

\* Another node's Remove, which refuses a volume some host is connected to.
PeerRemoves ==
    /\ volume = "live" /\ ~self /\ others = {}
    /\ volume' = "destroyed"
    /\ UNCHANGED <<driverVars, hostVars, self, others, historyVars>>

-----------------------------------------------------------------------------
MountStep ==
    \/ \E id \in IDs : MountServed(id) \/ MountBegin(id)
    \/ TakeOverReleased \/ TakeOverGivesUp \/ TakeOverExpired
    \/ \E p \in Peers : Preempt(p) \/ PreemptFails(p)
    \/ LeftoverListed \/ LeftoverFails \/ LeftoverCleared \/ LeftoverHeld
    \/ Connected \/ ConnectFails
    \/ DeviceFound \/ DeviceLate \/ DeviceRefused \/ DeviceMountedAlready
    \/ FilesystemMounted \/ MountPublished
    \/ MountCrossed \/ MountAbandoned \/ MountStuck

ReleaseStep == Detached \/ DetachFails \/ Disconnected \/ DisconnectFails

UnmountStep ==
    \/ \E id \in IDs : UnmountKeeps(id) \/ UnmountLast(id) \/ UnmountUntracked(id)
    \/ Unmounted \/ UmountFails \/ SerialFound \/ SerialLookupFails
    \/ DeviceIdle \/ DeviceStaysBusy

RemoveStep ==
    \/ RemoveDestroyed \/ RemoveLingering \/ RemoveUnmounted
    \/ RemoveConnsListed \/ RemoveRefused \/ VolumeDestroyed \/ DestroyFails

TimerStep ==
    \/ LingerFires
    \/ \E timer \in {"current", "stale"} :
          LingerStandsDown(timer) \/ LingerRefused(timer) \/ LingerExpired(timer)
    \/ KeepFires \/ KeepExpired

ProcessStep == ShutdownBegins \/ ShutdownVisits \/ Stop \/ Start \/ Reboot

ContainerStep ==
    \/ \E id \in IDs : \/ ContainerStarts(id) \/ ContainerExits(id)
                       \/ UnmountNeverSent(id) \/ RefAges(id)
    \/ Drained

ArrayStep ==
    \/ DeviceAppears \/ PeerPreempts \/ PeerRemoves
    \/ \E p \in Peers : PeerConnects(p) \/ PeerDisconnects(p)

Next ==
    \/ MountStep \/ ReleaseStep \/ UnmountStep \/ RemoveStep
    \/ TimerStep \/ ProcessStep \/ ContainerStep \/ ArrayStep

Spec == Init /\ [][Next]_vars

(***************************************************************************)
(* Fairness, for the liveness properties: an operation that holds the lock *)
(* takes its next step (every call it makes has a deadline); an armed      *)
(* timer fires; a callback that waits for the lock gets it in the end      *)
(* (ctxlock is a channel, whose waiters the Go runtime serves in order,    *)
(* hence strong fairness); a stopped container's namespace is torn down.   *)
(* Docker, containers, restarts and the other hosts are owed nothing.      *)
(***************************************************************************)
UnderTheLock == op # NoOp /\ (MountStep \/ ReleaseStep \/ UnmountStep \/ RemoveStep)

Fairness ==
    /\ WF_vars(UnderTheLock)
    /\ WF_vars(LingerFires) /\ WF_vars(KeepFires) /\ WF_vars(Drained)
    /\ \A timer \in {"current", "stale"} :
          SF_vars(LingerStandsDown(timer) \/ LingerRefused(timer) \/ LingerExpired(timer))
    /\ SF_vars(KeepExpired)

FairSpec == Spec /\ Fairness

-----------------------------------------------------------------------------
(* Safety. *)

(***************************************************************************)
(* The driver never disconnects this host from the volume while a mount,   *)
(* a container or a namespace still flushing holds the device: every path  *)
(* that releases (rollback, teardown, Remove, a kept attachment) detaches  *)
(* first and stops if that is refused (releaseHost, rollbackLocked).       *)
(***************************************************************************)
NeverCutsHeld == [][At("unlink") /\ self /\ ~self' => ~Busy]_vars

(***************************************************************************)
(* A mount Docker was granted, and that no restart or stale-reference      *)
(* clean-up has since taken from the driver's books, stays mounted with    *)
(* its reference until Docker gives it up: no teardown (linger, Remove,    *)
(* Shutdown, another ID's Unmount) is under way or can begin.              *)
(***************************************************************************)
ServedStaysMounted ==
    \A id \in IDs \ excused :
        docker[id] \in {"granted", "running"} =>
            tracked /\ fs /\ id \in refs /\ op = NoOp

(***************************************************************************)
(* Whenever the lock is free, an entry of d.mounts is a filesystem that is *)
(* really mounted: Mount answers from the entry without looking.  Every    *)
(* way out of a teardown past its umount must drop the entry.              *)
(***************************************************************************)
EntryIsMounted == tracked /\ op = NoOp => fs

(***************************************************************************)
(* Mount goes on to connect the volume, and Remove to destroy it, only if  *)
(* any other host now connected came after this operation listed the       *)
(* connections (takeOver, Remove).  Nothing excludes those that come later. *)
(***************************************************************************)
ForeignHostsAreNew ==
    \/ op.kind = "mount" /\ op.step \in {"leftover", "clear", "connect"}
    \/ op.kind = "remove" /\ op.step \in {"detach", "unlink", "destroy"} /\ ~tracked
    => others \subseteq arrived

(***************************************************************************)
(* Mount reconnects under a mount this host still has of the volume only   *)
(* if the host was connected when clearLeftover looked, so that the mount  *)
(* was live and not a leftover of a connection that had been taken away.   *)
(***************************************************************************)
NoLeftoverRevived ==
    op.kind = "mount" /\ At("connect") /\ ~self /\ Busy => cut

(***************************************************************************)
(* Remove destroys only a volume that this host has neither an entry nor a *)
(* connection for.                                                         *)
(***************************************************************************)
DestroysReleased == At("destroy") => ~self /\ ~tracked

(***************************************************************************)
(* An attachment no mount uses has a release scheduled (keepAttached),     *)
(* whatever becomes of the Mounts that retry, unless the driver has given  *)
(* it up: a release that failed, a device or mount it may not pull away, a *)
(* connect whose answer was lost, or the end of the process.               *)
(***************************************************************************)
NoForgottenAttachment ==
    op = NoOp /\ self /\ ~tracked => keep # "off" \/ stranded

-----------------------------------------------------------------------------
(* What makes the safety properties inductive. *)

Teardown == {"umount", "lookup", "idle", "detach", "unlink"}

\* How far each kind of operation can be.
StepsOf(kind) ==
    CASE kind = "none"   -> {"none"}
      [] kind = "mount"  -> {"look", "preempt", "leftover", "clear", "connect", "wait",
                             "check", "recheck", "abandon", "detach", "unlink"}
      [] kind = "remove" -> Teardown \union {"conns", "destroy"}
      [] kind = "keep"   -> {"detach", "unlink"}
      [] OTHER           -> Teardown

LockIsExclusive ==
    /\ op.step \in StepsOf(op.kind)
    /\ op.kind = "none" => op = NoOp
    /\ up = "down" => op = NoOp /\ ~tracked

\* The entry goes with all that belongs to it; only an idle entry is torn
\* down; and until the umount, the entry is a mounted filesystem.
EntryIsWhole ==
    /\ ~tracked => refs = {} /\ ~serial /\ linger = "off" /\ "current" \notin late
    /\ op.kind \in {"mount", "keep"} => ~tracked
    /\ op.kind \in {"linger", "shutdown"} => tracked
    /\ op.step = "umount" => tracked
    /\ op.kind = "remove" /\ op.step \in {"lookup", "idle"} => tracked
    /\ op.step \in {"conns", "destroy"} => ~tracked
    /\ tracked /\ op # NoOp => refs = {}
    /\ tracked /\ op.step \in {"none", "umount"} => fs
    /\ op.step = "recheck" => fs

\* Every reference Docker may still count on is in the entry.
ServedIsReferenced ==
    \A id \in IDs \ excused : docker[id] \in {"granted", "running"} => id \in refs

\* On iSCSI what holds the volume holds its device, so a detach that went
\* through found nothing.
HeldHasDevice ==
    /\ Busy => dev
    /\ op.step \in {"check", "recheck", "abandon"} => dev
    /\ op.step = "unlink" => ~Busy

\* ForeignHostsAreNew while the preemption is still under way.
ForeignHostsAreKnown ==
    op.step = "preempt" => others \subseteq arrived \union op.hosts

\* NoForgottenAttachment while an operation is under way: a release is scheduled
\* unless the operation is in charge of the attachment, having made it or having
\* begun to release it.
AttachmentIsKept ==
    self /\ ~tracked =>
        \/ keep # "off" \/ stranded
        \/ op.step \in {"wait", "check", "recheck", "abandon", "detach", "unlink"}

\* A destroyed volume is connected to no host, and none can connect it.
DestroyedIsReleased == volume = "destroyed" => ~self

\* What the driver's books and the lock say of the volume, on any transport, what
\* becomes of attachments, and what iSCSI adds about the device.
BooksInv ==
    /\ LockIsExclusive /\ EntryIsWhole /\ ServedIsReferenced
    /\ ForeignHostsAreKnown /\ ForeignHostsAreNew /\ DestroysReleased

DeviceInv == HeldHasDevice /\ NoLeftoverRevived

KeepInv == AttachmentIsKept /\ DestroyedIsReleased

IInv == TypeOK /\ BooksInv /\ KeepInv /\ (Transport = "iscsi" => DeviceInv)

-----------------------------------------------------------------------------
(* Liveness. *)

(***************************************************************************)
(* With the linger on, a mount nothing refers to and no container uses is  *)
(* taken down in the end, unless it is wanted again or the plugin stops;   *)
(* also one recovered at a start, and one whose teardown was refused while *)
(* a container used it (lingerExpired, recoverMounts).                     *)
(***************************************************************************)
IdleMountIsReleased ==
    (tracked /\ refs = {}) ~> (~tracked \/ refs # {} \/ InUse \/ up # "running")

(***************************************************************************)
(* Once Docker stops retrying the mount, a kept attachment that nothing    *)
(* holds is released in the end, unless it is mounted, taken by another    *)
(* host or the plugin stops first (keepExpired, and its retries).          *)
(***************************************************************************)
KeptIsReleased ==
    <>[](op.kind # "mount") =>
        ((keep # "off" /\ self /\ ~tracked) ~> (~self \/ tracked \/ Busy \/ up # "running"))
=============================================================================
