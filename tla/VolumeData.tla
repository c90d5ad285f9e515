----------------------------- MODULE VolumeData -----------------------------
(***************************************************************************)
(* What happens to the data of one volume that several hosts mount in      *)
(* turn.  A Mount looks the volume up, waits out or preempts the host that *)
(* has it (takeOver), refuses to reconnect under a mount the volume was    *)
(* taken from (clearLeftover), connects, formats what was never written to *)
(* (EnsureFilesystem) and mounts.  Takeover is about how long the first of *)
(* these takes and VolumeLifecycle about all else one host does; here the  *)
(* question is what reaches the disk: whether a mount that was overtaken   *)
(* can still write, and whether a format can hit what was written.         *)
(*                                                                         *)
(* A mount is known by the number it was given when a host began to hold   *)
(* the filesystem, and is over when nothing on that host holds it any      *)
(* more, in whatever namespace.                                            *)
(***************************************************************************)
EXTENDS Naturals

CONSTANTS
    Hosts,
    MaxMounts,  \* bound: how many mounts the volume sees
    Faults      \* what may go wrong, see FaultKinds

FaultKinds == {
    "array",    \* a call to the array fails, or is carried out without an answer
    "device",   \* a device is late, or fails the LUN check
    "command",  \* blkid, mkfs or mount fails, or is cut short by the budget
    "busy",     \* after the umount another namespace still holds the filesystem
    "restart",  \* the plugin or the host starts anew
    "damage"    \* the superblock is lost: blkid finds no filesystem
}

ASSUME DataAssumption == MaxMounts \in Nat /\ Faults \subseteq FaultKinds

VARIABLES
    conn,      \* the array: the hosts the volume is connected to
    pc,        \* how far the operation on each host is that holds the volume's lock
    entry,     \* d.mounts has the volume
    held,      \* the number of the mount the host's kernel holds, 0 for none
    unwritten, \* vol.Written == 0 in what the Mount under way looked up
    disk,      \* what the volume carries
    data,      \* and whether that includes something a container wrote
    mounts,    \* how many mounts there have been
    overtaken, \* history: the hosts past whose look another host connected
    raced,     \* history: such a host then connected too
    hurt       \* history: the hosts that looked the volume up before it was damaged

hostVars == <<conn, entry, held>>
diskVars == <<disk, data, mounts>>
raceVars == <<overtaken, raced>>
vars == <<conn, pc, entry, held, unwritten, disk, data, mounts, overtaken, raced, hurt>>

\* A Mount: before takeOver is through, before clearLeftover, the connect, the
\* wait for the device, blkid, mkfs and the mount.
Steps == {"idle", "look", "clear", "connect", "wait", "probe", "mkfs", "mount"}

\* A volume carries nothing, what a mkfs left that was cut short, a filesystem,
\* or one whose superblock is lost.
Contents == {"blank", "partial", "fs", "damaged"}

TypeOK ==
    /\ conn \subseteq Hosts
    /\ pc \in [Hosts -> Steps]
    /\ entry \in [Hosts -> BOOLEAN]
    /\ mounts \in 0..MaxMounts
    /\ held \in [Hosts -> 0..mounts]
    /\ unwritten \in [Hosts -> BOOLEAN]
    /\ disk \in Contents /\ data \in BOOLEAN
    /\ overtaken \subseteq Hosts /\ raced \in BOOLEAN /\ hurt \subseteq Hosts

\* A volume just created, or one imported with what it carries.
Init ==
    /\ conn = {} /\ pc = [n \in Hosts |-> "idle"]
    /\ entry = [n \in Hosts |-> FALSE] /\ held = [n \in Hosts |-> 0]
    /\ unwritten = [n \in Hosts |-> FALSE]
    /\ disk \in {"blank", "fs"} /\ data = (disk = "fs") /\ mounts = 0
    /\ overtaken = {} /\ raced = FALSE /\ hurt = {}

-----------------------------------------------------------------------------

May(fault) == fault \in Faults

At(n, step) == pc[n] = step

Goto(n, step) == pc' = [pc EXCEPT ![n] = step]

Others(n) == conn \ {n}

\* blkid finds one of these; a format that was cut short may or may not be found.
Readable == {"partial", "fs"}
Unreadable == {"blank", "partial", "damaged"}

\* The Mount gives up and leaves the volume connected.
LeavesConnected(n) == Goto(n, "idle") /\ UNCHANGED conn

\* rollbackAttach: the detach refuses a device that something holds, and then the
\* array's connection stays, as it does when the disconnect fails.
RollsBack(n) ==
    /\ Goto(n, "idle")
    /\ \/ held[n] = 0 /\ conn' = conn \ {n}
       \/ (held[n] # 0 \/ May("array")) /\ UNCHANGED conn

-----------------------------------------------------------------------------
(* Mount. *)

\* toVolume: the array may not say how much was written.
SaysUnwritten == {FALSE, disk = "blank"}

\* resolveLocked reads the volume, and with it how much was ever written to it,
\* before takeOver waits.
Ask(n) ==
    /\ At(n, "idle") /\ ~entry[n]
    /\ Goto(n, "look")
    /\ \E zero \in SaysUnwritten : unwritten' = [unwritten EXCEPT ![n] = zero]
    /\ hurt' = hurt \ {n}
    /\ UNCHANGED <<hostVars, diskVars, raceVars>>

LookFree(n) ==
    /\ At(n, "look") /\ Others(n) = {}
    /\ Goto(n, "clear") /\ overtaken' = overtaken \ {n}
    /\ UNCHANGED <<hostVars, diskVars, unwritten, raced, hurt>>

\* The wait or the request ends while another host has the volume, or a look at
\* the connections fails.
LookGivesUp(n) ==
    /\ At(n, "look") /\ (Others(n) # {} \/ May("array"))
    /\ Goto(n, "idle")
    /\ UNCHANGED <<hostVars, diskVars, unwritten, raceVars, hurt>>

\* The others kept the volume past the grace and are disconnected.
Preempt(n) ==
    /\ At(n, "look") /\ Others(n) # {}
    /\ conn' = conn \intersect {n}
    /\ Goto(n, "clear") /\ overtaken' = overtaken \ {n}
    /\ UNCHANGED <<entry, held, diskVars, unwritten, raced, hurt>>

PreemptFails(n) ==
    /\ May("array") /\ At(n, "look")
    /\ \E cut \in SUBSET Others(n) : conn' = conn \ cut
    /\ Goto(n, "idle")
    /\ UNCHANGED <<entry, held, diskVars, unwritten, raceVars, hurt>>

\* Mutant: the leftover is not looked at.
MayReconnectAnyway(n) == n \in Hosts

\* clearLeftover: a host that is connected may go on using its mount; one that is
\* not must hold none.
MayReconnect(n) == n \in conn \/ held[n] = 0

Clear(n) ==
    /\ At(n, "clear") /\ MayReconnect(n)
    /\ Goto(n, "connect")
    /\ UNCHANGED <<hostVars, diskVars, unwritten, raceVars, hurt>>

ClearRefuses(n) ==
    /\ At(n, "clear") /\ (~MayReconnect(n) \/ May("array"))
    /\ Goto(n, "idle")
    /\ UNCHANGED <<hostVars, diskVars, unwritten, raceVars, hurt>>

\* The array connects the host, whoever else is connected by now.
Connected(n) ==
    /\ conn' = conn \union {n}
    /\ overtaken' = overtaken \union {m \in Hosts \ {n} : pc[m] \in {"clear", "connect"}}
    /\ raced' = (raced \/ n \in overtaken)

Connect(n) ==
    /\ At(n, "connect") /\ Connected(n)
    /\ Goto(n, "wait")
    /\ UNCHANGED <<entry, held, diskVars, unwritten, hurt>>

ConnectFails(n) ==
    /\ May("array") /\ At(n, "connect")
    /\ Connected(n) \/ UNCHANGED <<conn, raceVars>>
    /\ Goto(n, "idle")
    /\ UNCHANGED <<entry, held, diskVars, unwritten, hurt>>

DeviceFound(n) ==
    /\ At(n, "wait") /\ Goto(n, "probe")
    /\ UNCHANGED <<hostVars, diskVars, unwritten, raceVars, hurt>>

\* The device is late and the attachment kept, or the attach is rolled back.
DeviceFails(n) ==
    /\ May("device") /\ At(n, "wait")
    /\ LeavesConnected(n) \/ RollsBack(n)
    /\ UNCHANGED <<entry, held, diskVars, unwritten, raceVars, hurt>>

-----------------------------------------------------------------------------
(* The filesystem. *)

\* MountedAt finds a mount of the device in the plugin's namespace.
MountedHere(n) ==
    /\ At(n, "probe") /\ held[n] # 0
    /\ LeavesConnected(n)
    /\ UNCHANGED <<entry, held, diskVars, unwritten, raceVars, hurt>>

FilesystemFound(n) ==
    /\ At(n, "probe") /\ n \in conn /\ disk \in Readable
    /\ Goto(n, "mount")
    /\ UNCHANGED <<hostVars, diskVars, unwritten, raceVars, hurt>>

\* Mutant: what blkid finds no filesystem on is formatted.
MayFormatUnread(n) == n \in Hosts

\* Only a volume nothing has ever written to may be formatted.
MayFormat(n) == unwritten[n]

NoFilesystem(n) ==
    /\ At(n, "probe") /\ n \in conn /\ disk \in Unreadable /\ MayFormat(n)
    /\ Goto(n, "mkfs")
    /\ UNCHANGED <<hostVars, diskVars, unwritten, raceVars, hurt>>

\* There is no filesystem on a volume that was written to, or blkid cannot tell;
\* without a connection it never can.
ProbeFails(n) ==
    /\ At(n, "probe")
    /\ May("command") \/ n \notin conn \/ (disk \in Unreadable /\ ~MayFormat(n))
    /\ RollsBack(n)
    /\ UNCHANGED <<entry, held, diskVars, unwritten, raceVars, hurt>>

\* mkfs wants the device for itself.
Mkfs(n) ==
    /\ At(n, "mkfs") /\ n \in conn /\ held[n] = 0
    /\ disk' = "fs" /\ data' = FALSE
    /\ Goto(n, "mount")
    /\ UNCHANGED <<hostVars, mounts, unwritten, raceVars, hurt>>

\* A mkfs that ends half way through, or a process that ends with it, if one runs.
CutShort(n) ==
    /\ At(n, "mkfs") /\ n \in conn /\ held[n] = 0
    /\ disk' = "partial" /\ data' = FALSE

MkfsFails(n) ==
    /\ At(n, "mkfs") /\ (May("command") \/ n \notin conn \/ held[n] # 0)
    /\ CutShort(n) \/ UNCHANGED <<disk, data>>
    /\ RollsBack(n)
    /\ UNCHANGED <<entry, held, mounts, unwritten, raceVars, hurt>>

\* Mutant: a mount is not told from the one before it.
HoldsUncounted(n) ==
    /\ disk = "fs" /\ n \in conn /\ UNCHANGED mounts
    /\ held' = [held EXCEPT ![n] = IF @ = 0 THEN mounts + 1 ELSE @]

\* A host that holds the filesystem already mounts it once more; one that does not
\* begins a mount of its own.
Holds(n) ==
    /\ disk = "fs" /\ n \in conn
    /\ IF held[n] = 0 THEN mounts < MaxMounts /\ mounts' = mounts + 1 ELSE UNCHANGED mounts
    /\ held' = [held EXCEPT ![n] = IF @ = 0 THEN mounts' ELSE @]

Mounted(n) ==
    /\ At(n, "mount") /\ Holds(n)
    /\ entry' = [entry EXCEPT ![n] = TRUE]
    /\ Goto(n, "idle")
    /\ UNCHANGED <<conn, disk, data, unwritten, raceVars, hurt>>

\* The LUN check after the mount failed, and then the umount too.
MountStuck(n) ==
    /\ May("device") /\ At(n, "mount") /\ Holds(n)
    /\ LeavesConnected(n)
    /\ UNCHANGED <<entry, disk, data, unwritten, raceVars, hurt>>

MountFails(n) ==
    /\ At(n, "mount")
    /\ May("command") \/ May("device") \/ n \notin conn \/ disk # "fs" \/ mounts = MaxMounts
    /\ RollsBack(n)
    /\ UNCHANGED <<entry, held, diskVars, unwritten, raceVars, hurt>>

-----------------------------------------------------------------------------
(* What a host does with a mount it has, and with one it is done with. *)

\* A host writes to the volume if its kernel holds a mount and its paths work.
CanWrite(n) == held[n] # 0 /\ n \in conn

Write(n) ==
    /\ CanWrite(n) /\ ~data
    /\ data' = TRUE
    /\ UNCHANGED <<hostVars, pc, disk, mounts, unwritten, raceVars, hurt>>

\* teardown, from Unmount, Remove, a linger that expired or Shutdown: the entry is
\* dropped, and the volume is released if nothing else holds it and no call fails.
Teardown(n) ==
    /\ At(n, "idle") /\ entry[n]
    /\ entry' = [entry EXCEPT ![n] = FALSE]
    /\ \/ held' = [held EXCEPT ![n] = 0] /\ (conn' = conn \ {n} \/ (May("array") /\ UNCHANGED conn))
       \/ May("busy") /\ UNCHANGED <<held, conn>>
    /\ UNCHANGED <<pc, diskVars, unwritten, raceVars, hurt>>

\* A container that ends, or a namespace that has flushed, holds the mount no more.
Drained(n) ==
    /\ held[n] # 0 /\ ~entry[n]
    /\ held' = [held EXCEPT ![n] = 0]
    /\ UNCHANGED <<conn, pc, entry, diskVars, unwritten, raceVars, hurt>>

\* A connection without an entry is released if nothing holds the device: keepExpired,
\* and detachUntracked, from Unmount or Remove.
ReleaseUnused(n) ==
    /\ At(n, "idle") /\ ~entry[n] /\ n \in conn /\ held[n] = 0
    /\ conn' = conn \ {n}
    /\ UNCHANGED <<pc, entry, held, diskVars, unwritten, raceVars, hurt>>

\* The plugin starts anew and recovers an entry from a mount it finds in its own
\* namespace; the connection and the mount stay.
Restart(n) ==
    /\ May("restart")
    /\ Goto(n, "idle")
    /\ \E found \in {FALSE, held[n] # 0} : entry' = [entry EXCEPT ![n] = found]
    /\ CutShort(n) \/ UNCHANGED <<disk, data>>
    /\ UNCHANGED <<conn, held, mounts, unwritten, raceVars, hurt>>

Reboot(n) ==
    /\ May("restart")
    /\ Goto(n, "idle")
    /\ entry' = [entry EXCEPT ![n] = FALSE] /\ held' = [held EXCEPT ![n] = 0]
    /\ CutShort(n) \/ UNCHANGED <<disk, data>>
    /\ UNCHANGED <<conn, mounts, unwritten, raceVars, hurt>>

\* Something other than the hosts' Mounts destroys the superblock.
Damage ==
    /\ May("damage") /\ disk = "fs"
    /\ disk' = "damaged"
    /\ hurt' = {n \in Hosts : pc[n] # "idle"}
    /\ UNCHANGED <<hostVars, pc, data, mounts, unwritten, raceVars>>

-----------------------------------------------------------------------------

MountStep(n) ==
    \/ Ask(n) \/ LookFree(n) \/ LookGivesUp(n) \/ Preempt(n) \/ PreemptFails(n)
    \/ Clear(n) \/ ClearRefuses(n) \/ Connect(n) \/ ConnectFails(n)
    \/ DeviceFound(n) \/ DeviceFails(n)

FilesystemStep(n) ==
    \/ MountedHere(n) \/ FilesystemFound(n) \/ NoFilesystem(n) \/ ProbeFails(n)
    \/ Mkfs(n) \/ MkfsFails(n) \/ Mounted(n) \/ MountStuck(n) \/ MountFails(n)

UseStep(n) ==
    \/ Write(n) \/ Teardown(n) \/ Drained(n) \/ ReleaseUnused(n)
    \/ Restart(n) \/ Reboot(n)

Next ==
    \/ \E n \in Hosts : MountStep(n) \/ FilesystemStep(n) \/ UseStep(n)
    \/ Damage

Spec == Init /\ [][Next]_vars

-----------------------------------------------------------------------------
(* Properties. *)

(***************************************************************************)
(* A mount that another host's mount has overtaken cannot write to the     *)
(* volume any more, however often its host was taken off the volume, came  *)
(* back or started anew (takeOver, clearLeftover): so one host at most     *)
(* writes.  It can if a host connected between another's look at the       *)
(* connections and its connect, for which nothing is done.                 *)
(***************************************************************************)
OvertakenMountsAreCutOff ==
    \A n \in Hosts : CanWrite(n) => held[n] = mounts \/ raced

(***************************************************************************)
(* No format destroys what a container wrote, although the volume's        *)
(* lookup, on which the format relies (driver.go:740), is older than the   *)
(* wait for the host that had it: unless two hosts raced as above, or the  *)
(* filesystem was damaged since that lookup.                               *)
(***************************************************************************)
FormatsNoData ==
    [][data /\ ~data' => raced \/ \E n \in hurt : At(n, "mkfs")]_vars

(***************************************************************************)
(* What driver.go:738 and README.md:271 say: only a volume nothing has     *)
(* ever written to may be formatted.                                       *)
(***************************************************************************)
FormatsOnlyUnwritten == [][~(data /\ ~data')]_vars

-----------------------------------------------------------------------------
(* What makes them inductive, as long as no two hosts raced. *)

\* The array has the volume connected to one host at most, and a host past
\* takeOver finds no other there unless it was overtaken.
OneConnection ==
    /\ \A n, m \in conn : n = m
    /\ \A n \in Hosts \ overtaken : pc[n] \in {"clear", "connect"} => conn \subseteq {n}

\* The hosts that may come to write: connected, or about to connect.
MayWrite(n) == n \in conn \/ (At(n, "connect") /\ n \notin overtaken)

\* What such a host holds is the latest mount, of a filesystem that is there.
HoldsLatest ==
    \A n \in Hosts : MayWrite(n) /\ held[n] # 0 =>
        held[n] = mounts /\ disk \in {"fs", "damaged"}

\* What was written is in a filesystem.
DataIsFiled == data => disk \in {"fs", "damaged"}

NoRace == ~raced => OneConnection /\ HoldsLatest /\ DataIsFiled

\* A host that may format found no filesystem on a volume it looked up unwritten,
\* and while that is so nobody else can have made one.
FormatsLookedUp ==
    \A n \in Hosts :
        /\ At(n, "mkfs") => unwritten[n]
        /\ At(n, "mkfs") /\ n \in conn /\ ~raced => disk \in Unreadable
        /\ ~At(n, "idle") /\ unwritten[n] /\ disk = "damaged" => n \in hurt

IInv == TypeOK /\ NoRace /\ FormatsLookedUp
=============================================================================
