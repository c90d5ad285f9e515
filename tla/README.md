# docker-volume-flasharray in TLA+

A Docker volume plugin gives containers block volumes of a FlashArray. Several
hosts run the plugin against one array, a block volume may be written by one
host at a time, and containers, Docker, the host's device layer, the array and
the other hosts all move while an operation is under way. These modules model
what the driver does about that and check it; the paths below are those of the
repository.

## The system

| Part | State | Operations | Talks to |
| --- | --- | --- | --- |
| `internal/driver/driver.go`, one host's driver | per volume: the entry in `mounts` (refs with their times, serial, linger timer and generation), the record in `pending` (kept attachment), the one in `heldSince`, a lock; `names`, `known`; `closing` | Create, Remove, Mount, Unmount, Path, Get, List, Adopt; the timers' `lingerExpired` and `keepExpired`; `RunPathCheck`; `Shutdown`; `New` with `recoverMounts` | array client, transport, mounter |
| `internal/driver/known.go` | the last known volumes, in memory and in a file | load, set, replace, save | driver |
| `internal/ctxlock` | a channel with one slot | Lock with a context, Unlock | driver, transports |
| `internal/transport/iscsi.go` | none of its own but an Exclusive lock; the kernel's SCSI paths, multipathd's maps | Connect, WaitForDevice, FindDevice, Detach, Sweep, CheckLUN, Exclusive | host commands, sysfs |
| `internal/transport/nvme.go` | an Exclusive lock; the kernel's controllers and namespaces | the same, with Detach, Sweep and CheckLUN empty | host commands, sysfs |
| `internal/flasharray/client.go` | session token; on the array: volumes, tags, connections with LUNs, hosts | REST calls with retries and a new login on 401 | array |
| `internal/mounter` | the plugin's mount namespace; every process's mountinfo | EnsureFilesystem, Mount, Unmount, Busy, MountedAt, InUseByContainer, Sync, Shutdown | host commands, /proc |
| `internal/config` | settings | FromEnv, ParseSize, ValidateLinger | environment |
| `internal/plugin`, `internal/hostexec`, `cmd/` | none | HTTP endpoint; processes in the host's namespaces; start, stop, `adopt` | driver |

How they interact: Docker's requests arrive as goroutines, each of which takes
the lock of its volume (`lockCtx`) and holds it to the end. The two kinds of
timer callback take the same lock, and so does `Shutdown` when the plugin is
stopped. So the driver's own operations on one volume never overlap; what makes
this code hard is all that does move between two of its steps.

* A timer fires and waits for the lock while another operation holds it: what
  it was armed for may be gone when it gets the lock.
* The plugin dies, is restarted or upgraded under running containers, and
  rebuilds its entries from what it finds mounted, without references.
* Docker loses the answer to a Mount, repeats an Unmount or never sends it.
* A stopped container's mount namespace flushes its filesystem after Docker has
  said that it is done.
* Every call to the array can fail, or take effect and lose its answer; devices
  come late; detaches and umounts fail.
* Other hosts connect the volume, take it away from this one past a grace, or
  destroy it. Nothing but the array's list of connections tells a host so.
* The array gives the LUN number of a disconnected volume to the next one while
  the host may still have a path with that number.

What makes each part correct: the lifecycle must never take a volume from a
container that was served it, never cut a device that something holds, never
leave an idle mount or an attachment for good, and never go past another host
but after the grace; the takeover must be patient with a live holder and not
with a dead one; a name must lead to one live volume whatever fails in a Create
or a Remove; a path must never reach another volume's data; the client must not
repeat what was done, nor lose what was not.

## Modules

| Module | Models | Against |
| --- | --- | --- |
| `VolumeLifecycle` | one volume on one host | Mount, Unmount, Remove, linger, keep, Shutdown, recovery, with the faults of the list above |
| `VolumeLifecycle_proofs` | theorems about it | |
| `Takeover` | one volume and several hosts, timed | `takeOver`, `markHeld`, `clearHeld`, linger and keep against the grace |
| `Takeover_proofs` | theorems about it | |
| `VolumeData` | one volume and the hosts that mount it in turn | Mount as a whole with `EnsureFilesystem`, teardown, restarts: what may write to the volume and what may format it |
| `VolumeData_proofs` | theorems about it | |
| `HostPaths` | one iSCSI host and the LUN numbers, disks and maps of its volumes | `connectSwept`, `checkPaths`, `releaseHost`, `clearLeftover`, and of the transport `Sweep`, `Detach`, `CheckLUN`, `forgetDeleted`, `fixMembership`, the rescans |
| `HostPaths_proofs` | theorems about it | |
| `Names` | several hosts and the volumes their Docker names lead to | `resolve`, `resolveLocked`, `lookup`, Create, import and `Adopt`, Remove from the rename on, Get, List, `known.go`, `lockCtx` with `ctxlock`, and of the client `nameTags` and `DestroyVolume` |
| `Names_proofs` | theorems about it: locks and the known file | |
| `NamesLead_proofs` | theorems about it: what a name leads to and what is answered | |
| `ArrayClient` | calls that share one session | `Client.do` with `login` and `backoff` |
| `ArrayCall` | what `do` promises a caller | the abstract specification `ArrayClient` implements |
| `ArrayClient_proofs` | theorems about it, the refinement among them | |
| `HostAccess` | one node's host object on the array and its iSCSI sessions, shared with the Pure plugin | `New`, `ensureConnected`, `reensureHost`, `connectSwept`'s use of the host, `EnsureHost`, `iscsi.Connect` with `sessions`, `Exclusive` |
| `HostAccess_proofs` | theorems about it | |
| `MCVolumeLifecycle`, `MCTakeover`, `MCVolumeData`, `MCHostPaths`, `MCNames`, `MCArrayClient`, `MCHostAccess` | instances for TLC | |

How they fit: `Names` finds the volume, and what Mount and Remove then do to it on
this host is `VolumeLifecycle`; its two foreign ends, the other hosts and the device
layer, are `Takeover` and `HostPaths`, and what an attach needs on the node and on the array before it can begin
is `HostAccess`. `VolumeData` is the outermost: it takes the whole Mount
of several hosts, coarsely, and asks what all of that is for, that the data survives. All of them make calls that are done, or not,
or done without an answer; `ArrayCall` is what such a call can be, and `ArrayClient`
shows that the client keeps to it.

### VolumeLifecycle

`op` is the holder of the volume's lock and how far it got; a request or a
callback that waits for the lock is not in it, because it has done nothing yet
(a callback that waits is in `late`, or is `keep = "fired"`). An operation is
cut into one action for each call that leaves the process, as between two such
calls anything else in the model can move: the actions of `ContainerStep` and
`ArrayStep`, the firing of a timer, and `Stop`, which can come at any moment.

| In the model | In the code |
| --- | --- |
| `tracked`, `serial`, `refs` | `d.mounts[an]` and its `serial` (unknown for a recovered mount) and `refs` |
| `young` | the refs less than `refPending` old |
| `linger`, `late` | `st.linger` armed; callbacks that fired and wait for the lock, `"current"` if `lingerGen` is still theirs and `"stale"` if not |
| `keep` | `d.pending[an]`: armed, or fired and waiting for the lock |
| `up`, `visit` | the process, `d.closing`, and `Shutdown`'s list of idle volumes |
| `fs`, `dev`, `drain` | mounted in the plugin's namespace; a device on the host; a stopped container's namespace that still flushes |
| `docker` | for each mount ID: mount answered, container running, container exited |
| `self`, `others`, `volume` | the array's connections and the volume |
| `excused`, `arrived`, `cut`, `stranded` | history the properties read; no action's guard reads it. `excused` are the IDs a restart or `dropStaleRefs` took from the books, of the latter only those whose reference was old and without a running container |

`releaseHost` and `rollbackLocked` are the two actions `Detached` and
`Disconnected` with their failures, whoever calls them; what follows depends on
`op.kind`: teardown drops the entry, a kept attachment is armed again, Remove
goes on. Time is abstracted: an armed timer may fire at any moment and a
reference may turn old at any moment, which includes every order the real
times allow.

The environment's own rules, each taken from how the code relies on it: Docker
does not unmount an ID whose container runs, and sends a Mount for an ID it has
not mounted; a container starts only from a mount it was granted; no scan of
the host runs between a detach and the disconnect after it, which share the
transport's Exclusive lock; the array lists and connects nothing of a destroyed
volume; multipathd runs, and tells whether a map is open (`removeMap`,
`dropMap`). iSCSI without multipathd is not modelled.

### Takeover

Here time matters, so it is counted in ticks. `hold` is `heldSince` of each
node, as ages instead of instants and capped where the code no longer tells
them apart; `seen`, `left` and `polled` are the locals of a waiting `takeOver`.
`Tick` lets a tick pass for all and is held up only by what is due first: the
poll of a waiting Mount (2 s in the code, against a grace of 90 s), the end of a
wait, a timer, and Docker's retry of a Mount that failed, which comes before
the record it left is stale. `watched` is a history of what each node really
saw, against which the driver's own record is judged.

### VolumeData

A Mount is cut where another host can come in between: the lookup, the look at the
connections, `clearLeftover`, the connect, the device, blkid, mkfs, the mount. Time is
abstracted (when a host may be preempted is `Takeover`), and so are the references, the
linger and the timers (`VolumeLifecycle`): a teardown or a release may come whenever the lock
is free.

| In the model | In the code |
| --- | --- |
| `conn` | the array's connections |
| `pc` | how far the operation is that holds the volume's lock on a host |
| `entry` | `d.mounts[an]` |
| `unwritten` | `vol.Written == 0` of the volume Mount looked up |
| `held` | which mount, if any, a host's kernel still holds in some namespace; a host that holds one already joins it, another one begins the next |
| `disk`, `data` | what the volume carries: nothing, what an interrupted mkfs left, a filesystem, one with a lost superblock; and whether a container's data is in it |
| `overtaken`, `raced`, `hurt` | history for the two exceptions of the properties |

The environment's rules: a host writes only through a mount its kernel holds and a
connection the array has; mkfs refuses a device that is held; blkid finds no filesystem where
the superblock is lost, and may or may not find one where mkfs was cut short; a detach refuses a
device that is held (iSCSI); the array's count of bytes written is zero only for a volume
nothing was written to, and may be missing.

### HostPaths

`VolumeLifecycle` has one volume and a device that is there or not. Here are several
volumes that share the LUN numbers the array gives and the disk names the
kernel gives, and the question is what a disk, or a map of disks, really reaches.

| In the model | In the code |
| --- | --- |
| `lun` | the array's connections of this host |
| `disk` | `/sys/class/block/sd*`: the port and LUN of each disk, and the identity read when it was scanned |
| `filed`, `inMap`, `maps` | `multipathd show paths`, the slaves of each map, and the maps; a map outlives its paths |
| `had` | what udev may still have on record for a name |
| `open` | what keeps a map open: a mount, or a namespace that still flushes |
| `holder`, `want`, `deleted`, `failed` | the holder of `scanMu`, and the locals of what runs under it |
| `pc`, `got` | how far the operation on each volume, and the path check, got; the LUN a Mount was given |
| `late` | history: the disks scanned in spite of the lock |

`Reaches` is where I/O to a disk ends up: at whatever volume has the LUN number now.
The operations of different volumes overlap except where `Exclusive` orders them;
multipathd, the scans and a peer that preempts move at any time. A sweep and a detach
are cut in two, the deletion of disks and the wait for multipathd that follows it, since
multipathd can handle a removal or another disk in between. Name reuse needs no
action of its own: `Finds` gives a scanned disk any name that is free, and a name
is free when no disk has it and no map holds it (the kernel frees a name with the last
reference).

`Faults` says what can go wrong in a run; each kind is a comment in the module.
Outside them the environment is taken to behave as the code relies on it: multipathd
runs; there is one array; a list of LUNs is complete or an error (`HostLUNs` counts
the serials), except that the path check is given incomplete ones too, as it claims to
stand them. `Before` is what names have carried before the plugin starts, so
that udev can be wrong about any of them from the start.

A peer can preempt this host between the list and the connect of `connectSwept`; the
connect then may hand out a number an old disk sits on, in spite of the sweep
before it. So `AttachedLUNIsClean` is stated for what comes after the second sweep.
A rollback that fails leaves the disk and the connection to the path check.

### Names

A request is cut at every call to the array and at every wait for a lock; requests of
one host overlap as far as its locks allow, and those of two hosts as they like.

| In the model | In the code |
| --- | --- |
| `vol` | the array: for each array name the state of its volume and the Docker name in its `dvfa:name` tag; a rename moves both, and a destroyed volume keeps its tag until it is eradicated |
| `names`, `known` | `d.names` and `d.known` |
| `file`, `tmp`, `saver` | `.dvfa-known.json`, `.dvfa-known.json.tmp`, who holds `saveMu` |
| `slot` | whether the channel of `d.locks[an]` is full |
| `op[r].an`, `.how`, `.pairs`, `.held` | `an`; whether it came from the cache or from a second look; the tags `nameTags` read; the lock `unlock` gives back |
| `op[r].put`, `.next` | what `setKnown` or `replaceKnown` was given, and what follows it |
| `seen` | history: whether the name had, or lacked, a live volume at some moment of the request |
| `misled`, `muddled` | history: the requests that were told something untrue, the names of which nothing more is promised; no action reads either |

A lookup is two calls, first the tags, then the destroyed volumes (`ReadTags`,
`ReadDestroyed`), and what is done with the answer is a step of its own. Array names
are the computed name of each Docker name, the names `freshArrayName` may come up
with for it (`Spares`; they carry the computed name, so no two Docker names share one), and
those of volumes that were there before. `Faults` says what goes wrong in a
run, each kind with a comment; `Next` conjoins every step with `Recorded`, which keeps
the history.

Nothing keeps requests apart but the code's own locks: two hosts create, import and
remove one name in any order and at once, two requests of one host overlap up to its
locks, and a List may fill the cache at any moment. The code does not keep its
promises about names in all of these orders. Where it does not, the properties say so: each names
the exception, and the exception is a step of the code that history records. A name is
`muddled` for good

| by | when | and then |
| --- | --- | --- |
| `Crossed` | two requests that change the name overlap, on one host or on two | two Creates of which each took a fresh name (`driver.go:436`), or a Create between another host's rename and its destroy, both tag a volume, and every lookup of the name fails (`client.go:531`) |
| `Stolen` | a tag replaces another | an import that read the tags before (`driver.go:561`) takes a volume claimed since |
| `Shadowed` | an import tags a volume for a name whose computed name has an untagged live one | `Adopt` asks for the tag only (`driver.go:554`) and leaves two |
| `Untagged` | `SetNameTag` fails for a volume under a fresh name | Create goes on (`driver.go:456`) and answers success, but no lookup finds the volume |
| `ActedInError` | a request that was misled changes a volume | what it does is to the wrong one |
| `Remade` | an imported volume is eradicated and a volume made under its name | it can be imported once more while a cache still leads to it |

and a request is `misled`

* when its second look finds in the cache an answer that is no longer true. `forget` and the second
  `resolve` are two steps (`driver.go:321`), a List or lookup that asked earlier can put the old name back in between
  (`driver.go:263-271`, `1519-1526`), and what the second look finds in the cache is
  not checked again;
* when its rename was carried out and is reported as failed.

The refill happens in `names`, between two requests of one host, but it takes a third to make the
name live again in the meantime. With two hosts, a Get or Mount and a List on the one, and one request after another that creates,
imports or removes on the other, TLC finds that without the exception `MissingOnlyIfAbsent` fails with no
fault at all: the host has the name cached for a volume; the other removes that volume and
imports one for the name; a List that read the tags before stores the old name between the Get's `forget` and its second look; the
Get trusts it and says that there is no volume. That instance is too large to be checked to the end
(the trace has 47 states), so it is not a run; that nothing else makes it fail is proved for any number of requests.

A Mount that finds an entry in `d.mounts` is served whatever its lookup said
(`driver.go:683-692`); `FetchForMount` leaves open whether there is one, so a Mount may answer success at
any lookup, and only its "missing" is judged. `ServedIsThere` is about Create and import. A restart loads the file and looks up the volumes found mounted
(`recoverMounts`), of which any may be: `found`.

`MissingOnlyIfAbsent` is what the comment at the top of `known.go` is about: Docker takes
an error of Get for "no such volume". For it, a name counts as gone from the moment a
Remove is about to destroy its volume, since the volume has then already left the name
Get looks under.

### ArrayClient

`call[c].pc` follows the loop of `do`: the token, perhaps a login, the wait for the
answer, and what is made of it. A request that was sent stays in `net` until the array
handles it, however long the call has stopped waiting for it; one that is lost is one
the array never handles. The array may carry a request out and answer it with an error
(`"failed"`, a 5xx or a broken connection), but a 401 means that the session was no good
and a 429 or 4xx that nothing was done. `authToken` is shared by the calls, `valid` are the
sessions that have not ended, and `upset` counts, as a history, how often a call's session was
taken from under it.

`ArrayCall` has two variables, what each caller was told and how often the array did
what it asked for. `KeepsContract` is `ArrayCall!Spec` with `told` read off the call's state
(`ToldBy`) and `done` the count of what was carried out. It allows that a request other
than a POST is carried out more than once and even after its caller was told of a
failure; a Remove that gives up can be destroyed later all the same.

### HostAccess

`owner` is the host object that has this node's IQN, of which the array allows one, and `conns` what
is connected to it; `host` is `d.host`, the name the driver goes by. `live` and `records`
are the node's sessions and node records. A Mount is followed from `ensureConnected` to the
device, with one step for each call, because anything shared may change between two of them.

| Code | Action |
| --- | --- |
| `New`, `EnsureHost` | `FindAtStart`, `MakeAtStart`; `Restart` |
| `Ports`, `iscsi.Connect`: `mu`, `sessions`, node record, login, result | `Ports`, `LockMu`, `List`, `Login`, `Enter`, `LoggedIn` |
| `connectSwept`: `Exclusive`, `HostLUNs`, `reensureHost`, `HostLUNs` again, `Connect`, `HostLUNs` | `LockExcl`, `Luns`, `FindHost`, `MakeHost`, `LunsAgain`, `Connect`, `After` |
| `WaitForDevice` to the mount; keep or rollback | `Mounted`, `Late` |
| `releaseHost`, `rollbackLocked`, `keepExpired` | `KeepEnds`, `Unmount`, `LockExcl`, `Undo` |
| a call that fails before or after it takes effect; a wait that is given up | `CallFails`, `GiveUp` |

The Pure plugin is not part of the repository; `PureLooks` to `PureDeletesHost` are the sentence in
`src/README.md:452` that says what it does, one step for each thing it does, with the Mounts of this
plugin in between. Two rules are the array's: it deletes no host object that has connections, and
lets an IQN be in one host object only. The sweeps are `HostPaths`, and the connection lists of `takeOver` and
`clearLeftover` are `Takeover` and `VolumeLifecycle`; what these two need of the host's name is
`OwnConnectionsAreFound`. `UndisturbedMountSucceeds` judges a Mount by the history `calm`, which
drops it as soon as the Pure plugin takes a step or a call fails.

## Runs

| Run | Module, configuration | What it asks | Outcome |
| --- | --- | --- | --- |
| `lifecycle` | `MCVolumeLifecycle`, `Lifecycle.cfg` | all safety properties on iSCSI, every fault | holds, 280,678 states |
| `lifecycle_live` | `LifecycleLive.cfg` | are idle mounts and kept attachments released in the end | holds |
| `takeover` | `MCTakeover`, `Takeover.cfg` | is every holder given the whole grace; does a dead one give way | holds, 74,696 states |
| `data` | `MCVolumeData`, `Data.cfg` | can an overtaken mount still write; can a format destroy data | holds, 141,000 states |
| `data_race` | `DataRace.cfg` | is only an unwritten volume formatted, when two hosts mount a new volume at once | violated |
| `host_paths` | `MCHostPaths`, `HostPaths.cfg` | can an attach, a disconnect or a Mount end with a disk that reaches another volume; can a sweep cut a live one | holds, 1.6 million states |
| `host_paths_flush` | `HostPathsFlush.cfg` | is a map flushed only to its own volume | violated |
| `names` | `MCNames`, `Names.cfg` | on one host, a change against a reader: do locks and known file come out right; does List tell all; does Mount call missing only what was | holds, 1.3 million states |
| `names_hosts` | `NamesHosts.cfg` | on two hosts, in any order: does a name that is not muddled lead to one volume, is it missing only if it was, does a Remove leave none behind, is what Create serves there | holds, 1.4 million states |
| `names_removed` | `NamesRemoved.cfg` | does every Remove that succeeds leave none behind, the answer to its rename lost | violated |
| `client` | `MCArrayClient`, `ArrayClient.cfg` | does `do` keep its contract, end, and bound its requests | holds, 230,000 states |
| `host_access` | `MCHostAccess`, `HostAccess.cfg` | is what is connected always found; does an undisturbed Mount succeed, and every wanted volume get mounted, while the Pure plugin tears down | holds, 45,000 states |

Bounds. Two mount IDs give every case of the references: the last one, not the
last one, a stale one beside a live one. Two other hosts give a preemption that
fails half way and a host that arrives behind one that leaves. Nothing else in
`VolumeLifecycle` is bounded: it has no counters, and the generation numbers
are reduced to whether a callback's is current. In the liveness run one ID and
one host suffice, as the properties are about a volume without references. In
`Takeover` the settings keep the proportions of the defaults (grace 90 s, longest
wait 30 s, stale after 120 s, linger 15 s, keep 45 s), in ticks; two nodes are a holder and
a waiter, each of which can become the other. That a third one that takes over in between is given its own grace
is proved, as for any number of nodes (`HoldersGetTheGrace`).
`MaxFailures` bounds how many array calls of `takeOver` fail. In `HostPaths` every
hazard is about one volume's disk on a number, a name or in a map that now is
another's: two volumes, two numbers and two names let each pass from one to the
other and back. One port gives each volume one disk, which makes a map of two disks
a wrong one. One kind of fault, a disk that cannot
be deleted, is left to the theorems, which cover all kinds (with it, 2.6 million states hold). In
`VolumeData` two hosts and three mounts, so that a mount is overtaken by one that is overtaken in
turn; three hosts, with which a host can lose the volume to one and find it with another, hold as well
(4.0 million states) and are covered by the theorems. In `Names` one name with its computed name, one fresh
name and one volume to import give each request every kind of target: missing,
cached and stale, destroyed, renamed, imported; two request slots give a change and
whatever overlaps it, and each slot serves any number of requests in turn. One fresh name can
be used up, which is a failure of `freshArrayName` the code handles. `LocalFaults` are those that happen to one
host, `ArrayFaults` those that two hosts meet on the array; the theorems allow all of them at once, and
any number of names, hosts and requests. In `names_hosts` a state in which the one name is muddled is not followed further
(`SomethingPromised`), because every property of that run holds of it trivially from there on, and two states are taken for one that differ only in the file, in what Docker was told before or in
history no property of that run reads (`HostsView`): nothing reads the file where nothing restarts, and the properties read an answer in the step that gives it. In `ArrayClient` a
GET and a POST share the session; two attempts give a first, a last and, with the 401, one
that is not counted; three sessions let each call lose two. The theorems are for every
`MaxAttempts`, the code's 4 among them. In `HostAccess` two volumes give a Mount and the release that leaves the
host object without connections under it, and the Mount that holds the transport's locks while another waits; one
portal gives a session that is there, gone, or logged in again, and with it all of the sessions. One
teardown by the Pure plugin, or one fault, can fall between any two steps (`MaxTroubles`); a second one adds nothing but
another Mount that fails, and the safety properties are proved for any number.

Fairness. In `VolumeLifecycle` an operation that holds the lock goes on (every
call it makes has a deadline), an armed timer fires, and a stopped container's
namespace is torn down: weak fairness. A callback waits for the lock in a
channel, which the Go runtime serves in order of arrival, so it gets it although
others take it again and again: strong fairness. Nothing is assumed of Docker,
of containers, of restarts or of other hosts, and `lifecycle_live` leaves out the
faults that would keep a step failing for ever. In `Takeover` time passes,
Mounts under way go on, and Docker retries a Mount that failed unless it gives
it up (`NoRetry`), which releases the property. In `ArrayClient` a call takes its next step: its
waits end with an answer, the HTTP client's timeout or the caller's context. Nothing is
assumed of the network or the array. In `HostAccess` the process starts, Docker retries, and
operations go on (weak fairness); whoever waits for the transport's two locks gets them in the end (strong fairness: a
`sync.Mutex` starves nobody and a channel serves its senders in order). Nothing is assumed
of the Pure plugin, which may stop in the middle of a teardown. `Names` states no liveness: its requests end when
their calls and their waits for a lock do, and each of these has a deadline.

### What the violated properties show

* `FormatsOnlyUnwritten`. `takeOver` lists the connections and the connect comes later;
  two hosts that both found the volume free both connect it, although `takeOver` "makes sure no
  other host holds" it (`driver.go:921`). That the volume was unwritten is older still
  (`driver.go:680`). Both find no filesystem; one formats, mounts and serves the volume, and
  the format of the other destroys what was written. On one host, `ForeignHostsAreNew` shows
  how far the check goes: whoever is connected when Mount connects came after the list was
  read; and the passing run `data` shows that there is no other way to lose data to a format or
  to an overtaken mount, but for a filesystem that is damaged after the lookup.
* `FlushesOnlyOwnVolume`. `Detach` decides whether to flush by the disks that have the
  volume's identity. A disk of another volume that multipathd has put into the map is
  not among them, and the flush goes through it (`iscsi.go:629`, against the comment at
  686). The trace: a disk gets a freed name, is filed under the volume that had
  it before, and joins that volume's map between the last sweep and the detach.
* `RemovedIsAlwaysGone`, in `names_removed`. A rename is sent again when its answer is lost
  (`client.go:283`); the second one is told that there is no such volume. Remove takes that
  for a rename that did not happen, destroys the old name and finds nothing there, which
  `driver.go:667` lets pass. It answers success; the volume is live under its new name, with
  its tag, and the next Create of the name takes it as it is.

Seen while modelling, without a run of their own:

* With `Transport = "nvme"` in `Lifecycle.cfg`, `NeverCutsHeld` fails: `nvmeTCP.Detach`
  refuses nothing (`nvme.go:164`), so a release that does not wait for the device to be
  idle disconnects it from a namespace that still flushes, such as a repeated Remove
  after a teardown that gave up.
* `Remove` cancels the linger before it tears down (`driver.go:621`). If the umount fails, the
  mount stays without references and without a timer until some request comes, although the
  comment at `driver.go:1291` says what is wrong with that.
* The grace counts from when the waiting node first saw the present holders, not
  from when they let go (`driver.go:955`). A holder that was in use for the whole grace and
  lingers from then on is preempted while it lingers, although the settings pass
  `ValidateLinger` (`config.go:167`, `src/README.md:429`).
* `Detach` deletes the disks whose LUN no longer carries the volume first. When the map then
  turns out to be open it returns (`iscsi.go:630`) past the wait for multipathd that
  `src/README.md:258` promises of every detach; two ports and a peer that preempts show it.
* A first mkfs that the Mount's budget or a restart cuts short (`mounter.go:90`) leaves a volume
  that is not unwritten any more and has no filesystem: every later Mount refuses it as
  damaged, although it never held data.
* In `Takeover` with three nodes, `DeadHolderGivesWay` can fail for a node that was waiting for
  another host and got past it: the property is about the pair it names, so its run has two.
* With two Docker names and two hosts in `NamesHosts.cfg`, imports in both slots and no exception for `Stolen`,
  `RemovedIsGone` fails without any fault. `Adopt` reads the tags and sets its own later (`driver.go:561-570`) under a lock that is
  the host's, not the array's, and setting a tag replaces the one there (`client.go:473`): two hosts that import
  one volume under two names at once both succeed, although `Adopt` "refuses to steal a volume already
  claimed" (`driver.go:538`). The later tag wins; the other host goes on to find the volume through its cache,
  and its Remove destroys what is now the other name's. The runs have one name, so they do
  not meet this; the theorems have any number of names and except those whose tag was replaced.
* The other exceptions of the properties about names, listed above: each is a case in which the
  code leaves two volumes with one name, or none a lookup finds, or trusts an old answer.
* A late 401 of one call empties the token another has just obtained (`client.go:296`). The other
  sends without a token, is refused, and fails if it had logged in again before;
  `UnauthorizedHasCause` says exactly when. The comment of `maxAttempts` (`client.go:241`) counts the
  new login among the attempts it bounds, but a 401 is not compared with it, so five requests
  can be sent (`RequestsBounded`).

## Proofs

### The lifecycle of a volume

`VolumeLifecycle_proofs` proves for every set of mount IDs, other hosts and
faults, whatever the settings:

| Theorem | Establishes |
| --- | --- |
| `TypeCorrect` | `Spec => []TypeOK` |
| `InvariantHolds` | `Spec => []IInv`, the inductive invariant |
| `ServedStays` | `Spec => []ServedStaysMounted` |
| `EntryMounted` | `Spec => []EntryIsMounted` |
| `ForeignHostsNew` | `Spec => []ForeignHostsAreNew` |
| `DestroysOnlyReleased` | `Spec => []DestroysReleased` |
| `NothingForgotten` | `Spec => []NoForgottenAttachment` |
| `NothingRevived` | on iSCSI, `Spec => []NoLeftoverRevived` |
| `NeverCuts` | on iSCSI, `Spec => NeverCutsHeld` |

The argument has four layers, each with one proof step per action.

1. `TypeOK` is inductive as it stands (`TypeStep`), with lemmas for what is common to
   the actions: how an operation takes the lock, goes on and ends; dropping the
   entry; the timers.
2. `BooksInv`, on any transport (`BooksStep`, given `TypeOK`). `ServedStaysMounted`
   alone is not inductive: a mount ID that Docker counts on but the entry does not
   hold would be unmounted by the next teardown, and an operation that starts at
   the wrong moment could be past its check. `ServedIsReferenced` puts every ID
   that was served into the entry's references, `EntryIsWhole` says which steps may
   run while there is an entry and that these find no reference, and
   `LockIsExclusive` which step belongs to which operation. `ForeignHostsAreNew`
   speaks of the end of a preemption; `ForeignHostsAreKnown` says the same of its
   middle.
3. `KeepInv`, on any transport (`KeepStep`, given the first two). `NoForgottenAttachment` speaks
   of the moments when no operation runs; `AttachmentIsKept` adds which steps of an
   operation may be in charge of the attachment instead of the timer: those from the
   connect to the answer, and those of a release that began. Its exception `stranded` is set by
   the exits that leave an attachment in place and say so in the log, and by the end of the
   process, which forgets its timers; so what is proved is that there is no other such exit.
4. `DeviceInv`, on iSCSI (`DeviceStep`, given `TypeOK`). `NeverCutsHeld` is about one
   step and needs to know that nothing holds the device when an operation has
   detached it. That is not inductive: a mount under way could mount in between,
   a container could start. `HeldHasDevice` adds what rules that out: what holds the
   volume has a device beneath it, and so does a Mount between its finding the
   device and its success.

`IInv` is the conjunction; the other theorems are parts of it or follow from it.
The assumptions are `ConstantsAssumption` and, where the table says so, that the
transport is iSCSI: on NVMe/TCP `NeverCutsHeld` does not hold, as the run shows.

### Waiting for the holder

`Takeover_proofs` proves for every set of nodes and every setting `SettingsAssumption` admits:

| Theorem | Establishes |
| --- | --- |
| `TypeCorrect` | `Spec => []TypeOK` |
| `InvariantHolds` | `Spec => []IInv`, the inductive invariant |
| `HoldersGetTheGrace` | `Spec => PreemptsOnlyAfterGrace` |

The driver does not watch anybody: it keeps a record of who held the volume and since when, and
trusts it while it is not stale. `RecordSeen` ties the record to the history `watched`, the time
each host was really connected and looked at: while the record is not stale, none of its hosts was
watched for less than it says. `WaitRecorded` says that a Mount that waits has read the hosts of its
own record and refreshed it at the last poll, and `ChosenSeen` carries the grace from the poll that
chose the hosts to their disconnection. The step that could break it is the tick (`TickStep`), in which all ages grow
up to their caps; `LookStep` is what every look at the holders does.

### Names, locks and the known file

`Names_proofs` proves for every set of hosts, requests, names and faults, and with any requests
overlapping:

| Theorem | Establishes |
| --- | --- |
| `InvariantHolds` | `Spec => []IInv`, the inductive invariant |
| `TypeCorrect` | `Spec => []TypeOK` |
| `LocksHeldOnce` | `Spec => []LocksAreHeldOnce` |
| `FileHoldsLatest` | `Spec => []FileIsLatest` |

`LocksOwned` says that a full channel belongs to exactly one request. For a step to keep it, the request that
gives back a lock must be at a point where it has one, and know of which volume: `Sane` says that for each
step. `FileKept` says that the file, or the copy somebody is writing,
is what is known unless somebody has yet to save. Most steps move one request and touch neither the file nor
another's lock: these are `Quiet`, and it is proved once that a quiet step keeps the invariant
(`QuietStep`), and for each action that it is one (`FindQuiet`, `ChangeQuiet`, `NoteQuiet`, `BeginQuiet`,
`FailQuiet`). The lock, the two halves of a save and a restart have lemmas of their own. `DataStep`
types the volumes and the caches. The assumption is `NamesAssumption`.

### What a name leads to

`NamesLead_proofs` proves, for every set of hosts, requests and names:

| Theorem | Establishes |
| --- | --- |
| `LeadingHolds` | `Spec => []Leading`, the inductive invariant (with the `IInv` above) |
| `LeadsToOne` | `Spec => []NameLeadsToOneVolume` |
| `MissingIsAbsent` | `Spec => MissingOnlyIfAbsent` |
| `RemovedIsAbsent` | `Spec => RemovedIsGone` |
| `ServedWasThere` | `Spec => ServedIsThere` |
| `ListIsTrue` | `Spec => ListTellsAll` |

The assumption is `NamesApart`, besides `NamesAssumption`: the names a Create can give a volume are its Docker name's own, and no
volume to import has one of them, as the hash and the namespace in an array name make it. No order of requests and no fault is
ruled out. What the code does not keep up is in the properties, as `misled` and `muddled`, and every other
interleaving and fault is in the theorems, which is what they say: there is no other way.

That no name leads to two volumes is not inductive, because a request acts on what it was told some calls ago.

* A volume some host's cache or some request's answer has for a name is that name's until it is eradicated (`Its`): another name
  could get it only by an import, which takes a volume without a tag; one that takes a tag all the same has
  `Stolen` it.
* While a name is not muddled one request at a time changes it (`Sole`): the step with which a second one starts is the
  one that muddles it.
* Who was not misled found what it looked for (`Sure`), and what it then relies on is `Sound`; a name whose
  requests lost their ground is muddled as soon as one of them acts on it.
* What each kind of request still relies on, at each of its steps: Create and Remove know
  all that their name leads to (`Maker`), which is where the second look, the destroyed volumes
  and the lock taken again come in; an import knows the name to lead nowhere and its volume to be untagged, or claimed since, in which case setting
  the tag muddles both names (`Importer`); Get and Mount find what they found, or the name has led to none since they began (`Reader`); List has
  every name's tag, whatever is renamed or destroyed between its two calls (`Lister`).
* What a step does to the volumes: of a name it does not change, at most a live volume is
  destroyed by other means (`Leaves`); and whoever only reads a name finds what it found, or
  has seen it lead to none (`Gentle`). The lemmas called `...Spared` show that a request
  fits after such a step of another (`Considerate`), once for each of the four kinds.

So an action needs a proof only that it is considerate and that the request which takes
it fits afterwards (the lemmas called `...Fine`), and `Advance` puts the two together. The step that is
not obviously considerate is Remove's rename: for a moment the volume is under neither its
old name nor, for a reader that has read the tags already, under the new one; the history of Get and
Mount then says that the name led to none, as the volume is `BeingDestroyed`.

### LUN numbers and paths

`HostPaths_proofs` proves for every set of volumes, numbers, disk names, ports and faults:

| Theorem | Establishes |
| --- | --- |
| `InvariantHolds` | `Spec => []IInv`, the inductive invariant |
| `TypeCorrect` | `Spec => []TypeOK` |
| `AttachedClean` | `Spec => []AttachedLUNIsClean` |
| `LivePathsSpared` | `Spec => SweepSparesLivePaths` |
| `DisconnectsClean` | `Spec => DisconnectsWithoutPaths` |
| `MountReaches` | `Spec => MountReachesOwnVolume` |

The argument is the lock's: only its holder lists, connects, deletes and disconnects (`Held`), so what the holder learned
stays true but for what another node takes away, and that only makes numbers free. `Listed` says so of the list, with the exception the path
check is claimed to stand, a missing entry; `SweptIsClean` of the sweep after the connect, which fails if a
stale disk stays on its own number; `DetachedIsGone` of the detach; `GivenIs` says that the number `CheckLUN`
compares with is the one the array gives. `Sane` is all of that for one operation. `HolderStep` shows once
that a step under the lock leaves it to the others, because they are at no step that needs the lock; a scan (`FindsKeeps`) is
the step that adds a disk without the lock, and finds the volume its number carries. multipathd does not occur in the
invariant: whatever it files and adds, these properties do not rest on it. What does rest on it is what
`CheckLUN` looks at, and `FlushesOnlyOwnVolume`, which does not hold.
The assumption is `HostAssumption`.

### The host object

`HostAccess_proofs` proves for every set of volumes and portals, any number of teardowns and any faults:

| Theorem | Establishes |
| --- | --- |
| `InvariantHolds` | `Spec => []IInv`, the inductive invariant |
| `TypeCorrect` | `Spec => []TypeOK` |
| `ConnectionsFound` | `Spec => []OwnConnectionsAreFound` |
| `UndisturbedSucceeds` | `Spec => UndisturbedMountSucceeds` |

`OwnConnectionsAreFound` is not inductive: the host object may be made anew, by either plugin, and the driver takes the name it
then finds. `ConnectionsHaveOwner` says that nothing is connected while there is no host object, so
nothing is lost with the old name; `UpWhenBusy` that an operation never outlives the process, so whoever
connects goes by a name. Most steps leave the host object and its name alone (`QuietStep`); those that do not
are in `StartStep`, `PureStep` and `HostStep`.

`UndisturbedSucceeds` needs a second invariant, `CalmInv`: what a Mount in `calm` can count on at each of its steps.
A session it found or made is still there, and so is the node record between its creation and the login
(`SessionsStay`); under the Exclusive lock, which one operation has at a time (`ExclIsHeld`), the host object
is the one it found or made (`HostStays`). The proof is by rely and guarantee: `StepIsConsiderate`
says what a step for one volume leaves to the others, `OthersCount` that this is all they count on, and the
`Calm...` lemmas that a Mount's own steps give what its next step counts on, so that every way
to fail is closed. The assumption is `AccessAssumption`; that there is a portal is needed here, since
`Connect` fails without one.

### A volume's data

`VolumeData_proofs` proves for every set of hosts and faults and every bound on the mounts:

| Theorem | Establishes |
| --- | --- |
| `InvariantHolds` | `Spec => []IInv`, the inductive invariant |
| `TypeCorrect` | `Spec => []TypeOK` |
| `CutOff` | `Spec => []OvertakenMountsAreCutOff` |
| `NoDataFormatted` | `Spec => FormatsNoData` |

That whoever can write holds the latest mount is not inductive: a host that clearLeftover let
past because it was still connected could be taken off the volume, overtaken, and then
connect. `NoRace` says that, unless two hosts raced, one host at most is connected
(`OneConnection`); that a host past its look finds nobody else there as long as nobody overtook it;
and that the latest mount is also what a host holds that is about to connect (`HoldsLatest`). `FormatsLookedUp`
follows what Mount looked up: a host at mkfs has found no filesystem, and as it is the only one
connected none can have been made since; so the volume carries data only if it was damaged
after the lookup. Three lemmas cover what the actions share (`QuietStep`, `ConnectStep`,
`CutShortStep`), and `DataLossStep` says which steps can lose data at all. The assumption is
`DataAssumption`.

### The client

`ArrayClient_proofs` proves for every set of calls, of which any may be POSTs, and every
bound on attempts and sessions:

| Theorem | Establishes |
| --- | --- |
| `Invariance` | `Spec => []IInv`, the inductive invariant |
| `Typing` | `Spec => []TypeOK` |
| `Bounded` | `Spec => []RequestsBounded` |
| `Cause` | `Spec => []UnauthorizedHasCause` |
| `Refinement` | `Spec => KeepsContract`: `ArrayClient` implements `ArrayCall` |

`TypeOK` alone is not inductive: that the attempts stay below `MaxAttempts + 2` rests on
a 401 being taken only once and on a backoff being entered only below the bound. `Numbered` says
so, and that a call which has not sent yet has no request with its present number
(`TypeStep`). `Effects` (`EffectsStep`) is what the contract needs: a POST has at most one
request on its way, and none when it may be sent again; this is where the code's rule that
a POST is retried after a 429 but not after a 5xx is used. `Sessions` (`SessionsStep`) keeps count of how
often a call has lost its session, wherever the bad token is at the moment: still in
the client, in a request, or in an answer. `ContractStep` maps each step to one of
`ArrayCall` or to a stutter. The assumption is `ClientAssumption`.

### Only model-checked

The liveness properties, because temporal reasoning about
`ENABLED` and fairness is out of TLAPS's reach: `IdleMountIsReleased`, `KeptIsReleased`, `DeadHolderGivesWay`,
`CallsEnd` and `MountsGetThrough`. Every other property of a passing run is a theorem.

## Not modelled

The parsing of mountinfo, JSON and command output, what `mkfs` writes, logging,
the HTTP endpoint, the starting of processes and the reading of settings: no property here
is about them. `VolumeData` is about iSCSI: on NVMe/TCP a detach
refuses nothing, and whether a namespace that comes back revives a mount is the kernel's. Of the iSCSI transport: hosts without multipathd, queueing, and the
forced removal of a map whose open count cannot be read (`iscsi.go:703`). An orphaned `mkfs` (`hostexec.go:31-36` does not tie the
commands it starts to the plugin): `VolumeData` ends one that a restart or the budget cuts short at once. An imported volume whose tag cannot be looked up
at start (`driver.go:204-208`): it is recovered under its computed name and its lock is then another's; `VolumeLifecycle` has the volume whose
name is right. Of the names: clones, the
computation of the array name (taken to differ for different Docker names, as its hash makes it)
and namespaces other than one. Of the client: the negotiation of the version, paging, and a
host object that has only some of the node's initiators. Of NVMe/TCP: its controllers, which `nvmeTCP.Connect` remembers and the kernel reconnects by itself.

## Plan

1. Pure operators: `arrayName`, `ParseSize`, `ValidateLinger`, checked against
   reference definitions.
2. An abstract volume service (what Docker is promised) that `VolumeLifecycle`
   implements; paging of `nameTags`; clones.
