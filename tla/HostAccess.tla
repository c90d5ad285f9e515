------------------------------ MODULE HostAccess ------------------------------
(***************************************************************************)
(* What a node needs before it can attach anything: its host object on the *)
(* array and its iSCSI sessions (New, ensureConnected, reensureHost and    *)
(* connectSwept in internal/driver/driver.go, EnsureHost in client.go,     *)
(* Connect in internal/transport/iscsi.go).                                *)
(*                                                                         *)
(* Both are shared with the Pure plugin, which may run on the same node:   *)
(* whenever its host object has no connections it logs every session out,  *)
(* deletes the node records and, after its last detach, the host object    *)
(* (README.md:452).  It is modelled as that sentence has it, one step for  *)
(* each; the array keeps a host object that has connections, and gives an  *)
(* initiator to one host object only.                                      *)
(***************************************************************************)
EXTENDS Integers, FiniteSets

CONSTANTS
    Volumes,
    Portals,      \* the array's portals FA_ALLOWED_CIDRS admits; without one no Mount starts
    OurName,      \* FA_HOST_NAME
    PureName,     \* the name the Pure plugin gives a host object it makes
    Theirs,       \* a volume of the Pure plugin's
    MaxTroubles,  \* bound: how often a call fails, the process dies or the Pure plugin
                  \* tears down
    None

ASSUME AccessAssumption ==
    /\ Theirs \notin Volumes /\ None \notin Volumes \union {OurName, PureName}
    /\ Portals # {} /\ MaxTroubles \in Nat

VARIABLES
    owner,    \* the array: the host object with this node's IQN
    conns,    \* the array: the volumes connected to it
    live,     \* the node: portals with a session
    records,  \* the node: portals with a node record
    pure,     \* what the Pure plugin is about
    host,     \* d.host; None while the process starts
    boot,     \* New: "find" and "make" a host object, "up"
    mu,       \* the Mount that holds the transport's mu
    excl,     \* who holds the transport's Exclusive lock
    op,       \* the operation under way for each volume
    use,      \* what Docker has or wants of each volume
    kept,     \* pending: volumes kept attached for a retry
    troubles, \* how many of them there were
    calm      \* history: Mounts that nothing has disturbed so far

arrayVars == <<owner, conns>>
nodeVars  == <<live, records>>
procVars  == <<host, boot>>
vars == <<arrayVars, nodeVars, pure, procVars, mu, excl, op, use, kept, troubles, calm>>

\* A Mount: "ports", "mu", "list", "login", "enter" (a portal), "attach" (wait
\* for Exclusive), "luns", "find", "make", "again", "connect", "after",
\* "device"; "back" waits to "undo" the attach, "release" to let the volume "go".
Steps == {"none", "ports", "mu", "list", "login", "enter", "attach", "luns", "find", "make",
          "again", "connect", "after", "device", "back", "undo", "release", "go"}

Operations == [pc : Steps, listed : SUBSET Portals, todo : SUBSET Portals,
               at : Portals \union {None}, up : BOOLEAN]

NoOp == [pc |-> "none", listed |-> {}, todo |-> {}, at |-> None, up |-> FALSE]

HostNames == {OurName, PureName}

TypeOK ==
    /\ owner \in HostNames \union {None} /\ conns \subseteq Volumes \union {Theirs}
    /\ live \subseteq Portals /\ records \subseteq Portals
    /\ pure \in {"off", "on", "logout", "records", "delete"}
    /\ boot \in {"find", "make", "up"} /\ host \in (IF boot = "up" THEN HostNames ELSE {None})
    /\ mu \in Volumes \union {None} /\ excl \in Volumes \union {None}
    /\ op \in [Volumes -> Operations]
    /\ use \in [Volumes -> {"idle", "wanted", "mounted"}]
    /\ kept \subseteq Volumes /\ calm \subseteq Volumes
    /\ troubles \in 0..MaxTroubles

Init ==
    /\ owner \in HostNames \union {None} /\ conns = {}
    /\ live = {} /\ records = {}
    /\ pure = "off"
    /\ host = None /\ boot = "find" /\ mu = None /\ excl = None
    /\ op = [v \in Volumes |-> NoOp]
    /\ use = [v \in Volumes |-> "idle"]
    /\ kept = {} /\ troubles = 0 /\ calm = {}

-----------------------------------------------------------------------------
At(v, step) == op[v].pc = step

Goto(v, step) == op' = [op EXCEPT ![v].pc = step]

End(v) == op' = [op EXCEPT ![v] = NoOp]

\* A fault or a teardown, no more often than the bound; it disturbs every Mount.
Trouble == troubles < MaxTroubles /\ troubles' = troubles + 1 /\ calm' = {}

NoTrouble == UNCHANGED <<troubles, calm>>

\* The operation ends and gives back what it holds.
Ends(v) ==
    /\ End(v)
    /\ excl' = IF excl = v THEN None ELSE excl
    /\ mu' = IF mu = v THEN None ELSE mu

-----------------------------------------------------------------------------
(* New. *)

\* Logging in at the start, ConnectOnStart, gets as far as it may.
LogsInAtStart ==
    \E up \in SUBSET Portals : live' = live \union up /\ records' = records \union up

\* Mutant: the host object is taken to have the configured name.
FindAtStartByName ==
    /\ boot = "find" /\ boot' = "up"
    /\ host' = OurName /\ LogsInAtStart
    /\ UNCHANGED <<arrayVars, pure, mu, excl, op, use, kept, troubles, calm>>

\* EnsureHost: the host object is the one that has this node's IQN.
FindAtStart ==
    /\ boot = "find"
    /\ \/ owner # None /\ host' = owner /\ boot' = "up" /\ LogsInAtStart
       \/ owner = None /\ boot' = "make" /\ UNCHANGED <<host, nodeVars>>
    /\ UNCHANGED <<arrayVars, pure, mu, excl, op, use, kept, troubles, calm>>

\* ... or one made for it; if somebody else has made one, New fails and Docker
\* starts the process again.
MakeAtStart ==
    /\ boot = "make"
    /\ \/ /\ owner = None /\ owner' = OurName /\ host' = OurName /\ boot' = "up"
          /\ LogsInAtStart
       \/ owner # None /\ boot' = "find" /\ UNCHANGED <<owner, host, nodeVars>>
    /\ UNCHANGED <<conns, pure, mu, excl, op, use, kept, troubles, calm>>

\* The process dies and is started again; what is mounted is recovered.
Restart ==
    /\ Trouble
    /\ host' = None /\ boot' = "find" /\ mu' = None /\ excl' = None
    /\ op' = [v \in Volumes |-> NoOp] /\ kept' = {}
    /\ UNCHANGED <<arrayVars, nodeVars, pure, use>>

-----------------------------------------------------------------------------
(* Mount: ensureConnected. *)

\* Docker wants a volume, and tries until it has it.
Want(v) ==
    /\ use[v] = "idle" /\ use' = [use EXCEPT ![v] = "wanted"]
    /\ UNCHANGED <<arrayVars, nodeVars, pure, procVars, mu, excl, op, kept, troubles, calm>>

Ask(v) ==
    /\ boot = "up" /\ At(v, "none") /\ use[v] = "wanted"
    /\ Goto(v, "ports")
    /\ calm' = IF pure \in {"off", "on"} THEN calm \union {v} ELSE calm
    /\ UNCHANGED <<arrayVars, nodeVars, pure, procVars, mu, excl, use, kept, troubles>>

Ports(v) ==
    /\ At(v, "ports") /\ Goto(v, "mu")
    /\ UNCHANGED <<arrayVars, nodeVars, pure, procVars, mu, excl, use, kept, troubles, calm>>

LockMu(v) ==
    /\ At(v, "mu") /\ mu = None /\ mu' = v /\ Goto(v, "list")
    /\ UNCHANGED <<arrayVars, nodeVars, pure, procVars, excl, use, kept, troubles, calm>>

\* Mutant: the transport goes by the logins it made, not by the sessions there are.
ListRemembered(v) ==
    /\ At(v, "list")
    /\ op' = [op EXCEPT ![v].pc = "login", ![v].listed = Portals, ![v].todo = Portals]
    /\ UNCHANGED <<arrayVars, nodeVars, pure, procVars, mu, excl, use, kept, troubles, calm>>

\* Which sessions there are; if that cannot be told, each portal is logged in to.
List(v) ==
    /\ At(v, "list")
    /\ \/ NoTrouble /\ op' = [op EXCEPT ![v].pc = "login", ![v].listed = live, ![v].todo = Portals]
       \/ Trouble /\ op' = [op EXCEPT ![v].pc = "login", ![v].todo = Portals]
    /\ UNCHANGED <<arrayVars, nodeVars, pure, procVars, mu, excl, use, kept>>

\* The next portal: it has a session, cannot be reached, or gets a node record ...
Login(v) ==
    /\ At(v, "login") /\ UNCHANGED <<arrayVars, live, pure, procVars, mu, excl, use, kept>>
    /\ \E p \in op[v].todo :
        \/ /\ p \in op[v].listed /\ NoTrouble /\ UNCHANGED records
           /\ op' = [op EXCEPT ![v].todo = @ \ {p}, ![v].up = TRUE]
        \/ /\ p \notin op[v].listed /\ Trouble /\ UNCHANGED records
           /\ op' = [op EXCEPT ![v].todo = @ \ {p}]
        \/ /\ p \notin op[v].listed /\ NoTrouble /\ records' = records \union {p}
           /\ op' = [op EXCEPT ![v].pc = "enter", ![v].at = p, ![v].todo = @ \ {p}]

\* ... and a login, which needs the record; one that finds a session is good too.
Enter(v) ==
    LET p == op[v].at IN
    /\ At(v, "enter")
    /\ \/ /\ p \in records /\ live' = live \union {p} /\ NoTrouble
          /\ op' = [op EXCEPT ![v].pc = "login", ![v].at = None, ![v].up = TRUE]
       \/ /\ (p \notin records /\ NoTrouble) \/ Trouble
          /\ op' = [op EXCEPT ![v].pc = "login", ![v].at = None] /\ UNCHANGED live
    /\ UNCHANGED <<arrayVars, records, pure, procVars, mu, excl, use, kept>>

\* All portals are done; with no session the Mount fails.
LoggedIn(v) ==
    /\ At(v, "login") /\ op[v].todo = {}
    /\ \/ /\ op[v].up /\ mu' = None /\ UNCHANGED excl
          /\ op' = [op EXCEPT ![v] = [NoOp EXCEPT !.pc = "attach"]]
       \/ ~op[v].up /\ Ends(v)
    /\ UNCHANGED <<arrayVars, nodeVars, pure, procVars, use, kept, troubles, calm>>

-----------------------------------------------------------------------------
(* Mount: connectSwept, under the Exclusive lock. *)

LockExcl(v) ==
    /\ op[v].pc \in {"attach", "back", "release"} /\ excl = None /\ excl' = v
    /\ Goto(v, CASE At(v, "attach") -> "luns" [] At(v, "back") -> "undo" [] OTHER -> "go")
    /\ UNCHANGED <<arrayVars, nodeVars, pure, procVars, mu, use, kept, troubles, calm>>

\* Mutant: a host object that is gone only fails the Mount.
LunsOrFail(v) ==
    /\ At(v, "luns")
    /\ \/ owner = host /\ Goto(v, "connect") /\ UNCHANGED <<mu, excl>>
       \/ owner # host /\ Ends(v)
    /\ UNCHANGED <<arrayVars, nodeVars, pure, procVars, use, kept, troubles, calm>>

\* HostLUNs: the array does not know the host, and it is looked for.
Luns(v) ==
    /\ At(v, "luns") /\ Goto(v, IF owner = host THEN "connect" ELSE "find")
    /\ UNCHANGED <<arrayVars, nodeVars, pure, procVars, mu, excl, use, kept, troubles, calm>>

\* Mutant: what the search answered is taken for the host object, also if it is nothing.
FindHostUnchecked(v) ==
    /\ At(v, "find")
    /\ host' = owner /\ Goto(v, IF owner # None THEN "again" ELSE "make")
    /\ UNCHANGED <<arrayVars, nodeVars, pure, boot, mu, excl, use, kept, troubles, calm>>

\* reensureHost, EnsureHost: by the IQN ...
FindHost(v) ==
    /\ At(v, "find")
    /\ \/ owner # None /\ host' = owner /\ Goto(v, "again")
       \/ owner = None /\ Goto(v, "make") /\ UNCHANGED host
    /\ UNCHANGED <<arrayVars, nodeVars, pure, boot, mu, excl, use, kept, troubles, calm>>

\* ... or made anew, which fails when somebody else was faster.
MakeHost(v) ==
    /\ At(v, "make")
    /\ \/ /\ owner = None /\ owner' = OurName /\ host' = OurName
          /\ Goto(v, "again") /\ UNCHANGED <<mu, excl>>
       \/ owner # None /\ Ends(v) /\ UNCHANGED <<owner, host>>
    /\ UNCHANGED <<conns, nodeVars, pure, boot, use, kept, troubles, calm>>

\* The second HostLUNs.
LunsAgain(v) ==
    /\ At(v, "again")
    /\ \/ owner = host /\ Goto(v, "connect") /\ UNCHANGED <<mu, excl>>
       \/ owner # host /\ Ends(v)
    /\ UNCHANGED <<arrayVars, nodeVars, pure, procVars, use, kept, troubles, calm>>

Connect(v) ==
    /\ At(v, "connect")
    /\ \/ owner = host /\ conns' = conns \union {v} /\ Goto(v, "after") /\ UNCHANGED <<mu, excl>>
       \/ owner # host /\ Ends(v) /\ UNCHANGED conns
    /\ UNCHANGED <<owner, nodeVars, pure, procVars, use, kept, troubles, calm>>

\* HostLUNs after the connect; without it the attach is rolled back.
After(v) ==
    /\ At(v, "after")
    /\ \/ NoTrouble /\ Goto(v, "device") /\ excl' = None
       \/ Trouble /\ Goto(v, "undo") /\ UNCHANGED excl
    /\ UNCHANGED <<arrayVars, nodeVars, pure, procVars, mu, use, kept>>

-----------------------------------------------------------------------------
(* Mount: the device; and what gives an attachment back. *)

\* The device appears through any session there is.
Mounted(v) ==
    /\ At(v, "device") /\ live # {} /\ v \in conns
    /\ End(v) /\ use' = [use EXCEPT ![v] = "mounted"] /\ kept' = kept \ {v}
    /\ UNCHANGED <<arrayVars, nodeVars, pure, procVars, mu, excl, troubles, calm>>

\* It does not, in time: the attachment is kept for a retry, or rolled back when
\* keeping is off.
Late(v) ==
    /\ At(v, "device")
    /\ ((live = {} \/ v \notin conns) /\ NoTrouble) \/ Trouble
    /\ \/ End(v) /\ kept' = kept \union {v}
       \/ Goto(v, "back") /\ UNCHANGED kept
    /\ UNCHANGED <<arrayVars, nodeVars, pure, procVars, mu, excl, use>>

\* Disconnect; a host object that is not there has nothing connected.
Undo(v) ==
    /\ op[v].pc \in {"undo", "go"}
    /\ conns' = IF owner = host THEN conns \ {v} ELSE conns
    /\ Ends(v) /\ kept' = IF At(v, "go") THEN kept \ {v} ELSE kept
    /\ UNCHANGED <<owner, nodeVars, pure, procVars, use, troubles, calm>>

\* keepExpired; if the release fails the volume is kept on.
KeepEnds(v) ==
    /\ v \in kept /\ At(v, "none") /\ Goto(v, "release")
    /\ UNCHANGED <<arrayVars, nodeVars, pure, procVars, mu, excl, use, kept, troubles, calm>>

Unmount(v) ==
    /\ boot = "up" /\ use[v] = "mounted" /\ At(v, "none")
    /\ use' = [use EXCEPT ![v] = "idle"] /\ Goto(v, "release")
    /\ UNCHANGED <<arrayVars, nodeVars, pure, procVars, mu, excl, kept, troubles, calm>>

\* An array call fails, and with it the operation: nothing was done, or it was and
\* the answer is lost.
CallFails(v) ==
    /\ op[v].pc \in {"ports", "luns", "find", "make", "again", "connect", "undo", "go"} /\ Trouble
    /\ Ends(v)
    /\ \/ UNCHANGED arrayVars
       \/ At(v, "make") /\ owner = None /\ owner' = OurName /\ UNCHANGED conns
       \/ At(v, "connect") /\ owner = host /\ conns' = conns \union {v} /\ UNCHANGED owner
       \/ op[v].pc \in {"undo", "go"} /\ owner = host /\ conns' = conns \ {v} /\ UNCHANGED owner
    /\ UNCHANGED <<nodeVars, pure, procVars, use, kept>>

\* The time to wait for the Exclusive lock is over.
GiveUp(v) ==
    /\ op[v].pc \in {"attach", "back", "release"} /\ Trouble
    /\ End(v)
    /\ UNCHANGED <<arrayVars, nodeVars, pure, procVars, mu, excl, use, kept>>

-----------------------------------------------------------------------------
(* The Pure plugin. *)

PureAttaches ==
    /\ pure = "off" /\ pure' = "on"
    /\ owner' = (IF owner = None THEN PureName ELSE owner) /\ conns' = conns \union {Theirs}
    /\ live' = Portals /\ records' = Portals /\ calm' = {}
    /\ UNCHANGED <<procVars, mu, excl, op, use, kept, troubles>>

PureDetaches ==
    /\ pure = "on" /\ pure' = "off" /\ conns' = conns \ {Theirs} /\ calm' = {}
    /\ UNCHANGED <<owner, nodeVars, procVars, mu, excl, op, use, kept, troubles>>

\* It finds that the host object has no connections ...
PureLooks ==
    /\ pure = "off" /\ owner # None /\ conns = {} /\ Trouble
    /\ pure' = "logout"
    /\ UNCHANGED <<arrayVars, nodeVars, procVars, mu, excl, op, use, kept>>

PureLogsOut ==
    /\ pure = "logout" /\ pure' = "records" /\ live' = {} /\ calm' = {}
    /\ UNCHANGED <<arrayVars, records, procVars, mu, excl, op, use, kept, troubles>>

PureDropsRecords ==
    /\ pure = "records" /\ pure' = "delete" /\ records' = {} /\ calm' = {}
    /\ UNCHANGED <<arrayVars, live, procVars, mu, excl, op, use, kept, troubles>>

\* ... and deletes the host object, or leaves it be.
PureDeletesHost ==
    /\ pure = "delete" /\ pure' = "off" /\ calm' = {}
    /\ owner' \in (IF conns = {} THEN {owner, None} ELSE {owner})
    /\ UNCHANGED <<conns, nodeVars, procVars, mu, excl, op, use, kept, troubles>>

-----------------------------------------------------------------------------
Goes(v) ==
    \/ Ports(v) \/ List(v) \/ Login(v) \/ Enter(v) \/ LoggedIn(v)
    \/ Luns(v) \/ FindHost(v) \/ MakeHost(v) \/ LunsAgain(v) \/ Connect(v) \/ After(v)
    \/ Mounted(v) \/ Late(v) \/ Undo(v)

PureSteps ==
    \/ PureAttaches \/ PureDetaches
    \/ PureLooks \/ PureLogsOut \/ PureDropsRecords \/ PureDeletesHost

Next ==
    \/ FindAtStart \/ MakeAtStart \/ Restart
    \/ \E v \in Volumes :
          \/ Want(v) \/ Ask(v) \/ Goes(v) \/ LockMu(v) \/ LockExcl(v)
          \/ KeepEnds(v) \/ Unmount(v) \/ CallFails(v) \/ GiveUp(v)
    \/ PureSteps

Spec == Init /\ [][Next]_vars

(***************************************************************************)
(* Fairness: the process starts, Docker retries, an operation goes on; the *)
(* transport's mutexes are handed to whoever waits (sync.Mutex starves     *)
(* nobody, a channel serves its senders in order).  Nothing is assumed of  *)
(* the Pure plugin.                                                        *)
(***************************************************************************)
Fairness ==
    /\ WF_vars(FindAtStart) /\ WF_vars(MakeAtStart)
    /\ \A v \in Volumes :
          WF_vars(Ask(v)) /\ WF_vars(Goes(v)) /\ SF_vars(LockMu(v)) /\ SF_vars(LockExcl(v))

FairSpec == Spec /\ Fairness

-----------------------------------------------------------------------------
(***************************************************************************)
(* What this node has connected is connected to the host object it goes    *)
(* by: otherwise takeOver would take the node for another that holds the   *)
(* volume (otherHosts), clearLeftover a device in use for a leftover, and  *)
(* a disconnect would succeed and leave the volume connected.              *)
(***************************************************************************)
OwnConnectionsAreFound ==
    host # None /\ conns \intersect Volumes # {} => owner = host

(***************************************************************************)
(* A Mount that neither the Pure plugin nor a fault disturbs succeeds: no  *)
(* session, node record or host object that an earlier teardown took away  *)
(* is still counted on (README.md:457).                                    *)
(***************************************************************************)
UndisturbedMountSucceeds ==
    [][\A v \in Volumes :
          op[v].pc \notin {"none", "release", "go"} /\ op'[v].pc = "none" /\ v \in calm \intersect calm'
              => use'[v] = "mounted"]_vars

(***************************************************************************)
(* A volume Docker keeps asking for is mounted in the end, although the    *)
(* Pure plugin tears down under it (README.md:458).                        *)
(***************************************************************************)
MountsGetThrough ==
    \A v \in Volumes : use[v] = "wanted" ~> use[v] = "mounted"
=============================================================================
