-------------------------- MODULE HostAccess_proofs --------------------------
(***************************************************************************)
(* Theorems about HostAccess.  The driver and the Pure plugin share a host *)
(* object, and neither knows what the other does with it; that what this   *)
(* node has connected is connected to the host object it goes by rests on  *)
(* the array, which keeps a host object that has connections, and on the   *)
(* driver, which connects only to the host object it goes by and takes     *)
(* another name only from the array.  That a Mount which nothing disturbs  *)
(* succeeds rests on what it can count on at each of its steps.            *)
(***************************************************************************)
EXTENDS HostAccess, TLAPS

\* The array has no connections without a host object.
ConnectionsHaveOwner == owner = None => conns = {}

\* An operation, or a kept volume, belongs to a process that has started.
UpWhenBusy == boot # "up" => kept = {} /\ \A v \in Volumes : At(v, "none")

IInv ==
    /\ TypeOK
    /\ ConnectionsHaveOwner
    /\ UpWhenBusy
    /\ OwnConnectionsAreFound

-----------------------------------------------------------------------------
(* How a step may move an operation. *)

LEMMA NoOpTyped == NoOp \in Operations
  BY DEF NoOp, Operations, Steps

LEMMA GotoTyped ==
  ASSUME NEW v \in Volumes, NEW step \in Steps, op \in [Volumes -> Operations], Goto(v, step)
  PROVE  op' \in [Volumes -> Operations]
  BY DEF Goto, Operations

LEMMA EndTyped ==
  ASSUME NEW v \in Volumes, op \in [Volumes -> Operations], End(v)
  PROVE  op' \in [Volumes -> Operations]
  BY NoOpTyped DEF End

\* An operation that ends gives back its locks.
LEMMA EndsTyped ==
  ASSUME NEW v \in Volumes, TypeOK, Ends(v)
  PROVE  /\ op' \in [Volumes -> Operations]
         /\ mu' \in Volumes \union {None} /\ excl' \in Volumes \union {None}
  BY EndTyped DEF Ends, TypeOK

\* A fault is counted.
LEMMA TroubleTyped ==
  ASSUME TypeOK, Trouble \/ NoTrouble
  PROVE  troubles' \in 0..MaxTroubles /\ calm' \subseteq Volumes
  BY AccessAssumption DEF Trouble, NoTrouble, TypeOK

\* An operation that is somewhere is one of a process that has started.
LEMMA BusyIsUp ==
  ASSUME IInv, NEW v \in Volumes, op[v].pc # "none"
  PROVE  boot = "up" /\ host \in HostNames /\ host # None
  BY AccessAssumption DEF IInv, UpWhenBusy, At, TypeOK, HostNames

-----------------------------------------------------------------------------
(* What the steps leave of the invariant. *)

\* A step that connects nothing and leaves the host object and its name alone.
LEMMA QuietStep ==
  ASSUME IInv, UNCHANGED <<owner, host>>, conns' \subseteq conns
  PROVE  ConnectionsHaveOwner' /\ OwnConnectionsAreFound'
  BY DEF IInv, ConnectionsHaveOwner, OwnConnectionsAreFound

LEMMA UpStep ==
  ASSUME IInv, boot = "up", UNCHANGED boot
  PROVE  UpWhenBusy'
  BY DEF UpWhenBusy

LEMMA InitInv == Init => IInv
  BY AccessAssumption, NoOpTyped
  DEF Init, IInv, TypeOK, HostNames, ConnectionsHaveOwner, UpWhenBusy, OwnConnectionsAreFound, At, NoOp

LEMMA StartStep ==
  ASSUME IInv, FindAtStart \/ MakeAtStart
  PROVE  IInv'
<1>1. LogsInAtStart => live' \subseteq Portals /\ records' \subseteq Portals
  BY DEF LogsInAtStart, IInv, TypeOK
<1>2. CASE FindAtStart
  <2>1. TypeOK'
    BY <1>1, <1>2, AccessAssumption
    DEF FindAtStart, IInv, TypeOK, HostNames, arrayVars, nodeVars
  <2>2. ConnectionsHaveOwner' /\ UpWhenBusy' /\ OwnConnectionsAreFound'
    BY <1>2, AccessAssumption
    DEF FindAtStart, IInv, TypeOK, ConnectionsHaveOwner, UpWhenBusy, OwnConnectionsAreFound, At, arrayVars
  <2> QED BY <2>1, <2>2 DEF IInv
<1>3. CASE MakeAtStart
  <2>1. TypeOK'
    BY <1>1, <1>3, AccessAssumption
    DEF MakeAtStart, IInv, TypeOK, HostNames, nodeVars
  <2>2. ConnectionsHaveOwner' /\ UpWhenBusy' /\ OwnConnectionsAreFound'
    BY <1>3, AccessAssumption
    DEF MakeAtStart, IInv, TypeOK, ConnectionsHaveOwner, UpWhenBusy, OwnConnectionsAreFound, At
  <2> QED BY <2>1, <2>2 DEF IInv
<1> QED BY <1>2, <1>3

LEMMA RestartStep ==
  ASSUME IInv, Restart
  PROVE  IInv'
<1>1. troubles' \in 0..MaxTroubles /\ calm' \subseteq Volumes
  BY TroubleTyped DEF Restart, IInv
<1>2. TypeOK'
  BY <1>1, NoOpTyped DEF Restart, IInv, TypeOK, arrayVars, nodeVars
<1>3. ConnectionsHaveOwner' /\ UpWhenBusy' /\ OwnConnectionsAreFound'
  BY DEF Restart, IInv, ConnectionsHaveOwner, UpWhenBusy, OwnConnectionsAreFound, At, NoOp, arrayVars
<1> QED BY <1>2, <1>3 DEF IInv

-----------------------------------------------------------------------------
(* The Pure plugin: it changes the host object only when nothing is        *)
(* connected to it.                                                        *)

LEMMA PureStep ==
  ASSUME IInv, PureSteps
  PROVE  IInv'
<1>1. UpWhenBusy'
  BY DEF PureSteps, PureAttaches, PureDetaches, PureLooks, PureLogsOut, PureDropsRecords,
         PureDeletesHost, IInv, UpWhenBusy, At, procVars
<1>2. CASE PureAttaches
  <2>1. TypeOK' BY <1>2 DEF PureAttaches, IInv, TypeOK, HostNames, procVars
  <2>2. ConnectionsHaveOwner' /\ OwnConnectionsAreFound'
    BY <1>2, AccessAssumption
    DEF PureAttaches, IInv, TypeOK, ConnectionsHaveOwner, OwnConnectionsAreFound, HostNames, procVars
  <2> QED BY <1>1, <2>1, <2>2 DEF IInv
<1>3. CASE PureDetaches
  <2>1. TypeOK' BY <1>3 DEF PureDetaches, IInv, TypeOK, nodeVars, procVars
  <2>2. ConnectionsHaveOwner' /\ OwnConnectionsAreFound'
    BY <1>3, QuietStep DEF PureDetaches, procVars
  <2> QED BY <1>1, <2>1, <2>2 DEF IInv
<1>4. CASE PureLooks
  <2>1. TypeOK'
    BY <1>4, TroubleTyped DEF PureLooks, IInv, TypeOK, arrayVars, nodeVars, procVars
  <2>2. ConnectionsHaveOwner' /\ OwnConnectionsAreFound'
    BY <1>4, QuietStep DEF PureLooks, arrayVars, procVars
  <2> QED BY <1>1, <2>1, <2>2 DEF IInv
<1>5. CASE PureLogsOut \/ PureDropsRecords
  <2>1. TypeOK'
    BY <1>5 DEF PureLogsOut, PureDropsRecords, IInv, TypeOK, arrayVars, procVars
  <2>2. ConnectionsHaveOwner' /\ OwnConnectionsAreFound'
    BY <1>5, QuietStep DEF PureLogsOut, PureDropsRecords, arrayVars, procVars
  <2> QED BY <1>1, <2>1, <2>2 DEF IInv
<1>6. CASE PureDeletesHost
  <2>1. TypeOK' BY <1>6 DEF PureDeletesHost, IInv, TypeOK, nodeVars, procVars
  <2>2. ConnectionsHaveOwner' /\ OwnConnectionsAreFound'
    BY <1>6 DEF PureDeletesHost, IInv, ConnectionsHaveOwner, OwnConnectionsAreFound, procVars
  <2> QED BY <1>1, <2>1, <2>2 DEF IInv
<1> QED BY <1>2, <1>3, <1>4, <1>5, <1>6 DEF PureSteps

-----------------------------------------------------------------------------
(* The steps of a Mount, one after the other. *)

\* Docker wants the volume; the operation begins, waits, gets and gives back locks.
LEMMA BeginStep ==
  ASSUME IInv, NEW v \in Volumes,
         Want(v) \/ Ask(v) \/ Ports(v) \/ LockMu(v) \/ LockExcl(v) \/ KeepEnds(v) \/ Unmount(v)
  PROVE  IInv'
<1>1. boot = "up" \/ Want(v)
  BY BusyIsUp DEF Ask, Ports, LockMu, LockExcl, KeepEnds, Unmount, At, IInv, UpWhenBusy
<1>2. UpWhenBusy'
  BY <1>1, UpStep DEF Want, Ask, Ports, LockMu, LockExcl, KeepEnds, Unmount, procVars, IInv, UpWhenBusy, At
<1>3. ConnectionsHaveOwner' /\ OwnConnectionsAreFound'
  <2>1. UNCHANGED <<owner, conns, host>>
    BY DEF Want, Ask, Ports, LockMu, LockExcl, KeepEnds, Unmount, arrayVars, procVars
  <2> QED BY <2>1, QuietStep
<1>4. op' \in [Volumes -> Operations]
  <2>1. op \in [Volumes -> Operations] BY DEF IInv, TypeOK
  <2>2. Want(v) => op' = op BY DEF Want
  <2>3. ~Want(v) => \E step \in Steps : Goto(v, step)
    BY DEF Ask, Ports, LockMu, LockExcl, KeepEnds, Unmount, Steps
  <2> QED BY <2>1, <2>2, <2>3, GotoTyped
<1>5. TypeOK'
  BY <1>4 DEF Want, Ask, Ports, LockMu, LockExcl, KeepEnds, Unmount, IInv, TypeOK,
     arrayVars, nodeVars, procVars
<1> QED BY <1>2, <1>3, <1>5 DEF IInv

\* The logins.
LEMMA LoginStep ==
  ASSUME IInv, NEW v \in Volumes, List(v) \/ Login(v) \/ Enter(v) \/ LoggedIn(v)
  PROVE  IInv'
<1>1. boot = "up"
  BY BusyIsUp DEF List, Login, Enter, LoggedIn, At
<1>2. UpWhenBusy'
  BY <1>1, UpStep DEF List, Login, Enter, LoggedIn, procVars
<1>3. ConnectionsHaveOwner' /\ OwnConnectionsAreFound'
  <2>1. UNCHANGED <<owner, conns, host>>
    BY DEF List, Login, Enter, LoggedIn, arrayVars, procVars
  <2> QED BY <2>1, QuietStep
<1>4. op \in [Volumes -> Operations] /\ live \subseteq Portals
  BY DEF IInv, TypeOK
<1>5. CASE List(v)
  <2>1. op' \in [Volumes -> Operations] BY <1>4, <1>5 DEF List, Operations, Steps
  <2>2. troubles' \in 0..MaxTroubles /\ calm' \subseteq Volumes
    BY <1>5, TroubleTyped DEF List, IInv
  <2>3. TypeOK'
    BY <1>5, <2>1, <2>2 DEF List, IInv, TypeOK, arrayVars, nodeVars, procVars
  <2> QED BY <1>2, <1>3, <2>3 DEF IInv
<1>6. CASE Login(v)
  <2>1. op' \in [Volumes -> Operations] /\ records' \subseteq Portals
    <3>1. PICK p \in op[v].todo :
            /\ records' \in {records, records \union {p}}
            /\ \/ op' = [op EXCEPT ![v].todo = @ \ {p}, ![v].up = TRUE]
               \/ op' = [op EXCEPT ![v].todo = @ \ {p}]
               \/ op' = [op EXCEPT ![v].pc = "enter", ![v].at = p, ![v].todo = @ \ {p}]
      BY <1>6 DEF Login
    <3>2. p \in Portals /\ op[v].todo \ {p} \in SUBSET Portals
      BY <1>4 DEF Operations
    <3>3. records' \subseteq Portals
      BY <3>1, <3>2 DEF IInv, TypeOK
    <3>4. op' \in [Volumes -> Operations]
      BY <1>4, <3>1, <3>2 DEF Operations, Steps
    <3> QED BY <3>3, <3>4
  <2>2. troubles' \in 0..MaxTroubles /\ calm' \subseteq Volumes
    BY <1>6, TroubleTyped DEF Login, IInv
  <2>3. TypeOK'
    BY <1>6, <2>1, <2>2 DEF Login, IInv, TypeOK, arrayVars, procVars
  <2> QED BY <1>2, <1>3, <2>3 DEF IInv
<1>7. CASE Enter(v)
  <2>1. op' \in [Volumes -> Operations] BY <1>4, <1>7 DEF Enter, Operations, Steps
  <2>2. troubles' \in 0..MaxTroubles /\ calm' \subseteq Volumes
    BY <1>7, TroubleTyped DEF Enter, IInv
  <2>3. live' \subseteq Portals
    BY <1>7 DEF Enter, IInv, TypeOK
  <2>4. TypeOK'
    BY <1>7, <2>1, <2>2, <2>3 DEF Enter, IInv, TypeOK, arrayVars, procVars
  <2> QED BY <1>2, <1>3, <2>4 DEF IInv
<1>8. CASE LoggedIn(v)
  <2>1. /\ op' \in [Volumes -> Operations]
        /\ mu' \in Volumes \union {None} /\ excl' \in Volumes \union {None}
    <3>1. [NoOp EXCEPT !.pc = "attach"] \in Operations
      BY NoOpTyped DEF Operations, Steps
    <3> QED BY <1>4, <1>8, <3>1, EndsTyped DEF LoggedIn, IInv, TypeOK
  <2>2. TypeOK'
    BY <1>8, <2>1 DEF LoggedIn, IInv, TypeOK, arrayVars, nodeVars, procVars
  <2> QED BY <1>2, <1>3, <2>2 DEF IInv
<1> QED BY <1>5, <1>6, <1>7, <1>8

\* Where an operation goes or ends when it asks the array.
LEMMA GoesOrEnds ==
  ASSUME IInv, NEW v \in Volumes,
         Luns(v) \/ FindHost(v) \/ MakeHost(v) \/ LunsAgain(v) \/ Connect(v) \/ After(v)
  PROVE  /\ op' \in [Volumes -> Operations]
         /\ mu' \in Volumes \union {None} /\ excl' \in Volumes \union {None}
<1>1. \/ Ends(v)
      \/ (\E step \in Steps : Goto(v, step)) /\ mu' = mu /\ excl' \in {excl, None}
  BY DEF Luns, FindHost, MakeHost, LunsAgain, Connect, After, Steps
<1> QED BY <1>1, EndsTyped, GotoTyped DEF IInv, TypeOK

\* The host object: looked for, made, connected to.
LEMMA HostStep ==
  ASSUME IInv, NEW v \in Volumes,
         Luns(v) \/ FindHost(v) \/ MakeHost(v) \/ LunsAgain(v) \/ Connect(v) \/ After(v)
  PROVE  IInv'
<1>1. boot = "up" /\ host \in HostNames /\ host # None
  BY BusyIsUp DEF Luns, FindHost, MakeHost, LunsAgain, Connect, After, At
<1>2. UpWhenBusy'
  BY <1>1, UpStep DEF Luns, FindHost, MakeHost, LunsAgain, Connect, After, procVars
<1>3. CASE Luns(v) \/ LunsAgain(v)
  <2>1. TypeOK'
    BY <1>3, GoesOrEnds DEF Luns, LunsAgain, IInv, TypeOK, arrayVars, nodeVars, procVars
  <2>2. ConnectionsHaveOwner' /\ OwnConnectionsAreFound'
    BY <1>3, QuietStep DEF Luns, LunsAgain, arrayVars, procVars
  <2> QED BY <1>2, <2>1, <2>2 DEF IInv
<1>4. CASE FindHost(v)
  <2>1. TypeOK'
    BY <1>1, <1>4, GoesOrEnds DEF FindHost, IInv, TypeOK, arrayVars, nodeVars
  <2>2. ConnectionsHaveOwner' /\ OwnConnectionsAreFound'
    BY <1>4 DEF FindHost, IInv, ConnectionsHaveOwner, OwnConnectionsAreFound, arrayVars
  <2> QED BY <1>2, <2>1, <2>2 DEF IInv
<1>5. CASE MakeHost(v)
  <2>1. TypeOK'
    BY <1>1, <1>5, GoesOrEnds DEF MakeHost, IInv, TypeOK, HostNames, nodeVars
  <2>2. ConnectionsHaveOwner' /\ OwnConnectionsAreFound'
    BY <1>5, AccessAssumption DEF MakeHost, IInv, ConnectionsHaveOwner, OwnConnectionsAreFound
  <2> QED BY <1>2, <2>1, <2>2 DEF IInv
<1>6. CASE Connect(v)
  <2>1. TypeOK'
    BY <1>6, GoesOrEnds DEF Connect, IInv, TypeOK, nodeVars, procVars
  <2>2. ConnectionsHaveOwner' /\ OwnConnectionsAreFound'
    BY <1>1, <1>6 DEF Connect, IInv, ConnectionsHaveOwner, OwnConnectionsAreFound, procVars
  <2> QED BY <1>2, <2>1, <2>2 DEF IInv
<1>7. CASE After(v)
  <2>1. troubles' \in 0..MaxTroubles /\ calm' \subseteq Volumes
    BY <1>7, TroubleTyped DEF After, IInv
  <2>2. TypeOK'
    BY <1>7, <2>1, GoesOrEnds DEF After, IInv, TypeOK, arrayVars, nodeVars, procVars
  <2>3. ConnectionsHaveOwner' /\ OwnConnectionsAreFound'
    BY <1>7, QuietStep DEF After, arrayVars, procVars
  <2> QED BY <1>2, <2>2, <2>3 DEF IInv
<1> QED BY <1>3, <1>4, <1>5, <1>6, <1>7

\* The device, the release, and what goes wrong.
LEMMA EndStep ==
  ASSUME IInv, NEW v \in Volumes,
         Mounted(v) \/ Late(v) \/ Undo(v) \/ CallFails(v) \/ GiveUp(v)
  PROVE  IInv'
<1>1. boot = "up" /\ host \in HostNames /\ host # None
  BY BusyIsUp DEF Mounted, Late, Undo, CallFails, GiveUp, At
<1>2. UpWhenBusy'
  BY <1>1, UpStep DEF Mounted, Late, Undo, CallFails, GiveUp, procVars
<1>3. /\ op' \in [Volumes -> Operations]
      /\ mu' \in Volumes \union {None} /\ excl' \in Volumes \union {None}
  <2>1. \/ Ends(v)
        \/ (End(v) \/ \E step \in Steps : Goto(v, step)) /\ UNCHANGED <<mu, excl>>
    BY DEF Mounted, Late, Undo, CallFails, GiveUp, Steps
  <2> QED BY <2>1, EndsTyped, EndTyped, GotoTyped DEF IInv, TypeOK
<1>4. CASE Mounted(v) \/ GiveUp(v) \/ Late(v)
  <2>1. troubles' \in 0..MaxTroubles /\ calm' \subseteq Volumes
    BY <1>4, TroubleTyped DEF Mounted, GiveUp, Late, NoTrouble, IInv
  <2>2. TypeOK'
    BY <1>3, <1>4, <2>1 DEF Mounted, GiveUp, Late, IInv, TypeOK, arrayVars, nodeVars, procVars
  <2>3. ConnectionsHaveOwner' /\ OwnConnectionsAreFound'
    BY <1>4, QuietStep DEF Mounted, GiveUp, Late, arrayVars, procVars
  <2> QED BY <1>2, <2>2, <2>3 DEF IInv
<1>5. CASE Undo(v)
  <2>1. TypeOK'
    BY <1>3, <1>5 DEF Undo, IInv, TypeOK, nodeVars, procVars
  <2>2. ConnectionsHaveOwner' /\ OwnConnectionsAreFound'
    BY <1>5, QuietStep DEF Undo, procVars
  <2> QED BY <1>2, <2>1, <2>2 DEF IInv
<1>6. CASE CallFails(v)
  <2>1. troubles' \in 0..MaxTroubles /\ calm' \subseteq Volumes
    BY <1>6, TroubleTyped DEF CallFails, IInv
  <2>2. TypeOK'
    BY <1>3, <1>6, <2>1 DEF CallFails, IInv, TypeOK, HostNames, arrayVars, nodeVars, procVars
  <2>3. ConnectionsHaveOwner' /\ OwnConnectionsAreFound'
    BY <1>1, <1>6, AccessAssumption
    DEF CallFails, IInv, ConnectionsHaveOwner, OwnConnectionsAreFound, arrayVars, procVars
  <2> QED BY <1>2, <2>2, <2>3 DEF IInv
<1> QED BY <1>4, <1>5, <1>6

LEMMA StutterStep ==
  ASSUME IInv, UNCHANGED vars
  PROVE  IInv'
  BY DEF vars, arrayVars, nodeVars, procVars, IInv, TypeOK, ConnectionsHaveOwner,
     UpWhenBusy, OwnConnectionsAreFound, At

LEMMA IInvKept ==
  ASSUME IInv, [Next]_vars
  PROVE  IInv'
  BY StartStep, RestartStep, PureStep, BeginStep, LoginStep, HostStep, EndStep, StutterStep
  DEF Next, Goes

-----------------------------------------------------------------------------
(***************************************************************************)
(* IInv is an invariant.  What is connected is connected to the host       *)
(* object the driver goes by is not inductive: the Pure plugin deletes the *)
(* host object, and the driver takes whatever it then finds for its own.   *)
(***************************************************************************)
THEOREM InvariantHolds == Spec => []IInv
<1>1. Init => IInv
  BY InitInv
<1>2. IInv /\ [Next]_vars => IInv'
  BY IInvKept
<1> QED BY <1>1, <1>2, PTL DEF Spec

(***************************************************************************)
(* The state stays within its types: in particular the driver always goes  *)
(* by some host object while it serves (d.host, driver.go:149).            *)
(***************************************************************************)
THEOREM TypeCorrect == Spec => []TypeOK
  BY InvariantHolds, PTL DEF IInv

(***************************************************************************)
(* Whatever the Pure plugin does, and whatever fails, this node's          *)
(* connections are those of the host object it goes by (connectSwept and   *)
(* reensureHost, driver.go:154-168 and 783-799).                           *)
(***************************************************************************)
THEOREM ConnectionsFound == Spec => []OwnConnectionsAreFound
  BY InvariantHolds, PTL DEF IInv

-----------------------------------------------------------------------------
(***************************************************************************)
(* What a Mount that nothing disturbs can count on at each of its steps.   *)
(***************************************************************************)
UnderExcl == {"luns", "find", "make", "again", "connect", "after", "undo", "go"}

IdleIsNoOp == \A v \in Volumes : At(v, "none") => op[v] = NoOp

\* Whoever is under the Exclusive lock holds it.
ExclIsHeld == \A v \in Volumes : op[v].pc \in UnderExcl => excl = v

\* The sessions it found or made are there, and so is the record it just made.
SessionsStay(v) ==
    /\ op[v].listed \subseteq live
    /\ At(v, "login") => op[v].up \/ op[v].todo = Portals
    /\ At(v, "enter") => op[v].at \in records
    /\ \/ op[v].up
       \/ op[v].pc \in {"attach", "luns", "find", "make", "again", "connect", "after", "device"}
       => live # {}

\* The host object is as it found it, and its connection is there.
HostStays(v) ==
    /\ At(v, "make") => owner = None
    /\ op[v].pc \in {"again", "connect"} => owner = host
    /\ op[v].pc \in {"after", "device"} => v \in conns

Counts(v) ==
    /\ pure \in {"off", "on"} /\ op[v].pc \notin {"back", "undo"}
    /\ SessionsStay(v) /\ HostStays(v)

CalmInv ==
    /\ IInv
    /\ IdleIsNoOp
    /\ ExclIsHeld
    /\ \A v \in calm : Counts(v)

VolumeStep(v) ==
    \/ Want(v) \/ Ask(v) \/ Goes(v) \/ LockMu(v) \/ LockExcl(v)
    \/ KeepEnds(v) \/ Unmount(v) \/ CallFails(v) \/ GiveUp(v)

\* What a step of one volume leaves to the others.
Considerate(v) ==
    /\ \A w \in Volumes \ {v} : op'[w] = op[w]
    /\ live \subseteq live' /\ records \subseteq records' /\ pure' = pure
    /\ UNCHANGED <<owner, host>> \/ op[v].pc \in UnderExcl
    /\ conns \ {v} \subseteq conns'
    /\ calm' \subseteq calm \union {v}

LEMMA GotoMoves ==
  ASSUME TypeOK, NEW v \in Volumes, NEW step \in Steps, Goto(v, step)
  PROVE  /\ op'[v].pc = step /\ op'[v].listed = op[v].listed /\ op'[v].todo = op[v].todo
         /\ op'[v].at = op[v].at /\ op'[v].up = op[v].up
         /\ \A w \in Volumes \ {v} : op'[w] = op[w]
  BY DEF Goto, TypeOK, Operations

LEMMA EndMoves ==
  ASSUME TypeOK, NEW v \in Volumes, End(v) \/ Ends(v)
  PROVE  op'[v] = NoOp /\ op'[v].pc = "none" /\ \A w \in Volumes \ {v} : op'[w] = op[w]
<1>1. op' = [op EXCEPT ![v] = NoOp] /\ op \in [Volumes -> Operations]
  BY DEF End, Ends, TypeOK
<1>2. NoOp.pc = "none"
  BY DEF NoOp
<1> QED BY <1>1, <1>2

LEMMA StepIsConsiderate ==
  ASSUME CalmInv, NEW v \in Volumes, VolumeStep(v)
  PROVE  Considerate(v)
<1>0. TypeOK
  BY DEF CalmInv, IInv
<1>1. \A w \in Volumes \ {v} : op'[w] = op[w]
  BY <1>0 DEF VolumeStep, Want, Ask, Goes, Ports, List, Login, Enter, LoggedIn, Luns, FindHost,
     MakeHost, LunsAgain, Connect, After, Mounted, Late, Undo, LockMu, LockExcl, KeepEnds, Unmount,
     CallFails, GiveUp, Goto, End, Ends, TypeOK
<1>2. live \subseteq live' /\ records \subseteq records' /\ pure' = pure
  BY DEF VolumeStep, Want, Ask, Goes, Ports, List, Login, Enter, LoggedIn, Luns, FindHost,
     MakeHost, LunsAgain, Connect, After, Mounted, Late, Undo, LockMu, LockExcl, KeepEnds, Unmount,
     CallFails, GiveUp, nodeVars
<1>3. UNCHANGED <<owner, host>> \/ op[v].pc \in UnderExcl
  BY DEF VolumeStep, Want, Ask, Goes, Ports, List, Login, Enter, LoggedIn, Luns, FindHost,
     MakeHost, LunsAgain, Connect, After, Mounted, Late, Undo, LockMu, LockExcl, KeepEnds, Unmount,
     CallFails, GiveUp, arrayVars, procVars, UnderExcl, At
<1>4. conns \ {v} \subseteq conns'
  BY DEF VolumeStep, Want, Ask, Goes, Ports, List, Login, Enter, LoggedIn, Luns, FindHost,
     MakeHost, LunsAgain, Connect, After, Mounted, Late, Undo, LockMu, LockExcl, KeepEnds, Unmount,
     CallFails, GiveUp, arrayVars
<1>5. calm' \subseteq calm \union {v}
  BY DEF VolumeStep, Want, Ask, Goes, Ports, List, Login, Enter, LoggedIn, Luns, FindHost,
     MakeHost, LunsAgain, Connect, After, Mounted, Late, Undo, LockMu, LockExcl, KeepEnds, Unmount,
     CallFails, GiveUp, Trouble, NoTrouble
<1> QED BY <1>1, <1>2, <1>3, <1>4, <1>5 DEF Considerate

\* Another volume's Mount can count on what it counted on.
LEMMA OthersCount ==
  ASSUME CalmInv, NEW v \in Volumes, Considerate(v), NEW w \in calm', w # v
  PROVE  Counts(w)'
<1>1. w \in calm /\ w \in Volumes /\ Counts(w) /\ op'[w] = op[w]
  BY DEF CalmInv, IInv, TypeOK, Considerate
<1>2. op[w].pc \in UnderExcl => UNCHANGED <<owner, host>>
  BY <1>1 DEF CalmInv, ExclIsHeld, Considerate
<1>3. SessionsStay(w)'
  BY <1>1 DEF Counts, SessionsStay, Considerate, At
<1>4. HostStays(w)'
  BY <1>1, <1>2 DEF Counts, HostStays, Considerate, At, UnderExcl
<1> QED BY <1>1, <1>3, <1>4 DEF Counts, Considerate

-----------------------------------------------------------------------------
(* The volume's own steps: how it goes on, and what it may count on then.  *)

\* An operation moves on, or ends and is forgotten; under the Exclusive lock it
\* has the lock, and only its holder gives it back.
Orderly(v) ==
    /\ op'[v].pc = "none" => op'[v] = NoOp
    /\ op'[v].pc \in UnderExcl => excl' = v
    /\ excl' = excl \/ excl \in {None, v}

LEMMA StepIsOrderly ==
  ASSUME CalmInv, NEW v \in Volumes, VolumeStep(v)
  PROVE  Orderly(v)
<1>0. /\ TypeOK /\ op \in [Volumes -> Operations]
      /\ op[v].pc = "none" => op[v] = NoOp
      /\ op[v].pc \in UnderExcl => excl = v
  BY DEF CalmInv, IInv, TypeOK, IdleIsNoOp, ExclIsHeld, At
<1>1. CASE Want(v)
  BY <1>0, <1>1 DEF Want, Orderly
<1>2. CASE \/ Ask(v) \/ Ports(v) \/ LockMu(v) \/ KeepEnds(v) \/ Unmount(v)
  <2>1. UNCHANGED excl /\ \E step \in {"ports", "mu", "list", "release"} : Goto(v, step)
    BY <1>2 DEF Ask, Ports, LockMu, KeepEnds, Unmount
  <2> QED BY <1>0, <2>1, GotoMoves DEF Orderly, UnderExcl, Steps
<1>3. CASE LockExcl(v)
  <2>1. excl = None /\ excl' = v /\ \E step \in {"luns", "undo", "go"} : Goto(v, step)
    BY <1>3 DEF LockExcl
  <2> QED BY <1>0, <2>1, GotoMoves DEF Orderly, UnderExcl, Steps
<1>4. CASE List(v) \/ Login(v) \/ Enter(v)
  <2>1. op[v] \in Operations
    BY <1>0
  <2>2. op'[v].pc \in {"login", "enter"} /\ UNCHANGED excl
    <3>1. CASE List(v)  BY <1>0, <2>1, <3>1 DEF List, Operations
    <3>2. CASE Login(v) BY <1>0, <2>1, <3>2 DEF Login, Operations, At
    <3>3. CASE Enter(v) BY <1>0, <2>1, <3>3 DEF Enter, Operations
    <3> QED BY <1>4, <3>1, <3>2, <3>3
  <2> QED BY <2>2 DEF Orderly, UnderExcl
<1>5. CASE LoggedIn(v)
  <2>1. \/ Ends(v)
        \/ UNCHANGED excl /\ op' = [op EXCEPT ![v] = [NoOp EXCEPT !.pc = "attach"]]
    BY <1>5 DEF LoggedIn
  <2>2. CASE Ends(v)
    BY <1>0, <2>2, EndMoves DEF Ends, Orderly, UnderExcl
  <2>3. CASE UNCHANGED excl /\ op' = [op EXCEPT ![v] = [NoOp EXCEPT !.pc = "attach"]]
    <3>1. op'[v].pc = "attach"
      BY <1>0, <2>3 DEF NoOp
    <3> QED BY <2>3, <3>1 DEF Orderly, UnderExcl
  <2> QED BY <2>1, <2>2, <2>3
<1>6. CASE \/ Luns(v) \/ FindHost(v) \/ MakeHost(v) \/ LunsAgain(v) \/ Connect(v) \/ After(v)
  <2>1. op[v].pc \in UnderExcl
    BY <1>6 DEF Luns, FindHost, MakeHost, LunsAgain, Connect, After, At, UnderExcl
  <2>2. \/ Ends(v)
        \/ UNCHANGED excl /\ \E step \in UnderExcl : Goto(v, step)
        \/ excl' = None /\ Goto(v, "device")
    BY <1>6 DEF Luns, FindHost, MakeHost, LunsAgain, Connect, After, UnderExcl
  <2>3. UnderExcl \subseteq Steps /\ "device" \in Steps /\ "device" \notin UnderExcl
        /\ "none" \notin UnderExcl
    BY DEF UnderExcl, Steps
  <2> QED BY <1>0, <2>1, <2>2, <2>3, GotoMoves, EndMoves DEF Orderly, Ends
<1>7. CASE Mounted(v) \/ Late(v) \/ GiveUp(v)
  <2>1. UNCHANGED excl /\ (End(v) \/ Goto(v, "back"))
    BY <1>7 DEF Mounted, Late, GiveUp
  <2> QED BY <1>0, <2>1, GotoMoves, EndMoves DEF Orderly, UnderExcl, Steps
<1>8. CASE Undo(v) \/ CallFails(v)
  <2>1. Ends(v)
    BY <1>8 DEF Undo, CallFails
  <2> QED BY <1>0, <2>1, EndMoves DEF Orderly, Ends, UnderExcl
<1> QED BY <1>1, <1>2, <1>3, <1>4, <1>5, <1>6, <1>7, <1>8 DEF VolumeStep, Goes

\* What an operation that is over, or that asks nothing yet, counts on.
LEMMA IdleCounts ==
  ASSUME NEW v \in Volumes, pure' \in {"off", "on"}, op'[v] = NoOp
  PROVE  Counts(v)'
<1>1. NoOp.pc = "none" /\ NoOp.listed = {} /\ NoOp.up = FALSE
  BY DEF NoOp
<1> QED BY <1>1 DEF Counts, SessionsStay, HostStays, At

\* A step that changes neither sessions nor records nor host object.
LEMMA GotoCounts ==
  ASSUME TypeOK, NEW v \in Volumes, Counts(v), UNCHANGED <<nodeVars, pure>>,
         NEW step \in Steps \ {"login", "enter", "back", "undo"}, Goto(v, step),
         step \in UnderExcl \union {"attach", "device"} => live # {} \/ step = "go",
         HostStays(v)'
  PROVE  Counts(v)'
<1>1. /\ op'[v].pc = step /\ op'[v].listed = op[v].listed /\ op'[v].up = op[v].up
      /\ UNCHANGED <<live, records, pure>>
  BY GotoMoves DEF nodeVars
<1> QED BY <1>1 DEF Counts, SessionsStay, At, UnderExcl

\* A Mount that goes on undisturbed counts on what it may, and does not end
\* without the volume.
GoesWell(v) ==
    /\ Counts(v)'
    /\ op[v].pc \notin {"none", "release", "go"} /\ op'[v].pc = "none" => use'[v] = "mounted"

LEMMA CalmBegins ==
  ASSUME CalmInv, NEW v \in Volumes, v \in calm',
         Want(v) \/ Ask(v) \/ Ports(v) \/ LockMu(v) \/ LockExcl(v) \/ KeepEnds(v) \/ Unmount(v)
  PROVE  GoesWell(v)
<1>0. TypeOK /\ (v \in calm => Counts(v)) /\ (op[v].pc = "none" => op[v] = NoOp)
  BY DEF CalmInv, IInv, IdleIsNoOp, At
<1>1. CASE Want(v)
  BY <1>0, <1>1 DEF Want, GoesWell, Counts, SessionsStay, HostStays, At, arrayVars, nodeVars,
     procVars
<1>2. CASE Ask(v)
  <2>1. op[v] = NoOp /\ pure' = pure /\ pure \in {"off", "on"}
    BY <1>0, <1>2 DEF Ask, At, Counts
  <2>2. NoOp.listed = {} /\ NoOp.up = FALSE
    BY DEF NoOp
  <2>3. op'[v].pc = "ports" /\ op'[v].listed = {} /\ op'[v].up = FALSE
    BY <1>0, <1>2, <2>1, <2>2, GotoMoves DEF Ask, Steps
  <2> QED BY <2>1, <2>3 DEF GoesWell, Counts, SessionsStay, HostStays, At
<1>3. CASE Ports(v) \/ LockMu(v) \/ KeepEnds(v) \/ Unmount(v)
  <2>1. /\ v \in calm /\ UNCHANGED <<nodeVars, pure>>
        /\ \E step \in {"mu", "list", "release"} : Goto(v, step)
    BY <1>3 DEF Ports, LockMu, KeepEnds, Unmount
  <2>2. PICK step \in {"mu", "list", "release"} : Goto(v, step)
    BY <2>1
  <2>3. op'[v].pc = step /\ step \in Steps
    BY <1>0, <2>2, GotoMoves DEF Steps
  <2>4. HostStays(v)'
    BY <2>3 DEF HostStays, At
  <2> QED BY <1>0, <2>1, <2>2, <2>3, <2>4, GotoCounts DEF GoesWell, UnderExcl
<1>4. CASE LockExcl(v)
  <2>1. v \in calm /\ UNCHANGED <<nodeVars, pure>> /\ op[v].pc # "back"
    BY <1>0, <1>4 DEF LockExcl, Counts
  <2>2. \/ Goto(v, "luns") /\ op[v].pc = "attach"
        \/ Goto(v, "go")
    BY <1>4, <2>1 DEF LockExcl, At
  <2>3. op[v].pc = "attach" => live # {}
    BY <1>0, <2>1 DEF Counts, SessionsStay
  <2>4. op'[v].pc \in {"luns", "go"}
    BY <1>0, <2>2, GotoMoves DEF Steps
  <2>5. HostStays(v)'
    BY <2>4 DEF HostStays, At
  <2>6. Counts(v)'
    BY <1>0, <2>1, <2>2, <2>3, <2>5, GotoCounts DEF UnderExcl, Steps
  <2> QED BY <2>4, <2>6 DEF GoesWell
<1> QED BY <1>1, <1>2, <1>3, <1>4

LEMMA CalmLogsIn ==
  ASSUME CalmInv, NEW v \in Volumes, v \in calm',
         List(v) \/ Login(v) \/ Enter(v) \/ LoggedIn(v)
  PROVE  GoesWell(v)
<1>0. /\ TypeOK /\ op \in [Volumes -> Operations] /\ op[v] \in Operations
      /\ ~Trouble /\ v \in calm /\ Counts(v) /\ UNCHANGED pure
  BY DEF CalmInv, IInv, TypeOK, List, Login, Enter, LoggedIn, Trouble, NoTrouble
<1>1. CASE List(v)
  <2>1. /\ op'[v].pc = "login" /\ op'[v].listed = live /\ op'[v].todo = Portals
        /\ op'[v].up = op[v].up
    BY <1>0, <1>1 DEF List, Operations
  <2>2. UNCHANGED live
    BY <1>1 DEF List, nodeVars
  <2> QED BY <1>0, <2>1, <2>2 DEF GoesWell, Counts, SessionsStay, HostStays, At
<1>2. CASE Login(v)
  <2>1. UNCHANGED live /\ records \subseteq records'
    BY <1>2 DEF Login
  <2>2. /\ op'[v].listed = op[v].listed
        /\ \/ op'[v].pc = "login" /\ op'[v].up = TRUE /\ live # {}
           \/ op'[v].pc = "enter" /\ op'[v].up = op[v].up /\ op'[v].at \in records'
    <3>1. PICK p \in op[v].todo :
             \/ p \in op[v].listed /\ op' = [op EXCEPT ![v].todo = @ \ {p}, ![v].up = TRUE]
             \/ /\ records' = records \union {p}
                /\ op' = [op EXCEPT ![v].pc = "enter", ![v].at = p, ![v].todo = @ \ {p}]
      BY <1>0, <1>2 DEF Login
    <3>2. op[v].pc = "login" /\ op[v].listed \subseteq live
      BY <1>0, <1>2 DEF Login, At, Counts, SessionsStay
    <3>3. CASE p \in op[v].listed /\ op' = [op EXCEPT ![v].todo = @ \ {p}, ![v].up = TRUE]
      BY <1>0, <3>2, <3>3 DEF Operations
    <3>4. CASE /\ records' = records \union {p}
               /\ op' = [op EXCEPT ![v].pc = "enter", ![v].at = p, ![v].todo = @ \ {p}]
      BY <1>0, <3>4 DEF Operations
    <3> QED BY <3>1, <3>3, <3>4
  <2> QED BY <1>0, <2>1, <2>2 DEF GoesWell, Counts, SessionsStay, HostStays, At
<1>3. CASE Enter(v)
  <2>1. op[v].at \in records
    BY <1>0, <1>3 DEF Enter, Counts, SessionsStay
  <2>2. /\ live' = live \union {op[v].at} /\ UNCHANGED records
        /\ op' = [op EXCEPT ![v].pc = "login", ![v].at = None, ![v].up = TRUE]
    BY <1>0, <1>3, <2>1 DEF Enter
  <2>3. op'[v].pc = "login" /\ op'[v].listed = op[v].listed /\ op'[v].up = TRUE
    BY <1>0, <2>2 DEF Operations
  <2> QED BY <1>0, <2>2, <2>3 DEF GoesWell, Counts, SessionsStay, HostStays, At
<1>4. CASE LoggedIn(v)
  <2>1. op[v].up
    BY <1>0, <1>4, AccessAssumption DEF LoggedIn, Counts, SessionsStay
  <2>2. UNCHANGED nodeVars /\ live # {}
    BY <1>0, <1>4, <2>1 DEF LoggedIn, Counts, SessionsStay
  <2>3. op'[v] = [NoOp EXCEPT !.pc = "attach"]
    BY <1>0, <1>4, <2>1 DEF LoggedIn
  <2>4. op'[v].pc = "attach" /\ op'[v].listed = {} /\ op'[v].up = FALSE
    BY <2>3 DEF NoOp
  <2> QED BY <1>0, <2>2, <2>4 DEF GoesWell, Counts, SessionsStay, HostStays, At, nodeVars
<1> QED BY <1>1, <1>2, <1>3, <1>4

LEMMA CalmAsks ==
  ASSUME CalmInv, NEW v \in Volumes, v \in calm',
         Luns(v) \/ FindHost(v) \/ MakeHost(v) \/ LunsAgain(v) \/ Connect(v) \/ After(v)
  PROVE  GoesWell(v)
<1>0. TypeOK /\ ~Trouble /\ v \in calm /\ Counts(v) /\ UNCHANGED <<nodeVars, pure>>
  BY DEF CalmInv, IInv, Luns, FindHost, MakeHost, LunsAgain, Connect, After, Trouble, NoTrouble
<1>1. live # {}
  BY <1>0 DEF Counts, SessionsStay, Luns, FindHost, MakeHost, LunsAgain, Connect, After, At
<1>2. \E step \in {"find", "make", "again", "connect", "after", "device"} :
         /\ Goto(v, step)
         /\ step = "make" => owner' = None
         /\ step \in {"again", "connect"} => owner' = host'
         /\ step \in {"after", "device"} => v \in conns'
  <2>1. CASE Luns(v)
    BY <2>1 DEF Luns, arrayVars, procVars
  <2>2. CASE FindHost(v)
    BY <2>2 DEF FindHost, arrayVars
  <2>3. CASE MakeHost(v)
    BY <1>0, <2>3 DEF MakeHost, Counts, HostStays
  <2>4. CASE LunsAgain(v)
    BY <1>0, <2>4 DEF LunsAgain, Counts, HostStays, At, arrayVars, procVars
  <2>5. CASE Connect(v)
    BY <1>0, <2>5 DEF Connect, Counts, HostStays, At
  <2>6. CASE After(v)
    BY <1>0, <2>6 DEF After, Counts, HostStays, At, arrayVars
  <2> QED BY <2>1, <2>2, <2>3, <2>4, <2>5, <2>6
<1>3. PICK step \in {"find", "make", "again", "connect", "after", "device"} :
         /\ Goto(v, step)
         /\ step = "make" => owner' = None
         /\ step \in {"again", "connect"} => owner' = host'
         /\ step \in {"after", "device"} => v \in conns'
  BY <1>2
<1>4. op'[v].pc = step /\ step \in Steps
  BY <1>0, <1>3, GotoMoves DEF Steps
<1>5. HostStays(v)'
  BY <1>3, <1>4 DEF HostStays, At
<1>6. Counts(v)'
  BY <1>0, <1>1, <1>3, <1>4, <1>5, GotoCounts
<1> QED BY <1>4, <1>6 DEF GoesWell

LEMMA CalmComesToAnEnd ==
  ASSUME CalmInv, NEW v \in Volumes, v \in calm',
         Mounted(v) \/ Late(v) \/ Undo(v) \/ CallFails(v) \/ GiveUp(v)
  PROVE  GoesWell(v)
<1>0. TypeOK /\ ~Trouble /\ v \in calm /\ Counts(v) /\ pure' \in {"off", "on"}
  BY DEF CalmInv, IInv, Mounted, Late, Undo, CallFails, GiveUp, Trouble, NoTrouble, Counts
<1>1. ~CallFails(v) /\ ~GiveUp(v)
  BY <1>0 DEF CallFails, GiveUp
<1>2. ~Late(v)
  BY <1>0 DEF Late, Counts, SessionsStay, HostStays, At
<1>3. CASE Mounted(v)
  <2>1. op'[v] = NoOp /\ use'[v] = "mounted"
    BY <1>0, <1>3, EndMoves DEF Mounted, TypeOK
  <2> QED BY <1>0, <2>1, IdleCounts DEF GoesWell
<1>4. CASE Undo(v)
  <2>1. op'[v] = NoOp /\ op[v].pc = "go"
    BY <1>0, <1>4, EndMoves DEF Undo, Counts
  <2> QED BY <1>0, <2>1, IdleCounts DEF GoesWell
<1> QED BY <1>1, <1>2, <1>3, <1>4

LEMMA CalmStep ==
  ASSUME CalmInv, NEW v \in Volumes, VolumeStep(v), v \in calm'
  PROVE  GoesWell(v)
  BY CalmBegins, CalmLogsIn, CalmAsks, CalmComesToAnEnd DEF VolumeStep, Goes

-----------------------------------------------------------------------------
LEMMA CalmInit == Init => CalmInv
  BY InitInv DEF Init, CalmInv, IdleIsNoOp, ExclIsHeld, NoOp, UnderExcl

\* A step of the Pure plugin, and the process' end, disturb every Mount; when
\* the process starts there is none.
LEMMA OutsideStep ==
  ASSUME CalmInv, FindAtStart \/ MakeAtStart \/ Restart \/ PureSteps \/ UNCHANGED vars
  PROVE  /\ CalmInv'
         /\ \A v \in Volumes : v \in calm' => op'[v] = op[v]
<1>1. IInv'
  BY IInvKept DEF CalmInv, Next
<1>2. CASE FindAtStart \/ MakeAtStart
  <2>1. /\ UNCHANGED <<op, excl, calm, pure>> /\ live \subseteq live' /\ records \subseteq records'
        /\ conns' = conns
    BY <1>2 DEF FindAtStart, MakeAtStart, LogsInAtStart, arrayVars, nodeVars
  <2>2. \A v \in Volumes : op[v].pc = "none"
    BY <1>2 DEF CalmInv, IInv, UpWhenBusy, FindAtStart, MakeAtStart, At
  <2>3. \A v \in calm' : v \in Volumes /\ v \in calm
    BY <2>1 DEF CalmInv, IInv, TypeOK
  <2>4. \A v \in calm' : Counts(v)'
    BY <2>1, <2>2, <2>3 DEF CalmInv, Counts, SessionsStay, HostStays, At
  <2> QED BY <1>1, <2>1, <2>4 DEF CalmInv, IdleIsNoOp, ExclIsHeld, At
<1>3. CASE Restart
  <2>1. calm' = {} /\ op' = [v \in Volumes |-> NoOp] /\ NoOp.pc = "none"
    BY <1>3 DEF Restart, Trouble, NoOp
  <2> QED BY <1>1, <2>1 DEF CalmInv, IdleIsNoOp, ExclIsHeld, At, UnderExcl
<1>4. CASE PureSteps
  <2>1. calm' = {} /\ UNCHANGED <<op, excl>>
    BY <1>4 DEF PureSteps, PureAttaches, PureDetaches, PureLooks, PureLogsOut, PureDropsRecords,
       PureDeletesHost, Trouble
  <2> QED BY <1>1, <2>1 DEF CalmInv, IdleIsNoOp, ExclIsHeld, At
<1>5. CASE UNCHANGED vars
  BY <1>1, <1>5 DEF CalmInv, IdleIsNoOp, ExclIsHeld, Counts, SessionsStay, HostStays, At, vars,
     arrayVars, nodeVars, procVars
<1> QED BY <1>2, <1>3, <1>4, <1>5

LEMMA CalmVolumeStep ==
  ASSUME CalmInv, NEW v \in Volumes, VolumeStep(v)
  PROVE  CalmInv'
<1>1. IInv'
  BY IInvKept DEF CalmInv, Next, VolumeStep
<1>2. Considerate(v) /\ Orderly(v)
  BY StepIsConsiderate, StepIsOrderly
<1>3. IdleIsNoOp'
  BY <1>2 DEF CalmInv, IdleIsNoOp, Considerate, Orderly, At
<1>4. ExclIsHeld'
  <2>1. SUFFICES ASSUME NEW w \in Volumes, w # v, op'[w].pc \in UnderExcl
                 PROVE  excl' = w
    BY <1>2 DEF ExclIsHeld, Orderly
  <2>2. excl = w /\ w # None
    BY <1>2, <2>1, AccessAssumption DEF CalmInv, ExclIsHeld, Considerate
  <2> QED BY <1>2, <2>1, <2>2 DEF Orderly
<1>5. \A w \in calm' : Counts(w)'
  BY <1>2, CalmStep, OthersCount DEF GoesWell
<1> QED BY <1>1, <1>3, <1>4, <1>5 DEF CalmInv

(***************************************************************************)
(* A Mount that neither the Pure plugin nor a fault disturbs succeeds,     *)
(* whatever other Mounts do meanwhile and whatever a teardown left behind  *)
(* (ensureConnected and connectSwept, driver.go:783-799, README.md:457).   *)
(* At each step it can count on the sessions and records it has found or   *)
(* made, and under the Exclusive lock on the host object.                  *)
(***************************************************************************)
THEOREM UndisturbedSucceeds == Spec => UndisturbedMountSucceeds
<1> DEFINE Succeeds ==
      \A v \in Volumes :
          op[v].pc \notin {"none", "release", "go"} /\ op'[v].pc = "none" /\ v \in calm \intersect calm'
              => use'[v] = "mounted"
<1>1. Init => CalmInv
  BY CalmInit
<1>2. CalmInv /\ [Next]_vars => CalmInv' /\ Succeeds
  <2>1. SUFFICES ASSUME CalmInv, [Next]_vars PROVE CalmInv' /\ Succeeds
    OBVIOUS
  <2>2. \/ FindAtStart \/ MakeAtStart \/ Restart \/ PureSteps \/ UNCHANGED vars
        \/ \E v \in Volumes : VolumeStep(v)
    BY <2>1 DEF Next, VolumeStep
  <2>3. CASE FindAtStart \/ MakeAtStart \/ Restart \/ PureSteps \/ UNCHANGED vars
    BY <2>1, <2>3, OutsideStep
  <2>4. ASSUME NEW v \in Volumes, VolumeStep(v)
        PROVE  CalmInv' /\ Succeeds
    <3>1. CalmInv' /\ Considerate(v)
      BY <2>1, <2>4, CalmVolumeStep, StepIsConsiderate
    <3>2. v \in calm' => GoesWell(v)
      BY <2>1, <2>4, CalmStep
    <3> QED BY <3>1, <3>2 DEF Considerate, GoesWell
  <2> QED BY <2>2, <2>3, <2>4
<1>3. CalmInv /\ [Next]_vars => [Succeeds]_vars
  BY <1>2
<1> QED BY <1>1, <1>2, <1>3, PTL DEF Spec, UndisturbedMountSucceeds
=============================================================================
