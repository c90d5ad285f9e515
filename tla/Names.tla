------------------------------- MODULE Names -------------------------------
(***************************************************************************)
(* How a Docker name leads to a volume of the array: the dvfa:name tags on *)
(* the array, each host's cache of them (d.names), its memory of the names *)
(* it has seen (d.known) and the file that outlives the process, and the   *)
(* requests that read and change them: Create, Create with import, Remove, *)
(* Get, List and the part of Mount that finds the volume.                  *)
(*                                                                         *)
(* A request is cut at every call to the array and at every wait for a     *)
(* lock; between two of its steps any other request, of this host or of    *)
(* another, can move.  One array, one tag namespace.                       *)
(***************************************************************************)
EXTENDS Naturals, FiniteSets

CONSTANTS
    Hosts, Reqs,
    HostOf,      \* the host that serves each request slot
    Kinds,       \* what each request slot may be asked
    DockerNames, \* the names Docker uses
    arrayName,   \* the array name computed for each of them
    Spares,      \* the names freshArrayName can come up with for each of them
    Imports,     \* array volumes that were there before, without a tag
    EradicateOnRemove, \* each host's setting
    Faults,      \* what can go wrong: a subset of FaultKinds
    None

ArrayNames ==
    {arrayName[n] : n \in DockerNames} \union (UNION {Spares[n] : n \in DockerNames}) \union Imports

\* A call the array does not carry out, the setting of a tag apart; that one; a
\* call it carries out although the caller is told it failed; a rename of that
\* sort; a request that waited too long for a lock; a host that stops and starts
\* again; a volume destroyed by other means.
FaultKinds == {"error", "tag", "lost", "lostRename", "giveup", "restart", "outside"}

ASSUME NamesAssumption ==
    /\ HostOf \in [Reqs -> Hosts]
    /\ Kinds \in [Reqs -> SUBSET {"create", "import", "remove", "get", "list", "mount"}]
    /\ arrayName \in [DockerNames -> ArrayNames]
    /\ \A m, n \in DockerNames : arrayName[m] = arrayName[n] => m = n
    /\ None \notin ArrayNames \union DockerNames \union Reqs
    /\ EradicateOnRemove \in [Hosts -> BOOLEAN]
    /\ Faults \subseteq FaultKinds

VARIABLES
    vol,    \* the array: the state of the volume under each name, and its tag
    names,  \* d.names of each host
    known,  \* d.known of each host
    file,   \* its known-volumes file
    tmp,    \* the file being written in its place
    saver,  \* who holds its saveMu
    slot,   \* is the channel of each of its per-volume locks full
    op,     \* each request, and how far it got
    seen,   \* history: the names that had, and that lacked, a live volume
            \* at some moment of the request
    misled, \* history: the requests that were told something untrue
    muddled \* history: the names nothing is promised of any more

hostVars == <<names, known, file, tmp, saver>>
history == <<seen, misled, muddled>>
vars == <<vol, hostVars, slot, op, history>>

NoVolume == [state |-> "none", tag |-> None]
NoNames == [n \in DockerNames |-> None]

Present(a) == vol[a].state \in {"live", "destroyed"}
Live(a) == vol[a].state = "live"
Tagged(n) == {a \in ArrayNames : Present(a) /\ vol[a].tag = n}
LiveTagged(n) == {a \in Tagged(n) : Live(a)}

\* A name never used before, as freshArrayName's carry the time.
Unused(s) == vol[s].state = "none"

h(r) == HostOf[r]
At(r, step) == op[r].pc = step
Changes == {"create", "import", "remove"}

(***************************************************************************)
(* A request, between its calls.                                            *)
(***************************************************************************)

Steps == {"done", "resolve", "tags", "destroyed", "answer", "lock", "relock", "fetch", "stale", "fresh",
          "create", "tag", "remember", "park", "rename", "destroy", "eradicate", "forget",
          "replace", "known", "save", "write"}

\* an: the array name it works on.  how: where that came from: the array
\* ("fresh"), the cache, or a second look after that was stale.
\* ask: one name's tag or all.  pairs: the tags the array answered with.
\* held: the lock its unlock gives back.  spare: where a removed volume is to
\* be moved.  put: what the known names become.  next: where it goes on after
\* they are saved.  result: what Docker was told.
Requests ==
    [kind : {"none", "create", "import", "remove", "get", "list", "mount"},
     name : DockerNames \union {None}, pc : Steps, an : ArrayNames \union {None},
     how : {"fresh", "cached", "again"}, ask : {"one", "all"},
     pairs : SUBSET (ArrayNames \X DockerNames),
     held : ArrayNames \union {None}, spare : ArrayNames \union {None},
     put : [DockerNames -> ArrayNames \union {None}],
     next : {"done", "lock", "fetch"}, result : {"ok", "missing", "known", "error"}]

NoRequest ==
    [kind |-> "none", name |-> None, pc |-> "done", an |-> None, how |-> "fresh",
     ask |-> "one", pairs |-> {}, held |-> None, spare |-> None, put |-> NoNames,
     next |-> "done", result |-> "error"]

TypeOK ==
    /\ vol \in [ArrayNames -> [state : {"none", "live", "destroyed", "eradicated"},
                               tag : DockerNames \union {None}]]
    /\ names \in [Hosts -> [DockerNames -> ArrayNames \union {None}]]
    /\ known \in [Hosts -> [DockerNames -> ArrayNames \union {None}]]
    /\ file \in [Hosts -> [DockerNames -> ArrayNames \union {None}]]
    /\ tmp \in [Hosts -> [DockerNames -> ArrayNames \union {None}]]
    /\ saver \in [Hosts -> Reqs \union {None}]
    /\ slot \in [Hosts -> [ArrayNames -> BOOLEAN]]
    /\ op \in [Reqs -> Requests]
    /\ seen \in [Reqs -> [there : SUBSET DockerNames, absent : SUBSET DockerNames]]
    /\ misled \subseteq Reqs /\ muddled \subseteq DockerNames

Init ==
    /\ vol = [a \in ArrayNames |->
                IF a \in Imports THEN [state |-> "live", tag |-> None] ELSE NoVolume]
    /\ names = [x \in Hosts |-> NoNames]
    /\ known = [x \in Hosts |-> NoNames]
    /\ file = [x \in Hosts |-> NoNames]
    /\ tmp = [x \in Hosts |-> NoNames]
    /\ saver = [x \in Hosts |-> None]
    /\ slot = [x \in Hosts |-> [a \in ArrayNames |-> FALSE]]
    /\ op = [r \in Reqs |-> NoRequest]
    /\ seen = [r \in Reqs |-> [there |-> {}, absent |-> {}]]
    /\ misled = {} /\ muddled = {}

\* unlock() gives the lock back if lockCtx got it, and nothing otherwise.
Unlocked(r) == IF op[r].held = None THEN slot ELSE [slot EXCEPT ![h(r)][op[r].held] = FALSE]

\* The answer to Docker; the deferred unlock runs.
End(r, result) ==
    /\ op' = [op EXCEPT ![r] = [NoRequest EXCEPT !.result = result]]
    /\ slot' = Unlocked(r)

Goto(r, step) ==
    /\ op' = [op EXCEPT ![r].pc = step]
    /\ UNCHANGED slot

\* setKnown follows with the array name a of this request's name, or None.
KnownNext(r, a, next) ==
    op' = [op EXCEPT ![r].pc = "known", ![r].put = [NoNames EXCEPT ![op[r].name] = a],
                     ![r].an = IF a = None THEN @ ELSE a, ![r].pairs = {}, ![r].next = next]

\* A request as it comes in.
Asked(k, n, a) ==
    [NoRequest EXCEPT
        !.kind = k, !.name = n, !.an = a,
        !.pc = CASE k = "list" -> "tags" [] k = "import" -> "lock" [] OTHER -> "resolve",
        !.ask = IF k = "list" THEN "all" ELSE "one"]

Begin(r) ==
    /\ At(r, "done")
    /\ \E k \in Kinds[r], n \in DockerNames, a \in Imports \union {None} :
        /\ (k = "import") = (a # None)
        /\ op' = [op EXCEPT ![r] = Asked(k, n, a)]
    /\ UNCHANGED <<vol, hostVars, slot>>

(***************************************************************************)
(* resolve, lock, GetVolume.                                                *)
(***************************************************************************)

\* Get does without the lock.
Resolved(r) == IF op[r].kind = "get" THEN "fetch" ELSE "lock"

\* Mutant: a name from the cache is taken for one just looked up.
ResolveCachedTrusted(r) ==
    /\ At(r, "resolve") /\ names[h(r)][op[r].name] # None
    /\ op' = [op EXCEPT ![r].an = names[h(r)][op[r].name], ![r].pc = Resolved(r)]
    /\ UNCHANGED <<vol, hostVars, slot>>

ResolveCached(r) ==
    /\ At(r, "resolve") /\ names[h(r)][op[r].name] # None
    /\ op' = [op EXCEPT ![r].an = names[h(r)][op[r].name], ![r].pc = Resolved(r),
                        ![r].how = IF @ = "fresh" THEN "cached" ELSE @]
    /\ UNCHANGED <<vol, hostVars, slot>>

ResolveMiss(r) ==
    /\ At(r, "resolve") /\ names[h(r)][op[r].name] = None
    /\ Goto(r, "tags")
    /\ UNCHANGED <<vol, hostVars>>

\* nameTags asks for the tags, and if there are any for the destroyed volumes.
ReadTags(r) ==
    /\ At(r, "tags")
    /\ LET asked == IF op[r].ask = "all" THEN DockerNames ELSE {op[r].name}
           pairs == {p \in ArrayNames \X asked : p[1] \in Tagged(p[2])}
       IN op' = [op EXCEPT ![r].pairs = pairs,
                           ![r].pc = IF pairs = {} THEN "answer" ELSE "destroyed"]
    /\ UNCHANGED <<vol, hostVars, slot>>

\* Mutant: only one name's lookup leaves destroyed volumes out.
ReadDestroyedOfOne(r) ==
    /\ At(r, "destroyed")
    /\ op' = [op EXCEPT ![r].pairs = {p \in @ : vol[p[1]].state # "destroyed" \/ op[r].ask = "all"},
                        ![r].pc = "answer"]
    /\ UNCHANGED <<vol, hostVars, slot>>

ReadDestroyed(r) ==
    /\ At(r, "destroyed")
    /\ op' = [op EXCEPT ![r].pairs = {p \in @ : vol[p[1]].state # "destroyed"},
                        ![r].pc = "answer"]
    /\ UNCHANGED <<vol, hostVars, slot>>

\* What a call that fails makes of a request: Get and List answer from what is
\* known.
OutageAnswer(r) ==
    IF \/ op[r].kind = "get" /\ known[h(r)][op[r].name] # None
       \/ op[r].kind = "list" /\ known[h(r)] # NoNames
    THEN "known" ELSE "error"

\* resolve's use of the answer: the volume with the tag is remembered, no tag
\* leads to the computed name, and more than one volume to an error.
Looked(r) ==
    /\ At(r, "answer") /\ op[r].kind \notin {"list", "import"}
    /\ \/ /\ op[r].pairs = {}
          /\ op' = [op EXCEPT ![r].an = arrayName[op[r].name], ![r].pc = Resolved(r)]
          /\ UNCHANGED <<names, slot>>
       \/ \E p \in op[r].pairs :
          /\ op[r].pairs = {p}
          /\ names' = [names EXCEPT ![h(r)][op[r].name] = p[1]]
          /\ KnownNext(r, p[1], Resolved(r))
          /\ UNCHANGED slot
       \/ /\ Cardinality(op[r].pairs) > 1
          /\ End(r, OutageAnswer(r))
          /\ UNCHANGED names
    /\ UNCHANGED <<vol, known, file, tmp, saver>>

\* lockCtx: the send into the lock's channel succeeds when it is empty.
Lock(r) ==
    /\ op[r].pc \in {"lock", "relock"} /\ ~slot[h(r)][op[r].an]
    /\ slot' = [slot EXCEPT ![h(r)][op[r].an] = TRUE]
    /\ op' = [op EXCEPT ![r].held = op[r].an,
                        ![r].pc = IF @ = "lock" THEN "fetch" ELSE "create"]
    /\ UNCHANGED <<vol, hostVars>>

\* Its time is over first.
GiveUp(r) ==
    /\ op[r].pc \in {"lock", "relock"} /\ "giveup" \in Faults
    /\ End(r, "error")
    /\ UNCHANGED <<vol, hostVars>>

\* A cached name that is gone or destroyed: its lock is given back ...
FetchStale(r) ==
    /\ At(r, "fetch") /\ op[r].how = "cached" /\ ~Live(op[r].an)
    /\ slot' = Unlocked(r)
    /\ op' = [op EXCEPT ![r].pc = "stale", ![r].held = None, ![r].an = None]
    /\ UNCHANGED <<vol, hostVars>>

\* ... and it is dropped, and looked up again.
ForgetStale(r) ==
    /\ At(r, "stale")
    /\ names' = [names EXCEPT ![h(r)][op[r].name] = None]
    /\ op' = [op EXCEPT ![r].pc = "resolve", ![r].how = "again"]
    /\ UNCHANGED <<vol, known, file, tmp, saver, slot>>

\* Where the name came from no longer matters.
Onward(r, step) ==
    /\ op' = [op EXCEPT ![r].pc = step, ![r].how = "fresh"]
    /\ UNCHANGED slot

Fetched(r, k) == At(r, "fetch") /\ op[r].kind = k /\ ~(op[r].how = "cached" /\ ~Live(op[r].an))

FetchForGet(r) ==
    /\ Fetched(r, "get")
    /\ \/ Present(op[r].an) /\ KnownNext(r, op[r].an, "done") /\ UNCHANGED slot
       \/ ~Present(op[r].an) /\ End(r, "missing")
    /\ UNCHANGED <<vol, hostVars>>

\* An entry in d.mounts is served whatever the lookup said.  Whether there is
\* one, and what Mount does without, is VolumeLifecycle: it is left open here.
FetchForMount(r) ==
    /\ Fetched(r, "mount")
    /\ \/ End(r, "ok")
       \/ Present(op[r].an) /\ End(r, "error")
       \/ ~Present(op[r].an) /\ End(r, "missing")
    /\ UNCHANGED <<vol, hostVars>>

(***************************************************************************)
(* Create, and Create with import.                                          *)
(***************************************************************************)

\* Mutant: a destroyed volume counts as one that exists.
FetchForCreateAnyState(r) ==
    /\ Fetched(r, "create")
    /\ \/ Present(op[r].an) /\ End(r, "ok")
       \/ Present(op[r].an) /\ ~Live(op[r].an) /\ Onward(r, "fresh")
       \/ ~Present(op[r].an) /\ Onward(r, "create")
    /\ UNCHANGED <<vol, hostVars>>

\* A live volume is taken as it is; a destroyed one is left where it is.
FetchForCreate(r) ==
    /\ Fetched(r, "create")
    /\ \/ Live(op[r].an) /\ End(r, "ok")
       \/ Present(op[r].an) /\ ~Live(op[r].an) /\ Onward(r, "fresh")
       \/ ~Present(op[r].an) /\ Onward(r, "create")
    /\ UNCHANGED <<vol, hostVars>>

\* Mutant: the lock of the old name is forgotten in the swap.
FreshNameKeepsLock(r) ==
    /\ At(r, "fresh")
    /\ \/ \E s \in Spares[op[r].name] :
          /\ Unused(s)
          /\ op' = [op EXCEPT ![r].an = s, ![r].held = None, ![r].pc = "relock"]
          /\ UNCHANGED slot
       \/ (\A s \in Spares[op[r].name] : ~Unused(s)) /\ End(r, "error")
    /\ UNCHANGED <<vol, hostVars>>

\* freshArrayName; the lock of the old name is given back before the new
\* one's is taken.
FreshName(r) ==
    /\ At(r, "fresh")
    /\ \/ \E s \in Spares[op[r].name] :
          /\ Unused(s)
          /\ op' = [op EXCEPT ![r].an = s, ![r].held = None, ![r].pc = "relock"]
          /\ slot' = Unlocked(r)
       \/ (\A s \in Spares[op[r].name] : ~Unused(s)) /\ End(r, "error")
    /\ UNCHANGED <<vol, hostVars>>

\* The array refuses a name that is taken.
CreateVolume(r) ==
    /\ At(r, "create")
    /\ \/ /\ ~Present(op[r].an)
          /\ vol' = [vol EXCEPT ![op[r].an] = [state |-> "live", tag |-> None]]
          /\ \/ Goto(r, "tag")
             \/ "lost" \in Faults /\ End(r, "error")
       \/ Present(op[r].an) /\ End(r, "error") /\ UNCHANGED vol
    /\ UNCHANGED hostVars

\* importVolume's Adopt: the volume is live, the name leads to none or to it,
\* and it has no tag or this one.
FetchForImport(r) ==
    /\ Fetched(r, "import")
    /\ IF Live(op[r].an) THEN Goto(r, "tags") ELSE End(r, "error")
    /\ UNCHANGED <<vol, hostVars>>

\* Mutant: a name that leads elsewhere can be imported again.
AdoptLookedAnyway(r) ==
    /\ At(r, "answer") /\ op[r].kind = "import" /\ op[r].ask = "one"
    /\ IF TRUE
       THEN /\ op' = [op EXCEPT ![r].ask = "all", ![r].pairs = {}, ![r].pc = "tags"]
            /\ UNCHANGED slot
       ELSE End(r, "error")
    /\ UNCHANGED <<vol, hostVars>>

AdoptLooked(r) ==
    /\ At(r, "answer") /\ op[r].kind = "import" /\ op[r].ask = "one"
    /\ IF {p[1] : p \in op[r].pairs} \subseteq {op[r].an}
       THEN /\ op' = [op EXCEPT ![r].ask = "all", ![r].pairs = {}, ![r].pc = "tags"]
            /\ UNCHANGED slot
       ELSE End(r, "error")
    /\ UNCHANGED <<vol, hostVars>>

AdoptListed(r) ==
    /\ At(r, "answer") /\ op[r].kind = "import" /\ op[r].ask = "all"
    /\ LET tags == {p[2] : p \in {q \in op[r].pairs : q[1] = op[r].an}}
       IN \/ /\ tags \subseteq {op[r].name}
             /\ op' = [op EXCEPT ![r].pairs = {}, ![r].ask = "one",
                                    ![r].pc = IF tags = {} THEN "tag" ELSE "remember"]
             /\ UNCHANGED slot
          \/ ~(tags \subseteq {op[r].name}) /\ End(r, "error")
    /\ UNCHANGED <<vol, hostVars>>

\* SetNameTag.  Create goes on without the tag, import fails.
Tagging(r) ==
    /\ At(r, "tag")
    /\ \/ /\ Live(op[r].an)
          /\ vol' = [vol EXCEPT ![op[r].an].tag = op[r].name]
          /\ Goto(r, "remember")
       \/ /\ \/ ~Live(op[r].an) \/ "tag" \in Faults
          /\ IF op[r].kind = "create" THEN Goto(r, "remember") ELSE End(r, "error")
          /\ UNCHANGED vol
       \/ /\ Live(op[r].an) /\ "lost" \in Faults
          /\ vol' = [vol EXCEPT ![op[r].an].tag = op[r].name]
          /\ IF op[r].kind = "create" THEN Goto(r, "remember") ELSE End(r, "error")
    /\ UNCHANGED hostVars

\* Mutant: the name is cached as its own array name.
RememberDockerName(r) ==
    /\ At(r, "remember")
    /\ names' = [names EXCEPT ![h(r)][op[r].name] = op[r].name]
    /\ KnownNext(r, op[r].an, "done")
    /\ UNCHANGED <<vol, known, file, tmp, saver, slot>>

\* remember, after the last call; setKnown is the second half of it.
Remember(r) ==
    /\ At(r, "remember")
    /\ names' = [names EXCEPT ![h(r)][op[r].name] = op[r].an]
    /\ KnownNext(r, op[r].an, "done")
    /\ UNCHANGED <<vol, known, file, tmp, saver, slot>>

(***************************************************************************)
(* Remove.                                                                  *)
(***************************************************************************)

\* What is mounted here or connected to other hosts is refused; a destroyed
\* or missing volume only costs this host's record of it.
FetchForRemove(r) ==
    /\ Fetched(r, "remove")
    /\ \/ ~Present(op[r].an) /\ Onward(r, "forget")
       \/ /\ Present(op[r].an) /\ ~Live(op[r].an)
          /\ Onward(r, IF EradicateOnRemove[h(r)] THEN "destroy" ELSE "forget")
       \/ /\ Live(op[r].an)
          /\ \/ End(r, "error")
             \/ Onward(r, IF ~EradicateOnRemove[h(r)] /\ op[r].an = arrayName[op[r].name]
                        THEN "park" ELSE "destroy")
    /\ UNCHANGED <<vol, hostVars>>

\* Mutant: a removed volume that cannot be moved is forgotten, not destroyed.
ParkOrForget(r) ==
    /\ At(r, "park")
    /\ \/ \E s \in Spares[op[r].name] :
          /\ Unused(s)
          /\ op' = [op EXCEPT ![r].spare = s, ![r].pc = "rename"]
       \/ /\ "error" \in Faults \/ \A s \in Spares[op[r].name] : ~Unused(s)
          /\ op' = [op EXCEPT ![r].pc = "forget"]
    /\ UNCHANGED <<vol, hostVars, slot>>

\* Any failure on the way to the new name leaves the volume to be destroyed
\* under the old one.
Park(r) ==
    /\ At(r, "park")
    /\ \/ \E s \in Spares[op[r].name] :
          /\ Unused(s)
          /\ op' = [op EXCEPT ![r].spare = s, ![r].pc = "rename"]
       \/ /\ "error" \in Faults \/ \A s \in Spares[op[r].name] : ~Unused(s)
          /\ op' = [op EXCEPT ![r].pc = "destroy"]
    /\ UNCHANGED <<vol, hostVars, slot>>

\* RenameVolume.  The client tries a PATCH again when the answer is lost; the
\* second one finds no volume under the old name and fails.
Rename(r) ==
    /\ At(r, "rename")
    /\ LET moved == [vol EXCEPT ![op[r].spare] = vol[op[r].an], ![op[r].an] = NoVolume]
           can == Live(op[r].an) /\ ~Present(op[r].spare)
       IN \/ /\ can /\ vol' = moved
             /\ op' = [op EXCEPT ![r].an = op[r].spare, ![r].spare = None, ![r].pc = "destroy"]
          \/ /\ can /\ "lostRename" \in Faults /\ vol' = moved
             /\ op' = [op EXCEPT ![r].spare = None, ![r].pc = "destroy"]
          \/ /\ ~can \/ "error" \in Faults
             /\ op' = [op EXCEPT ![r].spare = None, ![r].pc = "destroy"]
             /\ UNCHANGED vol
    /\ UNCHANGED <<hostVars, slot>>

\* DestroyVolume, by name.  A volume that does not exist, or is destroyed
\* already, is no error.
Destroy(r) ==
    /\ At(r, "destroy")
    /\ vol' = IF Live(op[r].an) THEN [vol EXCEPT ![op[r].an].state = "destroyed"] ELSE vol
    /\ \/ Goto(r, IF EradicateOnRemove[h(r)] THEN "eradicate" ELSE "forget")
       \/ "lost" \in Faults /\ End(r, "error")
    /\ UNCHANGED hostVars

Eradicate(r) ==
    /\ At(r, "eradicate")
    /\ vol' = IF Present(op[r].an) /\ ~Live(op[r].an)
              THEN [vol EXCEPT ![op[r].an] = [state |-> "eradicated", tag |-> None]] ELSE vol
    /\ \/ Goto(r, "forget")
       \/ "lost" \in Faults /\ End(r, "error")
    /\ UNCHANGED hostVars

Forget(r) ==
    /\ At(r, "forget")
    /\ names' = [names EXCEPT ![h(r)][op[r].name] = None]
    /\ KnownNext(r, None, "done")
    /\ UNCHANGED <<vol, known, file, tmp, saver, slot>>

(***************************************************************************)
(* List, and the known names.                                               *)
(***************************************************************************)

\* The names of all live volumes, whichever comes last when two have one.
Listed(r) ==
    /\ At(r, "answer") /\ op[r].kind = "list"
    /\ \E byName \in [DockerNames -> ArrayNames \union {None}] :
        /\ \A n \in DockerNames :
             IF \E a \in ArrayNames : <<a, n>> \in op[r].pairs
             THEN <<byName[n], n>> \in op[r].pairs ELSE byName[n] = None
        /\ names' = [names EXCEPT ![h(r)] =
                        [n \in DockerNames |-> IF byName[n] = None THEN @[n] ELSE byName[n]]]
        /\ op' = [op EXCEPT ![r].put = byName, ![r].pairs = {}, ![r].pc = "replace"]
    /\ UNCHANGED <<vol, known, file, tmp, saver, slot>>

\* What follows once the known names are right: the file is saved only if
\* they changed.
Continue(r) ==
    \/ op[r].next = "done" /\ End(r, "ok")
    \/ /\ op[r].next # "done"
       /\ op' = [op EXCEPT ![r].pc = op[r].next, ![r].put = NoNames, ![r].next = "done"]
       /\ UNCHANGED slot

ReplaceKnown(r) ==
    /\ At(r, "replace")
    /\ known' = [known EXCEPT ![h(r)] = op[r].put]
    /\ IF known[h(r)] = op[r].put THEN Continue(r) ELSE Goto(r, "save")
    /\ UNCHANGED <<vol, names, file, tmp, saver>>

SetKnown(r) ==
    /\ At(r, "known")
    /\ LET n == op[r].name
       IN /\ known' = [known EXCEPT ![h(r)][n] = op[r].put[n]]
          /\ IF known[h(r)][n] = op[r].put[n] THEN Continue(r) ELSE Goto(r, "save")
    /\ UNCHANGED <<vol, names, file, tmp, saver>>

\* Mutant: List saves what it read, whatever became known since.
SaveBeginHanded(r) ==
    /\ At(r, "save") /\ saver[h(r)] = None
    /\ saver' = [saver EXCEPT ![h(r)] = r]
    /\ tmp' = [tmp EXCEPT ![h(r)] = IF op[r].kind = "list" THEN op[r].put ELSE known[h(r)]]
    /\ Goto(r, "write")
    /\ UNCHANGED <<vol, names, known, file>>

\* saveKnown, under saveMu: what is known now goes into the temporary file,
\* which is then renamed.  A save that fails costs only the file.
SaveBegin(r) ==
    /\ At(r, "save") /\ saver[h(r)] = None
    /\ saver' = [saver EXCEPT ![h(r)] = r]
    /\ tmp' = [tmp EXCEPT ![h(r)] = known[h(r)]]
    /\ Goto(r, "write")
    /\ UNCHANGED <<vol, names, known, file>>

SaveEnd(r) ==
    /\ At(r, "write")
    /\ file' = [file EXCEPT ![h(r)] = tmp[h(r)]]
    /\ saver' = [saver EXCEPT ![h(r)] = None]
    /\ tmp' = [tmp EXCEPT ![h(r)] = NoNames]
    /\ Continue(r)
    /\ UNCHANGED <<vol, names, known>>

(***************************************************************************)
(* What goes wrong, and what others do.                                     *)
(***************************************************************************)

\* A call the array does not carry out.  Where a request goes on without the
\* call its own action says so.
CallFails(r) ==
    /\ "error" \in Faults
    /\ op[r].pc \in {"tags", "destroyed", "fetch", "fresh", "create", "destroy", "eradicate"}
    /\ End(r, OutageAnswer(r))
    /\ UNCHANGED <<vol, hostVars>>

\* The plugin of host x dies and starts again: New loads the file, and
\* recoverMounts looks up the names of the volumes it finds mounted, of which any
\* may be.  Nothing else of this host moves until it is done.
Restart(x) ==
    /\ "restart" \in Faults
    /\ op' = [r \in Reqs |-> IF h(r) = x THEN NoRequest ELSE op[r]]
    /\ \E found \in [DockerNames -> ArrayNames \union {None}] :
        /\ \A n \in DockerNames : found[n] = None \/ LiveTagged(n) = {found[n]}
        /\ names' = [names EXCEPT ![x] = found]
        /\ file' = [file EXCEPT ![x] = [n \in DockerNames |->
                                            IF found[n] = None THEN @[n] ELSE found[n]]]
        /\ known' = [known EXCEPT ![x] = file'[x]]
    /\ tmp' = [tmp EXCEPT ![x] = NoNames]
    /\ saver' = [saver EXCEPT ![x] = None]
    /\ slot' = [slot EXCEPT ![x] = [a \in ArrayNames |-> FALSE]]
    /\ UNCHANGED vol

\* A volume is destroyed in the array's own interface, but not one that a Create
\* has just made and no one else knows of.
DestroyedOutside(a) ==
    /\ "outside" \in Faults /\ Live(a)
    /\ \A r \in Reqs : At(r, "tag") => op[r].an # a
    /\ vol' = [vol EXCEPT ![a].state = "destroyed"]
    /\ UNCHANGED <<hostVars, slot, op>>

(***************************************************************************)
(* History: what was true of a name at some moment of the request.  List   *)
(* and Remove are about tags.  For Get and Mount a name counts as gone     *)
(* from when a Remove destroys its volume.                                 *)
(***************************************************************************)

There(r, n) ==
    IF op[r].kind \in {"list", "remove"} THEN LiveTagged(n) # {}
    ELSE LiveTagged(n) # {} \/ Live(arrayName[n])

BeingDestroyed(n) == \E q \in Reqs : At(q, "destroy") /\ op[q].name = n

Absent(r, n) == ~There(r, n) \/ (op[r].kind \in {"get", "mount"} /\ BeingDestroyed(n))

\* An eradicated volume is gone from the list of destroyed ones too.
Erased(n) == \E a \in Tagged(n) : vol'[a].state = "eradicated"

\* A request is told something untrue: its second look finds in the cache what
\* an older answer has put back there, and trusts it; or a rename that was
\* carried out is said to have failed.
Misleads(r) ==
    \/ /\ At(r, "resolve") /\ op[r].how = "again" /\ op'[r].pc \in {"lock", "fetch"}
       /\ ~Live(names[h(r)][op[r].name])
    \/ At(r, "rename") /\ op'[r].an = op[r].an /\ vol' # vol

\* Nothing in the code, and nothing in Docker when there are several hosts, keeps
\* two requests that change what a name leads to from overlapping.
Crossed(n) ==
    \E q, r \in Reqs :
        q # r /\ {op[q].kind, op[r].kind} \subseteq Changes /\ op[q].name = n /\ op[r].name = n

\* An import takes a volume that was claimed since it looked.
Stolen(n) ==
    \E a \in ArrayNames :
        /\ None \notin {vol[a].tag, vol'[a].tag} /\ vol'[a].tag # vol[a].tag
        /\ n \in {vol[a].tag, vol'[a].tag}

\* An import gives the name a volume beside one under its computed name that
\* has lost its tag: Adopt asks for the tags only.
Shadowed(n) ==
    /\ Live(arrayName[n]) /\ vol[arrayName[n]].tag = None
    /\ \E r \in Reqs :
        /\ At(r, "tag") /\ op[r].kind = "import" /\ op[r].name = n
        /\ vol'[op[r].an].tag = n

\* A Create leaves its volume without a tag where no lookup will find it.
Untagged(n) ==
    \E r \in Reqs :
        /\ At(r, "tag") /\ op[r].kind = "create" /\ op[r].name = n /\ op'[r].pc = "remember"
        /\ op[r].an # arrayName[n] /\ vol'[op[r].an].tag # n

\* A request that was misled changes a volume.
ActedInError(n) ==
    \E r \in misled : op[r].kind \in Changes /\ op[r].name = n /\ op'[r] # op[r] /\ vol' # vol

\* An import's volume, once eradicated, is created again under its name: it can be
\* imported once more while some cache still leads to it.
Remade == \E a \in Imports : vol[a].state = "eradicated" /\ vol'[a].state = "live"

Muddles(n) ==
    Crossed(n)' \/ Stolen(n) \/ Shadowed(n) \/ Untagged(n) \/ ActedInError(n) \/ Remade

Recorded ==
    LET about(r) == IF op'[r].kind = "list" THEN DockerNames ELSE {op'[r].name}
        asks(r, kinds) == op'[r].kind \in kinds
    IN /\ seen' = [r \in Reqs |->
              IF op'[r].pc = "done" THEN [there |-> {}, absent |-> {}]
              ELSE [there |-> seen[r].there \union {n \in about(r) :
                                  \/ asks(r, {"create", "import", "mount", "list"}) /\ There(r, n)'
                                  \/ asks(r, {"list"}) /\ Erased(n)},
                    absent |-> seen[r].absent \union {n \in about(r) :
                                  asks(r, {"remove", "get", "mount", "list"}) /\ Absent(r, n)'}]]
       /\ misled' = {r \in Reqs : op'[r].pc # "done" /\ (r \in misled \/ Misleads(r))}
       /\ muddled' = muddled \union {n \in DockerNames : Muddles(n)}

Find(r) ==
    \/ ResolveCached(r) \/ ResolveMiss(r) \/ ReadTags(r) \/ ReadDestroyed(r) \/ Looked(r)
    \/ FetchStale(r) \/ ForgetStale(r) \/ FetchForGet(r) \/ FetchForMount(r) \/ FetchForCreate(r)
    \/ FetchForImport(r) \/ FetchForRemove(r)

Change(r) ==
    \/ FreshName(r) \/ CreateVolume(r) \/ AdoptLooked(r) \/ AdoptListed(r) \/ Tagging(r)
    \/ Remember(r) \/ Park(r) \/ Rename(r) \/ Destroy(r) \/ Eradicate(r) \/ Forget(r)

Note(r) == Listed(r) \/ ReplaceKnown(r) \/ SetKnown(r) \/ SaveEnd(r)

Next ==
    /\ \/ \E r \in Reqs :
          \/ Begin(r) \/ Find(r) \/ Change(r) \/ Note(r)
          \/ Lock(r) \/ SaveBegin(r) \/ GiveUp(r) \/ CallFails(r)
       \/ \E x \in Hosts : Restart(x)
       \/ \E a \in ArrayNames : DestroyedOutside(a)
    /\ Recorded

Spec == Init /\ [][Next]_vars

(***************************************************************************)
(* Properties.                                                              *)
(***************************************************************************)

\* A per-volume lock's channel is full exactly while one request has it to
\* give back: no exit forgets it, none gives it back twice, and the swap of
\* locks in Create and in resolveLocked leaves none behind.
LocksAreHeldOnce ==
    \A x \in Hosts, a \in ArrayNames :
        LET holders == {r \in Reqs : h(r) = x /\ op[r].held = a}
        IN Cardinality(holders) = IF slot[x][a] THEN 1 ELSE 0

\* Whatever changes the known names and however their saves overlap, the file
\* holds the newest ones when no save is due any more (saveKnown).
FileIsLatest ==
    \A x \in Hosts :
        (\A r \in Reqs : h(r) = x => op[r].pc \notin {"save", "write"}) => file[x] = known[x]

Answers(r, k, result) ==
    ~At(r, "done") /\ op[r].kind = k /\ op'[r].pc = "done" /\ op'[r].result = result

\* Get and Mount say that there is no volume only if at some moment of the
\* request the name led to none, unless an old answer had come back into the cache
\* between the request's two looks, or the name is muddled: Docker takes it for
\* "no such volume" and makes an empty local one instead (known.go).
MissingOnlyIfAbsent ==
    [][\A r \in Reqs \ misled, k \in {"get", "mount"} :
          Answers(r, k, "missing") => op[r].name \in seen[r].absent \union muddled]_vars

\* A Remove that succeeded has left no live volume with the name's tag behind,
\* so that the name can be created again and gets a new volume, unless what it was
\* told was untrue or the name is muddled.
RemovedIsGone ==
    [][\A r \in Reqs \ misled :
          Answers(r, "remove", "ok") => op[r].name \in seen[r].absent \union muddled]_vars

\* The same of any Remove, as src/README.md:331 has it.
RemovedIsAlwaysGone ==
    [][\A r \in Reqs :
          Answers(r, "remove", "ok") => op[r].name \in seen[r].absent]_vars

\* A Create or import that succeeded had a live volume of the name, unless it was
\* misled or the name is muddled.
ServedIsThere ==
    [][\A r \in Reqs \ misled, k \in {"create", "import"} :
          Answers(r, k, "ok") => op[r].name \in seen[r].there \union muddled]_vars

\* List names every volume that had the tag and was live all the time, and none
\* that never was while it ran, although it reads tags and destroyed volumes
\* one after the other.
ListTellsAll ==
    [][\A r \in Reqs, n \in DockerNames \ muddled :
          Answers(r, "list", "ok") =>
              n \in IF op[r].put[n] = None THEN seen[r].absent ELSE seen[r].there]_vars

\* A name leads to one live volume, unless it is muddled.
NameLeadsToOneVolume == \A n \in DockerNames \ muddled : Cardinality(LiveTagged(n)) <= 1
=============================================================================
