---------------------------- MODULE Names_proofs ----------------------------
(***************************************************************************)
(* Names, for every set of hosts, requests, names and faults, and with     *)
(* requests that overlap: the per-volume locks are held once, and the file *)
(* of known names is up to date when no save is due.                       *)
(*                                                                         *)
(* The argument: a full channel belongs to exactly one request, which      *)
(* gives it back (LocksOwned); this needs where a request may hold a lock  *)
(* at all and that it knows its array name when it works on it (Sane).     *)
(* The file lags behind what is known only while somebody has yet to save  *)
(* it, or is writing what is known now (FileKept).  Nearly every step only *)
(* moves one request and touches no lock but its own (Quiet).              *)
(***************************************************************************)
EXTENDS Names, FiniteSetTheorems, TLAPS

\* How far a request got, against the name it works on and the lock it has.
Sane(o) ==
    /\ o.pc # "done" => o.name \in DockerNames
    /\ o.pc \in {"lock", "relock", "fetch", "fresh", "create", "tag", "remember", "park",
                 "rename", "destroy", "eradicate", "forget"} => o.an \in ArrayNames
    /\ o.pc = "rename" => o.spare \in ArrayNames
    /\ o.kind = "import" => o.pc \notin {"resolve", "stale"} /\ o.how # "cached"
    /\ o.pc \in {"tags", "destroyed", "answer"} =>
           IF o.kind = "import" THEN o.an \in ArrayNames ELSE o.held = None
    /\ o.pc \in {"done", "resolve", "lock", "relock", "stale"} => o.held = None
    /\ o.next # "done" =>
           /\ o.pc \in {"known", "save", "write"}
           /\ o.an \in ArrayNames /\ o.held = None

LocksOwned ==
    /\ \A r \in Reqs : op[r].held # None => slot[h(r)][op[r].held]
    /\ \A q, r \in Reqs :
          h(q) = h(r) /\ op[q].held = op[r].held /\ op[r].held # None => q = r
    /\ \A x \in Hosts, a \in ArrayNames :
          slot[x][a] => \E r \in Reqs : h(r) = x /\ op[r].held = a

FileKept ==
    /\ \A r \in Reqs : At(r, "write") => saver[h(r)] = r
    /\ \A x \in Hosts : saver[x] # None => h(saver[x]) = x /\ At(saver[x], "write")
    /\ \A x \in Hosts : (\A r \in Reqs : h(r) = x => ~At(r, "save")) =>
          known[x] = IF saver[x] = None THEN file[x] ELSE tmp[x]

IInv == TypeOK /\ (\A r \in Reqs : Sane(op[r])) /\ LocksOwned /\ FileKept

\* A step that moves one request to o, and at most gives back its lock.
Moves(r, o) ==
    /\ o \in Requests /\ Sane(o) /\ op' = [op EXCEPT ![r] = o]
    /\ \/ o.held = op[r].held /\ UNCHANGED slot
       \/ o.held = None /\ slot' = Unlocked(r)

\* One that saves nothing, and at most leaves what became known to be saved.
Quiet(r, o) ==
    /\ Moves(r, o)
    /\ op[r].pc \notin {"save", "write"} /\ o.pc # "write"
    /\ \A x \in Hosts : x # h(r) \/ o.pc # "save" => known'[x] = known[x]
    /\ UNCHANGED <<file, tmp, saver>>

-----------------------------------------------------------------------------
(* What a quiet step leaves true. *)

LEMMA HostOfReq == \A r \in Reqs : h(r) \in Hosts
  BY NamesAssumption DEF h

LEMMA Moved ==
    ASSUME TypeOK, NEW r \in Reqs, NEW o \in Requests, op' = [op EXCEPT ![r] = o]
    PROVE  /\ op' \in [Reqs -> Requests]
           /\ op'[r] = o /\ \A q \in Reqs \ {r} : op'[q] = op[q]
  BY DEF TypeOK

\* The lock a request has stays its own, or is given back.
LEMMA MoveLocks ==
    ASSUME IInv, NEW r \in Reqs, NEW o, Moves(r, o)
    PROVE  LocksOwned' /\ slot' \in [Hosts -> [ArrayNames -> BOOLEAN]]
<1>1. op'[r] = o /\ \A q \in Reqs \ {r} : op'[q] = op[q]
  BY Moved DEF IInv, Moves
<1>2. slot \in [Hosts -> [ArrayNames -> BOOLEAN]] /\ op[r].held \in ArrayNames \union {None}
  BY DEF IInv, TypeOK, Requests
<1>3. CASE o.held = op[r].held /\ UNCHANGED slot
  <2>1. \A q \in Reqs : op'[q].held = op[q].held
    BY <1>1, <1>3
  <2> QED BY <1>2, <1>3, <2>1 DEF IInv, LocksOwned, h
<1>4. CASE o.held = None /\ slot' = Unlocked(r) /\ op[r].held = None
  BY <1>1, <1>2, <1>4 DEF IInv, LocksOwned, Unlocked, h
<1>5. CASE o.held = None /\ slot' = Unlocked(r) /\ op[r].held # None
  <2>1. op[r].held \in ArrayNames /\ h(r) \in Hosts
    BY <1>2, <1>5, HostOfReq
  <2>2. slot' = [slot EXCEPT ![h(r)][op[r].held] = FALSE]
    BY <1>5 DEF Unlocked
  <2>3. \A x \in Hosts, a \in ArrayNames :
           slot'[x][a] = (slot[x][a] /\ ~(x = h(r) /\ a = op[r].held))
    BY <1>2, <2>1, <2>2
  <2>4. slot' \in [Hosts -> [ArrayNames -> BOOLEAN]]
    BY <1>2, <2>1, <2>2
  <2>5. \A q \in Reqs : op'[q].held # None => q # r /\ op'[q].held = op[q].held
    BY <1>1, <1>5
  <2>6. \A q \in Reqs : op[q].held \in ArrayNames \union {None}
    BY DEF IInv, TypeOK, Requests
  <2>7. \A q \in Reqs : op'[q].held # None => slot'[h(q)][op'[q].held]
    <3> SUFFICES ASSUME NEW q \in Reqs, op'[q].held # None
                 PROVE  slot'[h(q)][op'[q].held]
      OBVIOUS
    <3>1. q # r /\ op'[q].held = op[q].held /\ op[q].held \in ArrayNames /\ h(q) \in Hosts
      BY <2>5, <2>6, HostOfReq
    <3>2. slot[h(q)][op[q].held] /\ ~(h(q) = h(r) /\ op[q].held = op[r].held)
      BY <3>1, <2>1, <1>5 DEF IInv, LocksOwned
    <3> QED BY <2>3, <3>1, <3>2
  <2>8. \A p, q \in Reqs :
          h(p) = h(q) /\ op'[p].held = op'[q].held /\ op'[q].held # None => p = q
    BY <2>5 DEF IInv, LocksOwned
  <2>9. \A x \in Hosts, a \in ArrayNames :
          slot'[x][a] => \E q \in Reqs : h(q) = x /\ op'[q].held = a
    <3> SUFFICES ASSUME NEW x \in Hosts, NEW a \in ArrayNames, slot'[x][a]
                 PROVE  \E q \in Reqs : h(q) = x /\ op'[q].held = a
      OBVIOUS
    <3>1. slot[x][a] /\ ~(x = h(r) /\ a = op[r].held)
      BY <2>3
    <3>2. PICK q \in Reqs : h(q) = x /\ op[q].held = a
      BY <3>1 DEF IInv, LocksOwned
    <3> QED BY <1>1, <3>1, <3>2
  <2> QED BY <2>4, <2>7, <2>8, <2>9 DEF LocksOwned, h
<1> QED BY <1>3, <1>4, <1>5 DEF Moves

LEMMA QuietFile ==
    ASSUME IInv, NEW r \in Reqs, NEW o, Quiet(r, o)
    PROVE  FileKept'
<1>1. op'[r] = o /\ \A q \in Reqs \ {r} : op'[q] = op[q]
  BY Moved DEF IInv, Quiet, Moves
<1>2. \A q \in Reqs : (At(q, "write"))' <=> At(q, "write")
  BY <1>1 DEF At, Quiet
<1>3. \A q \in Reqs : At(q, "save") => (At(q, "save"))'
  BY <1>1 DEF At, Quiet
<1>4. \A x \in Hosts : saver[x] # None => saver[x] \in Reqs
  BY DEF IInv, TypeOK
<1>5. ASSUME NEW x \in Hosts, \A q \in Reqs : h(q) = x => ~(At(q, "save"))'
      PROVE  known'[x] = IF saver[x] = None THEN file[x] ELSE tmp[x]
  <2>1. known'[x] = known[x]
    BY <1>1, <1>5 DEF Quiet, At
  <2> QED BY <1>3, <1>5, <2>1 DEF IInv, FileKept
<1> QED BY <1>2, <1>4, <1>5 DEF IInv, FileKept, Quiet, h

LEMMA QuietStep ==
    ASSUME IInv, NEW r \in Reqs, NEW o, Quiet(r, o)
    PROVE  /\ op' \in [Reqs -> Requests] /\ slot' \in [Hosts -> [ArrayNames -> BOOLEAN]]
           /\ (\A q \in Reqs : Sane(op'[q])) /\ LocksOwned' /\ FileKept'
<1>1. /\ op' \in [Reqs -> Requests]
      /\ op'[r] = o /\ \A q \in Reqs \ {r} : op'[q] = op[q]
  BY Moved DEF IInv, Quiet, Moves
<1>2. \A q \in Reqs : Sane(op'[q])
  BY <1>1 DEF IInv, Quiet, Moves
<1> QED BY <1>1, <1>2, MoveLocks, QuietFile DEF Quiet

-----------------------------------------------------------------------------
(* The steps that only move a request. *)

LEMMA ArrayNamesIn ==
    /\ Imports \subseteq ArrayNames
    /\ \A n \in DockerNames : arrayName[n] \in ArrayNames /\ Spares[n] \subseteq ArrayNames
    /\ None \notin ArrayNames /\ None \notin DockerNames /\ None \notin Reqs
<1>1. ASSUME NEW n \in DockerNames PROVE arrayName[n] \in ArrayNames /\ Spares[n] \subseteq ArrayNames
  BY DEF ArrayNames
<1>2. ASSUME NEW i \in Imports PROVE i \in ArrayNames
  BY DEF ArrayNames
<1>3. None \notin ArrayNames /\ None \notin DockerNames /\ None \notin Reqs
  BY NamesAssumption
<1> QED BY <1>1, <1>2, <1>3

\* The request of r goes on, with the lock it has.
LEMMA GotoQuiet ==
    ASSUME IInv, NEW r \in Reqs, NEW s \in Steps \ {"write"}, op[r].pc \notin {"save", "write"},
           Goto(r, s), Sane([op[r] EXCEPT !.pc = s]),
           \A x \in Hosts : x # h(r) \/ s # "save" => known'[x] = known[x],
           UNCHANGED <<file, tmp, saver>>
    PROVE  \E o : Quiet(r, o)
<1> DEFINE o == [op[r] EXCEPT !.pc = s]
<1>1. op[r] \in Requests /\ op \in [Reqs -> Requests]
  BY DEF IInv, TypeOK
<1>2. o \in Requests /\ o.pc = s /\ o.held = op[r].held
  BY <1>1 DEF Requests
<1>3. op' = [op EXCEPT ![r] = o] /\ UNCHANGED slot
  BY <1>1 DEF Goto
<1> QED BY <1>2, <1>3 DEF Quiet, Moves

Results == {"ok", "missing", "known", "error"}

\* The request of r ends.
LEMMA EndQuiet ==
    ASSUME IInv, NEW r \in Reqs, NEW result \in Results, op[r].pc \notin {"save", "write"},
           End(r, result), UNCHANGED <<file, tmp, saver>>,
           \A x \in Hosts : known'[x] = known[x]
    PROVE  \E o : Quiet(r, o)
<1> DEFINE o == [NoRequest EXCEPT !.result = result]
<1>1. op \in [Reqs -> Requests]
  BY DEF IInv, TypeOK
<1>2. o \in Requests /\ o.pc = "done" /\ o.held = None /\ o.kind = "none" /\ o.next = "done"
  BY DEF Requests, NoRequest, NoNames, Steps, Results
<1>3. Sane(o)
  BY <1>2 DEF Sane
<1> QED BY <1>2, <1>3 DEF Quiet, Moves, End

\* A fact of setKnown's next step: what the request goes on with is in order.
LEMMA KnownNextQuiet ==
    ASSUME IInv, NEW r \in Reqs, NEW a \in ArrayNames \union {None},
           NEW next \in {"done", "lock", "fetch"}, op[r].pc \notin {"done", "save", "write"},
           KnownNext(r, a, next), op[r].kind = "import" => op[r].how # "cached",
           next # "done" => a # None /\ op[r].held = None,
           UNCHANGED <<known, file, tmp, saver, slot>>
    PROVE  \E o : Quiet(r, o)
<1> DEFINE put == [NoNames EXCEPT ![op[r].name] = a]
           an == IF a = None THEN op[r].an ELSE a
           o == [op[r] EXCEPT !.pc = "known", !.put = put, !.an = an, !.pairs = {}, !.next = next]
<1>1. op[r] \in Requests /\ op \in [Reqs -> Requests] /\ Sane(op[r])
  BY DEF IInv, TypeOK
<1>2. /\ put \in [DockerNames -> ArrayNames \union {None}] /\ "known" \in Steps
      /\ an \in ArrayNames \union {None} /\ (a # None => an = a) /\ (a = None => an = op[r].an)
  BY <1>1 DEF NoNames, Steps, Requests
<1> HIDE DEF put, an
<1>3. o \in Requests
  <2>1. op[r] \in Requests /\ "known" \in Steps /\ an \in ArrayNames \union {None}
        /\ put \in [DockerNames -> ArrayNames \union {None}]
        /\ next \in {"done", "lock", "fetch"} /\ {} \in SUBSET (ArrayNames \X DockerNames)
    BY <1>1, <1>2
  <2> QED BY <2>1, ZenonT(30) DEF Requests
<1>4. /\ o.pc = "known" /\ o.next = next /\ o.name = op[r].name
      /\ o.held = op[r].held /\ o.an = an /\ o.kind = op[r].kind /\ o.how = op[r].how
  BY <1>1 DEF Requests
<1>5. Sane(o)
  BY <1>1, <1>2, <1>4 DEF Sane
<1>6. op' = [op EXCEPT ![r] = o]
  BY <1>1 DEF KnownNext, put, an
<1> QED BY <1>3, <1>4, <1>5, <1>6 DEF Quiet, Moves

LEMMA ReqOf ==
    ASSUME IInv, NEW r \in Reqs
    PROVE  op[r] \in Requests /\ Sane(op[r]) /\ op \in [Reqs -> Requests] /\ h(r) \in Hosts
  BY HostOfReq DEF IInv, TypeOK

\* A request whose volume was found goes on to change it.
LEMMA OnwardQuiet ==
    ASSUME IInv, NEW r \in Reqs, op[r].pc = "fetch",
           NEW step \in {"fresh", "create", "forget", "destroy", "park"}, Onward(r, step),
           UNCHANGED <<known, file, tmp, saver>>
    PROVE  \E o : Quiet(r, o)
<1> DEFINE o == [op[r] EXCEPT !.pc = step, !.how = "fresh"]
<1>1. op[r] \in Requests /\ Sane(op[r]) /\ op \in [Reqs -> Requests] /\ step \in Steps
  BY ReqOf DEF Steps
<1>2. /\ o \in Requests /\ o.pc = step /\ o.an = op[r].an /\ o.held = op[r].held
      /\ o.kind = op[r].kind /\ o.name = op[r].name /\ o.next = op[r].next /\ o.how = "fresh"
  BY <1>1 DEF Requests
<1>3. Sane(o)
  BY <1>1, <1>2 DEF Sane
<1>4. op' = [op EXCEPT ![r] = o] /\ UNCHANGED slot
  BY <1>1 DEF Onward
<1> QED BY <1>2, <1>3, <1>4 DEF Quiet, Moves

\* The steps by which a request finds its volume.
LEMMA FindQuiet ==
    ASSUME IInv, NEW r \in Reqs, Find(r)
    PROVE  \E o : Quiet(r, o)
<1> USE DEF hostVars
<1>0. op[r] \in Requests /\ Sane(op[r]) /\ op \in [Reqs -> Requests] /\ h(r) \in Hosts
  BY ReqOf
<1>1. CASE ResolveCached(r)
  <2> DEFINE to == Resolved(r)
             an == names[h(r)][op[r].name]
             how == IF op[r].how = "fresh" THEN "cached" ELSE op[r].how
             o == [op[r] EXCEPT !.an = an, !.pc = to, !.how = how]
  <2>1. /\ to \in {"lock", "fetch"} /\ to \in Steps /\ an \in ArrayNames
        /\ how \in {"fresh", "cached", "again"}
    BY <1>0, <1>1 DEF IInv, TypeOK, Resolved, Steps, ResolveCached, Sane, At, Requests
  <2>2. op' = [op EXCEPT ![r] = o]
    BY <1>0, <1>1 DEF ResolveCached
  <2> HIDE DEF to, an, how
  <2>3. /\ o \in Requests /\ o.pc = to /\ o.an = an /\ o.held = op[r].held
        /\ o.kind = op[r].kind /\ o.name = op[r].name /\ o.next = op[r].next
    <3>1. op[r] \in Requests
      BY <1>0
    <3>2. o \in Requests
      BY <2>1, <3>1 DEF Requests
    <3>3. o.pc = to /\ o.an = an
      BY <3>1 DEF Requests
    <3>4. o.held = op[r].held /\ o.kind = op[r].kind
      BY <3>1 DEF Requests
    <3>5. o.name = op[r].name /\ o.next = op[r].next
      BY <3>1 DEF Requests
    <3> QED BY <3>2, <3>3, <3>4, <3>5
  <2>4. Sane(o)
    BY <1>0, <1>1, <2>1, <2>3 DEF Sane, ResolveCached, At
  <2> QED BY <1>1, <2>1, <2>2, <2>3, <2>4 DEF Quiet, Moves, ResolveCached, At
<1>2. CASE ResolveMiss(r)
  <2> DEFINE o == [op[r] EXCEPT !.pc = "tags"]
  <2>1. Sane(o)
    BY <1>0, <1>2 DEF Sane, ResolveMiss, At, Requests
  <2> QED BY <1>2, <2>1, GotoQuiet DEF ResolveMiss, At, Steps
<1>3. CASE ReadTags(r)
  <2> PICK pairs \in SUBSET (ArrayNames \X DockerNames), to \in {"answer", "destroyed"} :
         op' = [op EXCEPT ![r].pairs = pairs, ![r].pc = to]
    BY <1>0, <1>3 DEF ReadTags, Sane, At
  <2> DEFINE o == [op[r] EXCEPT !.pairs = pairs, !.pc = to]
  <2>1. to \in Steps
    BY DEF Steps
  <2>2. /\ o \in Requests /\ o.pc = to /\ o.an = op[r].an /\ o.held = op[r].held
        /\ o.kind = op[r].kind /\ o.name = op[r].name /\ o.next = op[r].next /\ o.how = op[r].how
    BY <1>0, <2>1 DEF Requests
  <2>3. Sane(o)
    BY <1>0, <1>3, <2>2 DEF Sane, ReadTags, At
  <2>4. op[r].pc = "tags" /\ UNCHANGED <<known, file, tmp, saver, slot>>
    BY <1>3 DEF ReadTags, At
  <2>5. op' = [op EXCEPT ![r] = o]
    BY <1>0
  <2> QED BY <2>2, <2>3, <2>4, <2>5 DEF Quiet, Moves
<1>4. CASE ReadDestroyed(r)
  <2> DEFINE pairs == {p \in op[r].pairs : vol[p[1]].state # "destroyed"}
             o == [op[r] EXCEPT !.pairs = pairs, !.pc = "answer"]
  <2>1. op' = [op EXCEPT ![r] = o] /\ pairs \subseteq op[r].pairs /\ "answer" \in Steps
    BY <1>0, <1>4 DEF ReadDestroyed, Steps
  <2> HIDE DEF pairs
  <2>2. /\ o \in Requests /\ o.pc = "answer" /\ o.an = op[r].an /\ o.held = op[r].held
        /\ o.kind = op[r].kind /\ o.name = op[r].name /\ o.next = op[r].next /\ o.how = op[r].how
    BY <1>0, <2>1 DEF Requests
  <2>3. Sane(o)
    BY <1>0, <1>4, <2>2 DEF Sane, ReadDestroyed, At
  <2> QED BY <1>4, <2>1, <2>2, <2>3 DEF Quiet, Moves, ReadDestroyed, At
<1>5. CASE Looked(r)
  <2>0. /\ op[r].pc = "answer" /\ op[r].kind # "import" /\ op[r].held = None
        /\ op[r].name \in DockerNames /\ UNCHANGED <<known, file, tmp, saver>>
    BY <1>0, <1>5 DEF Looked, At, Sane
  <2>1. Resolved(r) \in {"lock", "fetch"}
    BY DEF Resolved
  <2>2. CASE op' = [op EXCEPT ![r].an = arrayName[op[r].name], ![r].pc = Resolved(r)]
             /\ UNCHANGED slot
    <3> DEFINE to == Resolved(r)
               an == arrayName[op[r].name]
               o == [op[r] EXCEPT !.an = an, !.pc = to]
    <3>1. op' = [op EXCEPT ![r] = o]
      BY <1>0, <2>2
    <3>2. to \in {"lock", "fetch"} /\ to \in Steps /\ an \in ArrayNames
      BY <2>0, <2>1, ArrayNamesIn DEF Steps
    <3> HIDE DEF to, an
    <3>3. /\ o \in Requests /\ o.pc = to /\ o.an = an /\ o.held = op[r].held
          /\ o.kind = op[r].kind /\ o.name = op[r].name /\ o.next = op[r].next
      BY <1>0, <3>2 DEF Requests
    <3>4. Sane(o)
      BY <1>0, <2>0, <3>2, <3>3 DEF Sane
    <3> QED BY <2>0, <2>2, <3>1, <3>2, <3>3, <3>4 DEF Quiet, Moves
  <2>3. CASE \E p \in op[r].pairs : KnownNext(r, p[1], Resolved(r)) /\ UNCHANGED slot
    <3>1. PICK p \in op[r].pairs : KnownNext(r, p[1], Resolved(r)) /\ UNCHANGED slot
      BY <2>3
    <3>2. p[1] \in ArrayNames
      BY <1>0 DEF Requests
    <3> QED BY <2>0, <2>1, <3>1, <3>2, ArrayNamesIn, KnownNextQuiet
  <2>4. CASE End(r, OutageAnswer(r))
    <3>1. OutageAnswer(r) \in Results
      BY DEF OutageAnswer, Results
    <3> QED BY <2>0, <2>4, <3>1, EndQuiet
  <2> QED BY <1>5, <2>2, <2>3, <2>4 DEF Looked
<1>6. CASE FetchStale(r)
  <2> DEFINE o == [op[r] EXCEPT !.pc = "stale", !.held = None, !.an = None]
  <2>0. "stale" \in Steps
    BY DEF Steps
  <2>1. /\ o \in Requests /\ o.pc = "stale" /\ o.held = None
        /\ o.kind = op[r].kind /\ o.name = op[r].name /\ o.next = op[r].next /\ o.how = op[r].how
    BY <1>0, <2>0 DEF Requests
  <2>2. Sane(o)
    BY <1>0, <1>6, <2>1 DEF Sane, FetchStale, At
  <2> QED BY <1>6, <2>1, <2>2 DEF Quiet, Moves, FetchStale, At
<1>7. CASE FetchForGet(r)
  <2>0. /\ op[r].pc = "fetch" /\ op[r].kind = "get" /\ op[r].an \in ArrayNames
        /\ UNCHANGED <<known, file, tmp, saver>>
    BY <1>0, <1>7 DEF FetchForGet, Fetched, At, Sane
  <2>1. CASE KnownNext(r, op[r].an, "done") /\ UNCHANGED slot
    BY <2>0, <2>1, KnownNextQuiet
  <2>2. CASE End(r, "missing")
    BY <2>0, <2>2, EndQuiet DEF Results
  <2> QED BY <1>7, <2>1, <2>2 DEF FetchForGet
<1>8. CASE FetchForMount(r)
  <2>1. PICK result \in Results : End(r, result)
    BY <1>8 DEF FetchForMount, Results
  <2> QED BY <1>8, <2>1, EndQuiet DEF FetchForMount, Fetched, At
<1>9. CASE FetchForCreate(r)
  <2>0. /\ op[r].pc = "fetch" /\ UNCHANGED <<known, file, tmp, saver>>
    BY <1>9 DEF FetchForCreate, Fetched, At
  <2>1. CASE End(r, "ok")
    BY <2>0, <2>1, EndQuiet DEF Results
  <2>2. CASE \E step \in {"fresh", "create"} : Onward(r, step)
    BY <2>0, <2>2, OnwardQuiet
  <2> QED BY <1>9, <2>1, <2>2 DEF FetchForCreate
<1>10. CASE FetchForImport(r)
  <2>0. /\ op[r].pc = "fetch" /\ op[r].kind = "import" /\ UNCHANGED <<known, file, tmp, saver>>
    BY <1>10 DEF FetchForImport, Fetched, At
  <2>1. CASE End(r, "error")
    BY <2>0, <2>1, EndQuiet DEF Results
  <2>2. CASE Goto(r, "tags")
    <3> DEFINE o == [op[r] EXCEPT !.pc = "tags"]
    <3>1. Sane(o)
      BY <1>0, <2>0 DEF Sane, Requests
    <3> QED BY <2>0, <2>2, <3>1, GotoQuiet DEF Steps
  <2> QED BY <1>10, <2>1, <2>2 DEF FetchForImport
<1>11. CASE FetchForRemove(r)
  <2>0. /\ op[r].pc = "fetch" /\ UNCHANGED <<known, file, tmp, saver>>
    BY <1>11 DEF FetchForRemove, Fetched, At
  <2>1. CASE End(r, "error")
    BY <2>0, <2>1, EndQuiet DEF Results
  <2>2. CASE \E step \in {"forget", "destroy", "park"} : Onward(r, step)
    BY <2>0, <2>2, OnwardQuiet
  <2> QED BY <1>11, <2>1, <2>2 DEF FetchForRemove
<1>12. CASE ForgetStale(r)
  <2> DEFINE o == [op[r] EXCEPT !.pc = "resolve", !.how = "again"]
  <2>0. "resolve" \in Steps
    BY DEF Steps
  <2>1. /\ o \in Requests /\ o.pc = "resolve" /\ o.held = op[r].held
        /\ o.kind = op[r].kind /\ o.name = op[r].name /\ o.next = op[r].next /\ o.how = "again"
    BY <1>0, <2>0 DEF Requests
  <2>2. Sane(o)
    BY <1>0, <1>12, <2>1 DEF Sane, ForgetStale, At
  <2> QED BY <1>12, <2>1, <2>2 DEF Quiet, Moves, ForgetStale, At
<1> QED BY <1>1, <1>2, <1>3, <1>4, <1>5, <1>6, <1>7, <1>8, <1>9, <1>10, <1>11, <1>12 DEF Find

\* A request that works on its volume goes on to the next call for it.
LEMMA GotoChange ==
    ASSUME IInv, NEW r \in Reqs,
           op[r].pc \in {"create", "tag", "park", "destroy", "eradicate"},
           NEW s \in {"tag", "remember", "destroy", "eradicate", "forget"}, Goto(r, s),
           UNCHANGED <<known, file, tmp, saver>>
    PROVE  \E o : Quiet(r, o)
<1> DEFINE o == [op[r] EXCEPT !.pc = s]
<1>1. op[r] \in Requests /\ Sane(op[r]) /\ s \in Steps \ {"write"}
  BY ReqOf DEF Steps
<1>2. Sane(o)
  BY <1>1 DEF Sane, Requests
<1> QED BY <1>1, <1>2, GotoQuiet

\* The steps by which a request changes a volume.
LEMMA ChangeQuiet ==
    ASSUME IInv, NEW r \in Reqs, Change(r)
    PROVE  \E o : Quiet(r, o)
<1> USE DEF hostVars
<1>0. op[r] \in Requests /\ Sane(op[r]) /\ op \in [Reqs -> Requests] /\ h(r) \in Hosts
  BY ReqOf
<1>1. CASE FreshName(r)
  <2>0. op[r].pc = "fresh" /\ UNCHANGED <<known, file, tmp, saver>>
    BY <1>1 DEF FreshName, At
  <2>1. CASE End(r, "error")
    BY <2>0, <2>1, EndQuiet DEF Results
  <2>2. CASE \E s \in Spares[op[r].name] :
               /\ op' = [op EXCEPT ![r].an = s, ![r].held = None, ![r].pc = "relock"]
               /\ slot' = Unlocked(r)
    <3>1. PICK s \in Spares[op[r].name] :
               /\ op' = [op EXCEPT ![r].an = s, ![r].held = None, ![r].pc = "relock"]
               /\ slot' = Unlocked(r)
      BY <2>2
    <3> DEFINE o == [op[r] EXCEPT !.an = s, !.held = None, !.pc = "relock"]
    <3>2. s \in ArrayNames /\ "relock" \in Steps
      BY <1>0, <2>0, ArrayNamesIn DEF Steps, Sane
    <3>3. /\ o \in Requests /\ o.pc = "relock" /\ o.an = s /\ o.held = None
          /\ o.kind = op[r].kind /\ o.name = op[r].name /\ o.next = op[r].next /\ o.how = op[r].how
      BY <1>0, <3>2 DEF Requests
    <3>4. Sane(o)
      BY <1>0, <2>0, <3>2, <3>3 DEF Sane
    <3>5. op' = [op EXCEPT ![r] = o]
      BY <1>0, <3>1
    <3> QED BY <2>0, <3>1, <3>3, <3>4, <3>5 DEF Quiet, Moves
  <2> QED BY <1>1, <2>1, <2>2 DEF FreshName
<1>2. CASE CreateVolume(r)
  <2>0. op[r].pc = "create" /\ UNCHANGED <<known, file, tmp, saver>>
    BY <1>2 DEF CreateVolume, At
  <2>1. CASE End(r, "error")
    BY <2>0, <2>1, EndQuiet DEF Results
  <2>2. CASE Goto(r, "tag")
    BY <2>0, <2>2, GotoChange
  <2> QED BY <1>2, <2>1, <2>2 DEF CreateVolume
<1>3. CASE AdoptLooked(r)
  <2>0. /\ op[r].pc = "answer" /\ op[r].kind = "import" /\ op[r].an \in ArrayNames
        /\ UNCHANGED <<known, file, tmp, saver>>
    BY <1>0, <1>3 DEF AdoptLooked, At, Sane
  <2>1. CASE End(r, "error")
    BY <2>0, <2>1, EndQuiet DEF Results
  <2>2. CASE op' = [op EXCEPT ![r].ask = "all", ![r].pairs = {}, ![r].pc = "tags"] /\ UNCHANGED slot
    <3> DEFINE o == [op[r] EXCEPT !.ask = "all", !.pairs = {}, !.pc = "tags"]
    <3>1. "tags" \in Steps
      BY DEF Steps
    <3>2. /\ o \in Requests /\ o.pc = "tags" /\ o.an = op[r].an /\ o.held = op[r].held
          /\ o.kind = op[r].kind /\ o.name = op[r].name /\ o.next = op[r].next /\ o.how = op[r].how
      BY <1>0, <3>1 DEF Requests
    <3>3. Sane(o)
      BY <1>0, <2>0, <3>2 DEF Sane
    <3>4. op' = [op EXCEPT ![r] = o]
      BY <1>0, <2>2
    <3> QED BY <2>0, <2>2, <3>2, <3>3, <3>4 DEF Quiet, Moves
  <2> QED BY <1>3, <2>1, <2>2 DEF AdoptLooked
<1>4. CASE AdoptListed(r)
  <2>0. /\ op[r].pc = "answer" /\ op[r].kind = "import" /\ op[r].an \in ArrayNames
        /\ UNCHANGED <<known, file, tmp, saver>>
    BY <1>0, <1>4 DEF AdoptListed, At, Sane
  <2>1. CASE End(r, "error")
    BY <2>0, <2>1, EndQuiet DEF Results
  <2>2. CASE \E s \in {"tag", "remember"} :
               op' = [op EXCEPT ![r].pairs = {}, ![r].ask = "one", ![r].pc = s] /\ UNCHANGED slot
    <3>1. PICK s \in {"tag", "remember"} :
               op' = [op EXCEPT ![r].pairs = {}, ![r].ask = "one", ![r].pc = s] /\ UNCHANGED slot
      BY <2>2
    <3> DEFINE o == [op[r] EXCEPT !.pairs = {}, !.ask = "one", !.pc = s]
    <3>2. s \in Steps
      BY DEF Steps
    <3>3. /\ o \in Requests /\ o.pc = s /\ o.an = op[r].an /\ o.held = op[r].held
          /\ o.kind = op[r].kind /\ o.name = op[r].name /\ o.next = op[r].next /\ o.how = op[r].how
      BY <1>0, <3>2 DEF Requests
    <3>4. Sane(o)
      BY <1>0, <2>0, <3>3 DEF Sane
    <3>5. op' = [op EXCEPT ![r] = o]
      BY <1>0, <3>1
    <3> QED BY <2>0, <3>1, <3>3, <3>4, <3>5 DEF Quiet, Moves
  <2>3. AdoptListed(r) =>
          \/ End(r, "error")
          \/ \E s \in {"tag", "remember"} :
               op' = [op EXCEPT ![r].pairs = {}, ![r].ask = "one", ![r].pc = s] /\ UNCHANGED slot
    BY DEF AdoptListed
  <2> QED BY <1>4, <2>1, <2>2, <2>3
<1>5. CASE Tagging(r)
  <2>0. op[r].pc = "tag" /\ UNCHANGED <<known, file, tmp, saver>>
    BY <1>5 DEF Tagging, At
  <2>1. CASE End(r, "error")
    BY <2>0, <2>1, EndQuiet DEF Results
  <2>2. CASE Goto(r, "remember")
    BY <2>0, <2>2, GotoChange
  <2> QED BY <1>5, <2>1, <2>2 DEF Tagging
<1>6. CASE Remember(r)
  BY <1>6, <1>0, KnownNextQuiet DEF Remember, Sane, At
<1>7. CASE Park(r)
  <2>0. op[r].pc = "park" /\ UNCHANGED <<known, file, tmp, saver, slot>>
    BY <1>7 DEF Park, At
  <2>1. CASE \E s \in Spares[op[r].name] : op' = [op EXCEPT ![r].spare = s, ![r].pc = "rename"]
    <3>1. PICK s \in Spares[op[r].name] : op' = [op EXCEPT ![r].spare = s, ![r].pc = "rename"]
      BY <2>1
    <3> DEFINE o == [op[r] EXCEPT !.spare = s, !.pc = "rename"]
    <3>2. s \in ArrayNames /\ "rename" \in Steps
      BY <1>0, <2>0, ArrayNamesIn DEF Steps, Sane
    <3>3. /\ o \in Requests /\ o.pc = "rename" /\ o.an = op[r].an /\ o.held = op[r].held
          /\ o.kind = op[r].kind /\ o.name = op[r].name /\ o.next = op[r].next /\ o.how = op[r].how /\ o.spare = s
      BY <1>0, <3>2 DEF Requests
    <3>4. Sane(o)
      BY <1>0, <2>0, <3>2, <3>3 DEF Sane
    <3>5. op' = [op EXCEPT ![r] = o]
      BY <1>0, <3>1
    <3> QED BY <2>0, <3>3, <3>4, <3>5 DEF Quiet, Moves
  <2>2. CASE op' = [op EXCEPT ![r].pc = "destroy"]
    <3>1. Goto(r, "destroy")
      BY <2>0, <2>2 DEF Goto
    <3> QED BY <2>0, <3>1, GotoChange
  <2> QED BY <1>7, <2>1, <2>2 DEF Park
<1>8. CASE Rename(r)
  <2>0. /\ op[r].pc = "rename" /\ op[r].an \in ArrayNames /\ op[r].spare \in ArrayNames
        /\ UNCHANGED <<known, file, tmp, saver, slot>>
    BY <1>0, <1>8 DEF Rename, At, Sane
  <2>1. PICK a \in {op[r].an, op[r].spare} :
          op' = [op EXCEPT ![r].an = a, ![r].spare = None, ![r].pc = "destroy"]
    <3>1. [op EXCEPT ![r].an = op[r].an, ![r].spare = None, ![r].pc = "destroy"]
            = [op EXCEPT ![r].spare = None, ![r].pc = "destroy"]
      BY <1>0 DEF Requests
    <3> QED BY <1>8, <3>1 DEF Rename
  <2> DEFINE o == [op[r] EXCEPT !.an = a, !.spare = None, !.pc = "destroy"]
  <2>2. a \in ArrayNames /\ "destroy" \in Steps
    BY <2>0 DEF Steps
  <2>3. /\ o \in Requests /\ o.pc = "destroy" /\ o.an = a /\ o.held = op[r].held
        /\ o.kind = op[r].kind /\ o.name = op[r].name /\ o.next = op[r].next /\ o.how = op[r].how
    BY <1>0, <2>2 DEF Requests
  <2>4. Sane(o)
    BY <1>0, <2>0, <2>2, <2>3 DEF Sane
  <2>5. op' = [op EXCEPT ![r] = o]
    BY <1>0, <2>1
  <2> QED BY <2>0, <2>3, <2>4, <2>5 DEF Quiet, Moves
<1>9. CASE Destroy(r)
  <2>0. op[r].pc = "destroy" /\ UNCHANGED <<known, file, tmp, saver>>
    BY <1>9 DEF Destroy, At
  <2>1. CASE End(r, "error")
    BY <2>0, <2>1, EndQuiet DEF Results
  <2>2. CASE \E s \in {"eradicate", "forget"} : Goto(r, s)
    BY <2>0, <2>2, GotoChange
  <2> QED BY <1>9, <2>1, <2>2 DEF Destroy
<1>10. CASE Eradicate(r)
  <2>0. op[r].pc = "eradicate" /\ UNCHANGED <<known, file, tmp, saver>>
    BY <1>10 DEF Eradicate, At
  <2>1. CASE End(r, "error")
    BY <2>0, <2>1, EndQuiet DEF Results
  <2>2. CASE Goto(r, "forget")
    BY <2>0, <2>2, GotoChange
  <2> QED BY <1>10, <2>1, <2>2 DEF Eradicate
<1>11. CASE Forget(r)
  BY <1>11, <1>0, KnownNextQuiet DEF Forget, Sane, At
<1> QED BY <1>1, <1>2, <1>3, <1>4, <1>5, <1>6, <1>7, <1>8, <1>9, <1>10, <1>11 DEF Change

LEMMA Continued ==
    ASSUME NEW o \in Requests, NEW to \in Steps,
           NEW put \in [DockerNames -> ArrayNames \union {None}]
    PROVE  [o EXCEPT !.pc = to, !.put = put, !.next = "done"] \in Requests
<1>1. [o EXCEPT !.pc = to, !.put = put] \in Requests
  BY DEF Requests
<1>2. \A q \in Requests : [q EXCEPT !.next = "done"] \in Requests
  BY DEF Requests
<1> QED BY <1>1, <1>2

\* What follows once the known names are saved, or were right.
LEMMA ContinueMoves ==
    ASSUME IInv, NEW r \in Reqs, op[r].pc \in {"replace", "known", "write"}, Continue(r)
    PROVE  \E o : Moves(r, o) /\ o.pc \notin {"save", "write"}
<1>0. op[r] \in Requests /\ Sane(op[r]) /\ op \in [Reqs -> Requests]
  BY ReqOf
<1>1. CASE End(r, "ok")
  <2> DEFINE o == [NoRequest EXCEPT !.result = "ok"]
  <2>1. o \in Requests /\ o.pc = "done" /\ o.held = None /\ o.kind = "none" /\ o.next = "done"
    BY DEF Requests, NoRequest, NoNames, Steps
  <2>2. Sane(o)
    BY <2>1 DEF Sane
  <2> QED BY <1>1, <2>1, <2>2 DEF Moves, End
<1>2. CASE /\ op[r].next # "done" /\ UNCHANGED slot
           /\ op' = [op EXCEPT ![r].pc = op[r].next, ![r].put = NoNames, ![r].next = "done"]
  <2> DEFINE to == op[r].next
             put == NoNames
             o == [op[r] EXCEPT !.pc = to, !.put = put, !.next = "done"]
  <2>1. /\ to \in {"lock", "fetch"} /\ to \in Steps
        /\ put \in [DockerNames -> ArrayNames \union {None}]
    BY <1>0, <1>2 DEF Steps, Requests, NoNames
  <2>2. op' = [op EXCEPT ![r] = o]
    BY <1>0, <1>2
  <2>3. op[r].an \in ArrayNames /\ op[r].held = None /\ op[r].name \in DockerNames
    BY <1>0, <1>2 DEF Sane
  <2> HIDE DEF to, put
  <2>4. o \in Requests
    BY <1>0, <2>1, Continued
  <2>6. /\ o.pc = to /\ o.an = op[r].an /\ o.held = op[r].held
        /\ o.kind = op[r].kind /\ o.name = op[r].name /\ o.next = "done" /\ o.how = op[r].how
    BY <1>0, <2>1 DEF Requests
  <2>5. Sane(o)
    BY <1>0, <2>1, <2>3, <2>6 DEF Sane
  <2> QED BY <1>2, <2>1, <2>2, <2>4, <2>5, <2>6 DEF Moves
<1> QED BY <1>1, <1>2 DEF Continue

\* The steps by which List and the other requests come to what is known.
LEMMA NoteQuiet ==
    ASSUME IInv, NEW r \in Reqs, Listed(r) \/ ReplaceKnown(r) \/ SetKnown(r)
    PROVE  \E o : Quiet(r, o)
<1>0. op[r] \in Requests /\ Sane(op[r]) /\ op \in [Reqs -> Requests] /\ h(r) \in Hosts
  BY ReqOf
<1>1. CASE Listed(r)
  <2>0. /\ op[r].pc = "answer" /\ op[r].kind = "list" /\ op[r].held = None
        /\ UNCHANGED <<known, file, tmp, saver, slot>>
    BY <1>0, <1>1 DEF Listed, At, Sane
  <2>1. PICK byName \in [DockerNames -> ArrayNames \union {None}] :
          op' = [op EXCEPT ![r].put = byName, ![r].pairs = {}, ![r].pc = "replace"]
    BY <1>1 DEF Listed
  <2> DEFINE o == [op[r] EXCEPT !.put = byName, !.pairs = {}, !.pc = "replace"]
  <2>2. "replace" \in Steps
    BY DEF Steps
  <2>3. /\ o \in Requests /\ o.pc = "replace" /\ o.an = op[r].an /\ o.held = op[r].held
        /\ o.kind = op[r].kind /\ o.name = op[r].name /\ o.next = op[r].next
    BY <1>0, <2>2 DEF Requests
  <2>4. Sane(o)
    BY <1>0, <2>0, <2>3 DEF Sane
  <2>5. op' = [op EXCEPT ![r] = o]
    BY <1>0, <2>1
  <2> QED BY <2>0, <2>3, <2>4, <2>5 DEF Quiet, Moves
<1>2. CASE ReplaceKnown(r) \/ SetKnown(r)
  <2>0. /\ op[r].pc \in {"replace", "known"} /\ UNCHANGED <<file, tmp, saver>>
        /\ \A x \in Hosts : x # h(r) => known'[x] = known[x]
    BY <1>2 DEF ReplaceKnown, SetKnown, At, IInv, TypeOK
  <2>1. CASE Continue(r) /\ known' = known
    BY <2>0, <2>1, ContinueMoves DEF Quiet
  <2>2. CASE Goto(r, "save")
    <3> DEFINE o == [op[r] EXCEPT !.pc = "save"]
    <3>1. Sane(o)
      BY <1>0, <2>0 DEF Sane, Requests
    <3> QED BY <2>0, <2>2, <3>1, GotoQuiet DEF Steps
  <2>3. known[h(r)] \in [DockerNames -> ArrayNames \union {None}] /\ known \in [Hosts -> [DockerNames -> ArrayNames \union {None}]]
    BY <1>0 DEF IInv, TypeOK
  <2>4. CASE ReplaceKnown(r)
    BY <2>1, <2>2, <2>3, <2>4 DEF ReplaceKnown
  <2>5. CASE SetKnown(r)
    BY <2>1, <2>2, <2>3, <2>5 DEF SetKnown
  <2> QED BY <1>2, <2>4, <2>5
<1> QED BY <1>1, <1>2

LEMMA BeginQuiet ==
    ASSUME IInv, NEW r \in Reqs, Begin(r)
    PROVE  \E o : Quiet(r, o)
<1>0. op[r] \in Requests /\ Sane(op[r]) /\ op \in [Reqs -> Requests]
  BY ReqOf
<1>1. PICK k \in Kinds[r], n \in DockerNames, a \in Imports \union {None} :
        /\ (k = "import") = (a # None)
        /\ op' = [op EXCEPT ![r] = Asked(k, n, a)]
  BY DEF Begin
<1> DEFINE to == CASE k = "list" -> "tags" [] k = "import" -> "lock" [] OTHER -> "resolve"
           ask == IF k = "list" THEN "all" ELSE "one"
           o == [NoRequest EXCEPT !.kind = k, !.name = n, !.an = a, !.pc = to, !.ask = ask]
<1>2. /\ k \in {"create", "import", "remove", "get", "list", "mount"}
      /\ a \in ArrayNames \union {None}
  BY NamesAssumption, ArrayNamesIn
<1>3. /\ to \in Steps /\ to \in {"tags", "lock", "resolve"} /\ ask \in {"one", "all"}
      /\ (to = "lock") = (k = "import")
  BY <1>2 DEF Steps
<1>4. op' = [op EXCEPT ![r] = o]
  BY <1>1 DEF Asked
<1> HIDE DEF to, ask
<1>5. NoNames \in [DockerNames -> ArrayNames \union {None}]
  BY DEF NoNames
<1>6. /\ o \in Requests /\ o.kind = k /\ o.name = n /\ o.an = a /\ o.pc = to
      /\ o.held = None /\ o.next = "done" /\ o.how = "fresh"
  <2>1. k \in {"none", "create", "import", "remove", "get", "list", "mount"} /\ to \in Steps
        /\ a \in ArrayNames \union {None} /\ ask \in {"one", "all"}
        /\ n \in DockerNames \union {None}
    BY <1>2, <1>3
  <2>2. o \in Requests
    BY <1>5, <2>1 DEF NoRequest, Requests
  <2>3. /\ o.kind = k /\ o.name = n /\ o.an = a /\ o.pc = to
        /\ o.held = None /\ o.next = "done" /\ o.how = "fresh"
    BY DEF NoRequest
  <2> QED BY <2>2, <2>3
<1>7. Sane(o)
  BY <1>1, <1>2, <1>3, <1>6 DEF Sane
<1>8. op[r].pc = "done" /\ op[r].held = None /\ UNCHANGED <<known, file, tmp, saver, slot>>
  BY <1>0 DEF Begin, At, Sane, hostVars
<1> QED BY <1>3, <1>4, <1>6, <1>7, <1>8 DEF Quiet, Moves

LEMMA FailQuiet ==
    ASSUME IInv, NEW r \in Reqs, GiveUp(r) \/ CallFails(r)
    PROVE  \E o : Quiet(r, o)
<1>1. op[r].pc \notin {"save", "write"} /\ UNCHANGED <<known, file, tmp, saver>>
  BY DEF GiveUp, CallFails, hostVars
<1>2. PICK result \in Results : End(r, result)
  BY DEF GiveUp, CallFails, OutageAnswer, Results
<1> QED BY <1>1, <1>2, EndQuiet

-----------------------------------------------------------------------------
(* The steps that take a lock, save the file, or start a host anew. *)

\* What every variable but the history is, and what holds of the requests.
Kept ==
    /\ op \in [Reqs -> Requests] /\ slot \in [Hosts -> [ArrayNames -> BOOLEAN]]
    /\ (\A q \in Reqs : Sane(op[q])) /\ LocksOwned /\ FileKept

\* The lock was free, so nobody had it.
LEMMA LockStep ==
    ASSUME IInv, NEW r \in Reqs, Lock(r)
    PROVE  Kept'
<1>0. op[r] \in Requests /\ Sane(op[r]) /\ op \in [Reqs -> Requests] /\ h(r) \in Hosts
  BY ReqOf
<1> DEFINE a == op[r].an
           to == IF op[r].pc = "lock" THEN "fetch" ELSE "create"
           o == [op[r] EXCEPT !.held = a, !.pc = to]
<1>1. /\ a \in ArrayNames /\ op[r].held = None /\ op[r].pc \in {"lock", "relock"}
      /\ to \in Steps /\ to \in {"fetch", "create"} /\ ~slot[h(r)][a]
      /\ slot' = [slot EXCEPT ![h(r)][a] = TRUE] /\ UNCHANGED <<known, file, tmp, saver>>
  BY <1>0 DEF Lock, Sane, Steps, hostVars
<1>2. op' = [op EXCEPT ![r] = o]
  BY <1>0 DEF Lock
<1> HIDE DEF to
<1>3. /\ o \in Requests /\ o.held = a /\ o.pc = to /\ o.an = a
      /\ o.kind = op[r].kind /\ o.name = op[r].name /\ o.next = op[r].next /\ o.how = op[r].how
  <2>1. o \in Requests
    <3>1. op[r] \in Requests /\ a \in ArrayNames /\ to \in Steps
      BY <1>0, <1>1
    <3> HIDE DEF a
    <3> QED BY <3>1 DEF Requests
  <2>2. /\ o.held = a /\ o.pc = to /\ o.an = a /\ o.kind = op[r].kind
        /\ o.name = op[r].name /\ o.next = op[r].next /\ o.how = op[r].how
    BY <1>0 DEF Requests
  <2> QED BY <2>1, <2>2
<1>4. Sane(o)
  BY <1>0, <1>1, <1>3 DEF Sane
<1>5. op' \in [Reqs -> Requests] /\ op'[r] = o /\ \A q \in Reqs \ {r} : op'[q] = op[q]
  BY <1>2, <1>3, Moved DEF IInv
<1> HIDE DEF a, o
<1>6. slot \in [Hosts -> [ArrayNames -> BOOLEAN]]
  BY DEF IInv, TypeOK
<1>7. \A x \in Hosts, b \in ArrayNames : slot'[x][b] = (slot[x][b] \/ (x = h(r) /\ b = a))
  BY <1>0, <1>1, <1>6
<1>8. slot' \in [Hosts -> [ArrayNames -> BOOLEAN]]
  BY <1>0, <1>1, <1>6
<1>9. \A q \in Reqs : op[q].held \in ArrayNames \union {None} /\ h(q) \in Hosts
  BY HostOfReq DEF IInv, TypeOK, Requests
<1>10. \A q \in Reqs \ {r} : ~(h(q) = h(r) /\ op[q].held = a)
  BY <1>1, ArrayNamesIn DEF IInv, LocksOwned
<1>11. LocksOwned'
  <2>1. \A q \in Reqs : op'[q].held # None => slot'[h(q)][op'[q].held]
    <3> SUFFICES ASSUME NEW q \in Reqs, op'[q].held # None PROVE slot'[h(q)][op'[q].held]
      OBVIOUS
    <3>1. CASE q = r
      BY <3>1, <1>0, <1>1, <1>3, <1>5, <1>7
    <3>2. CASE q # r
      <4>1. op'[q].held = op[q].held /\ op[q].held \in ArrayNames /\ h(q) \in Hosts
        BY <3>2, <1>5, <1>9
      <4>2. slot[h(q)][op[q].held]
        BY <4>1, ArrayNamesIn DEF IInv, LocksOwned
      <4> QED BY <4>1, <4>2, <1>7
    <3> QED BY <3>1, <3>2
  <2>2. \A p, q \in Reqs :
          h(p) = h(q) /\ op'[p].held = op'[q].held /\ op'[q].held # None => p = q
    BY <1>3, <1>5, <1>10 DEF IInv, LocksOwned
  <2>3. \A x \in Hosts, b \in ArrayNames :
          slot'[x][b] => \E q \in Reqs : h(q) = x /\ op'[q].held = b
    <3> SUFFICES ASSUME NEW x \in Hosts, NEW b \in ArrayNames, slot'[x][b]
                 PROVE  \E q \in Reqs : h(q) = x /\ op'[q].held = b
      OBVIOUS
    <3>1. CASE x = h(r) /\ b = a
      BY <3>1, <1>3, <1>5
    <3>2. CASE ~(x = h(r) /\ b = a)
      <4>1. PICK q \in Reqs : h(q) = x /\ op[q].held = b
        BY <3>2, <1>7 DEF IInv, LocksOwned
      <4>2. q # r
        BY <4>1, <1>1, ArrayNamesIn
      <4> QED BY <4>1, <4>2, <1>5
    <3> QED BY <3>1, <3>2
  <2> QED BY <2>1, <2>2, <2>3 DEF LocksOwned, h
<1>12. FileKept'
  <2>1. \A q \in Reqs :
           /\ (op'[q].pc = "write" => op[q].pc = "write") /\ (op[q].pc = "write" => op'[q].pc = "write")
           /\ (op[q].pc = "save" => op'[q].pc = "save")
    BY <1>1, <1>3, <1>5
  <2>2. \A x \in Hosts : saver[x] # None => saver[x] \in Reqs
    BY DEF IInv, TypeOK
  <2>3. \A q \in Reqs : op'[q].pc = "write" => saver[h(q)] = q
    BY <2>1 DEF IInv, FileKept, At
  <2>4. \A x \in Hosts : saver[x] # None => h(saver[x]) = x /\ op'[saver[x]].pc = "write"
    BY <2>1, <2>2 DEF IInv, FileKept, At
  <2>5. \A x \in Hosts : (\A q \in Reqs : h(q) = x => op'[q].pc # "save") =>
          known[x] = IF saver[x] = None THEN file[x] ELSE tmp[x]
    BY <2>1 DEF IInv, FileKept, At
  <2> QED BY <1>1, <2>3, <2>4, <2>5 DEF FileKept, At, h
<1> QED BY <1>4, <1>5, <1>8, <1>11, <1>12 DEF Kept, IInv

\* One save at a time writes what is known when it begins.
LEMMA SaveBeginStep ==
    ASSUME IInv, NEW r \in Reqs, SaveBegin(r)
    PROVE  Kept'
<1>0. op[r] \in Requests /\ Sane(op[r]) /\ op \in [Reqs -> Requests] /\ h(r) \in Hosts
  BY ReqOf
<1> DEFINE o == [op[r] EXCEPT !.pc = "write"]
<1>1. /\ op[r].pc = "save" /\ saver[h(r)] = None /\ UNCHANGED <<known, file, slot>>
      /\ saver' = [saver EXCEPT ![h(r)] = r] /\ tmp' = [tmp EXCEPT ![h(r)] = known[h(r)]]
      /\ op' = [op EXCEPT ![r] = o] /\ "write" \in Steps
  BY <1>0 DEF SaveBegin, At, Goto, Steps
<1>2. /\ o \in Requests /\ o.held = op[r].held /\ o.pc = "write" /\ o.an = op[r].an
      /\ o.kind = op[r].kind /\ o.name = op[r].name /\ o.next = op[r].next /\ o.how = op[r].how
  <2>1. o \in Requests
    <3>1. op[r] \in Requests /\ "write" \in Steps
      BY <1>0 DEF Steps
    <3> QED BY <3>1 DEF Requests
  <2>2. /\ o.held = op[r].held /\ o.pc = "write" /\ o.an = op[r].an /\ o.kind = op[r].kind
        /\ o.name = op[r].name /\ o.next = op[r].next /\ o.how = op[r].how
    BY <1>0 DEF Requests
  <2> QED BY <2>1, <2>2
<1>3. Sane(o)
  BY <1>0, <1>1, <1>2 DEF Sane
<1>4. Moves(r, o)
  BY <1>1, <1>2, <1>3 DEF Moves
<1>5. op' \in [Reqs -> Requests] /\ op'[r] = o /\ \A q \in Reqs \ {r} : op'[q] = op[q]
  BY <1>1, <1>2, Moved DEF IInv
<1>6. \A q \in Reqs \ {r} :
         /\ (op'[q].pc = "write" => op[q].pc = "write") /\ (op[q].pc = "write" => op'[q].pc = "write")
         /\ (op[q].pc = "save" => op'[q].pc = "save")
  BY <1>5
<1>7. /\ saver'[h(r)] = r /\ tmp'[h(r)] = known[h(r)]
      /\ \A x \in Hosts \ {h(r)} : saver'[x] = saver[x] /\ tmp'[x] = tmp[x]
      /\ \A x \in Hosts : saver[x] # None => saver[x] \in Reqs
  BY <1>0, <1>1 DEF IInv, TypeOK
<1>8. \A q \in Reqs : op[q].pc = "write" => h(q) # h(r) /\ saver[h(q)] = q
  BY <1>1, ArrayNamesIn DEF IInv, FileKept, At
<1>9. \A q \in Reqs : op'[q].pc = "write" => saver'[h(q)] = q
  <2> SUFFICES ASSUME NEW q \in Reqs, op'[q].pc = "write" PROVE saver'[h(q)] = q
    OBVIOUS
  <2>1. CASE q = r
    BY <2>1, <1>7
  <2>2. CASE q # r
    BY <2>2, <1>6, <1>7, <1>8, HostOfReq
  <2> QED BY <2>1, <2>2
<1>11. ASSUME NEW x \in Hosts, \A q \in Reqs : h(q) = x => op'[q].pc # "save"
       PROVE  known[x] = IF saver'[x] = None THEN file[x] ELSE tmp'[x]
  <2>1. CASE x = h(r)
    BY <2>1, <1>7, ArrayNamesIn
  <2>2. CASE x # h(r)
    <3>1. \A q \in Reqs : h(q) = x => op[q].pc # "save"
      BY <2>2, <1>6, <1>11
    <3>2. known[x] = IF saver[x] = None THEN file[x] ELSE tmp[x]
      BY <3>1 DEF IInv, FileKept, At
    <3> QED BY <2>2, <3>2, <1>7
  <2> QED BY <2>1, <2>2
<1>12. \A x \in Hosts : saver'[x] # None => h(saver'[x]) = x /\ op'[saver'[x]].pc = "write"
  <2> SUFFICES ASSUME NEW x \in Hosts, saver'[x] # None
               PROVE  h(saver'[x]) = x /\ op'[saver'[x]].pc = "write"
    OBVIOUS
  <2>1. CASE x = h(r)
    BY <2>1, <1>2, <1>5, <1>7
  <2>2. CASE x # h(r)
    <3>1. saver'[x] = saver[x] /\ saver[x] \in Reqs /\ h(saver[x]) = x
          /\ op[saver[x]].pc = "write"
      BY <2>2, <1>7 DEF IInv, FileKept, At
    <3> QED BY <3>1, <1>1, <1>6
  <2> QED BY <2>1, <2>2
<1>13. FileKept'
  BY <1>1, <1>9, <1>11, <1>12 DEF FileKept, At, h
<1> QED BY <1>3, <1>4, <1>5, <1>13, MoveLocks DEF Kept, IInv

\* A save that ends leaves in the file what was known when it began.
LEMMA SaveEndStep ==
    ASSUME IInv, NEW r \in Reqs, SaveEnd(r)
    PROVE  Kept'
<1>0. op[r] \in Requests /\ Sane(op[r]) /\ op \in [Reqs -> Requests] /\ h(r) \in Hosts
  BY ReqOf
<1>1. /\ op[r].pc = "write" /\ Continue(r) /\ UNCHANGED known
      /\ file' = [file EXCEPT ![h(r)] = tmp[h(r)]]
      /\ saver' = [saver EXCEPT ![h(r)] = None] /\ tmp' = [tmp EXCEPT ![h(r)] = NoNames]
  BY DEF SaveEnd, At
<1>2. PICK o : Moves(r, o) /\ o.pc \notin {"save", "write"}
  BY <1>1, ContinueMoves
<1>3. op' \in [Reqs -> Requests] /\ op'[r] = o /\ \A q \in Reqs \ {r} : op'[q] = op[q]
  BY <1>2, Moved DEF IInv, Moves
<1>4. \A q \in Reqs : Sane(op'[q])
  BY <1>2, <1>3 DEF IInv, Moves
<1>5. /\ file'[h(r)] = tmp[h(r)] /\ saver'[h(r)] = None
      /\ \A x \in Hosts \ {h(r)} : /\ file'[x] = file[x] /\ saver'[x] = saver[x]
                                  /\ tmp'[x] = tmp[x]
      /\ \A x \in Hosts : saver[x] # None => saver[x] \in Reqs
  BY <1>0, <1>1 DEF IInv, TypeOK
<1>6. \A q \in Reqs : op[q].pc = "write" => saver[h(q)] = q
  BY DEF IInv, FileKept, At
<1>7. \A q \in Reqs : op'[q].pc = "write" => q # r /\ op[q].pc = "write" /\ h(q) # h(r)
  BY <1>1, <1>2, <1>3, <1>6
<1>8. \A q \in Reqs : op'[q].pc = "write" => saver'[h(q)] = q
  BY <1>5, <1>6, <1>7, HostOfReq
<1>9. \A x \in Hosts : saver'[x] # None => h(saver'[x]) = x /\ op'[saver'[x]].pc = "write"
  <2> SUFFICES ASSUME NEW x \in Hosts, saver'[x] # None
               PROVE  h(saver'[x]) = x /\ op'[saver'[x]].pc = "write"
    OBVIOUS
  <2>1. x # h(r) /\ saver'[x] = saver[x] /\ saver[x] \in Reqs
    BY <1>5
  <2>2. h(saver[x]) = x /\ op[saver[x]].pc = "write"
    BY <2>1 DEF IInv, FileKept, At
  <2> QED BY <2>1, <2>2, <1>3
<1>10. ASSUME NEW x \in Hosts, \A q \in Reqs : h(q) = x => op'[q].pc # "save"
       PROVE  known[x] = IF saver'[x] = None THEN file'[x] ELSE tmp'[x]
  <2>1. \A q \in Reqs : h(q) = x => op[q].pc # "save"
    BY <1>1, <1>3, <1>10
  <2>2. known[x] = IF saver[x] = None THEN file[x] ELSE tmp[x]
    BY <2>1 DEF IInv, FileKept, At
  <2>3. saver[h(r)] # None
    BY <1>1, <1>6, ArrayNamesIn
  <2> QED BY <2>2, <2>3, <1>5
<1>11. FileKept'
  BY <1>1, <1>8, <1>9, <1>10 DEF FileKept, At, h
<1> QED BY <1>2, <1>3, <1>4, <1>11, MoveLocks DEF Kept, IInv

\* A host that starts anew has no request and no lock, and knows what its file holds
\* and what it found mounted, which the file holds too.
LEMMA RestartStep ==
    ASSUME IInv, NEW x \in Hosts, Restart(x)
    PROVE  Kept'
<1>1. /\ op' = [r \in Reqs |-> IF h(r) = x THEN NoRequest ELSE op[r]]
      /\ known' = [known EXCEPT ![x] = file'[x]] /\ tmp' = [tmp EXCEPT ![x] = NoNames]
      /\ saver' = [saver EXCEPT ![x] = None]
      /\ slot' = [slot EXCEPT ![x] = [a \in ArrayNames |-> FALSE]]
  BY DEF Restart
<1>0. PICK now : file' = [file EXCEPT ![x] = now]
  BY DEF Restart
<1>2. NoRequest \in Requests /\ NoRequest.held = None /\ NoRequest.pc = "done" /\ Sane(NoRequest)
  BY DEF NoRequest, Requests, NoNames, Steps, Sane
<1>3. /\ op \in [Reqs -> Requests] /\ slot \in [Hosts -> [ArrayNames -> BOOLEAN]]
      /\ \A q \in Reqs : op[q].held \in ArrayNames \union {None} /\ h(q) \in Hosts
  BY HostOfReq DEF IInv, TypeOK, Requests
<1>4. \A q \in Reqs : IF h(q) = x THEN op'[q] = NoRequest ELSE op'[q] = op[q]
  BY <1>1
<1>5. op' \in [Reqs -> Requests] /\ slot' \in [Hosts -> [ArrayNames -> BOOLEAN]]
  BY <1>1, <1>2, <1>3
<1>6. \A q \in Reqs : Sane(op'[q])
  BY <1>2, <1>4 DEF IInv
<1>7. /\ \A a \in ArrayNames : ~slot'[x][a]
      /\ \A y \in Hosts \ {x} : slot'[y] = slot[y]
  BY <1>1, <1>3
<1>8. LocksOwned'
  <2>1. \A q \in Reqs : op'[q].held # None => h(q) # x /\ op'[q] = op[q]
    BY <1>2, <1>4
  <2>2. \A q \in Reqs : op'[q].held # None => slot'[h(q)][op'[q].held]
    BY <2>1, <1>3, <1>7 DEF IInv, LocksOwned
  <2>3. \A p, q \in Reqs :
          h(p) = h(q) /\ op'[p].held = op'[q].held /\ op'[q].held # None => p = q
    BY <2>1 DEF IInv, LocksOwned
  <2>4. \A y \in Hosts, a \in ArrayNames :
          slot'[y][a] => \E q \in Reqs : h(q) = y /\ op'[q].held = a
    <3> SUFFICES ASSUME NEW y \in Hosts, NEW a \in ArrayNames, slot'[y][a]
                 PROVE  \E q \in Reqs : h(q) = y /\ op'[q].held = a
      OBVIOUS
    <3>1. y # x /\ slot[y][a]
      BY <1>7
    <3>2. PICK q \in Reqs : h(q) = y /\ op[q].held = a
      BY <3>1 DEF IInv, LocksOwned
    <3> QED BY <3>1, <3>2, <1>4
  <2> QED BY <2>2, <2>3, <2>4 DEF LocksOwned, h
<1>9. FileKept'
  <2>1. /\ known'[x] = file'[x] /\ saver'[x] = None
        /\ \A y \in Hosts \ {x} : /\ known'[y] = known[y] /\ saver'[y] = saver[y]
                                 /\ tmp'[y] = tmp[y] /\ file'[y] = file[y]
        /\ \A y \in Hosts : saver[y] # None => saver[y] \in Reqs
    BY <1>0, <1>1 DEF IInv, TypeOK
  <2>2. \A q \in Reqs : op'[q].pc = "write" => saver'[h(q)] = q
    <3> SUFFICES ASSUME NEW q \in Reqs, op'[q].pc = "write" PROVE saver'[h(q)] = q
      OBVIOUS
    <3>1. h(q) # x /\ op[q].pc = "write"
      BY <1>2, <1>4
    <3> QED BY <3>1, <2>1, <1>3 DEF IInv, FileKept, At
  <2>3. \A y \in Hosts : saver'[y] # None => h(saver'[y]) = y /\ op'[saver'[y]].pc = "write"
    <3> SUFFICES ASSUME NEW y \in Hosts, saver'[y] # None
                 PROVE  h(saver'[y]) = y /\ op'[saver'[y]].pc = "write"
      OBVIOUS
    <3>1. y # x /\ saver'[y] = saver[y] /\ saver[y] \in Reqs
      BY <2>1
    <3>2. h(saver[y]) = y /\ op[saver[y]].pc = "write"
      BY <3>1 DEF IInv, FileKept, At
    <3> QED BY <3>1, <3>2, <1>4
  <2>4. ASSUME NEW y \in Hosts, \A q \in Reqs : h(q) = y => op'[q].pc # "save"
        PROVE  known'[y] = IF saver'[y] = None THEN file'[y] ELSE tmp'[y]
    <3>1. CASE y = x
      BY <3>1, <2>1
    <3>2. CASE y # x
      <4>1. \A q \in Reqs : h(q) = y => op[q].pc # "save"
        BY <3>2, <2>4, <1>4
      <4>2. known[y] = IF saver[y] = None THEN file[y] ELSE tmp[y]
        BY <4>1 DEF IInv, FileKept, At
      <4> QED BY <3>2, <4>2, <2>1
    <3> QED BY <3>1, <3>2
  <2> QED BY <1>1, <2>2, <2>3, <2>4 DEF FileKept, At, h
<1> QED BY <1>5, <1>6, <1>8, <1>9 DEF Kept

-----------------------------------------------------------------------------
(* The variables the argument is not about. *)

NameMap == [DockerNames -> ArrayNames \union {None}]

VolState == [state : {"none", "live", "destroyed", "eradicated"}, tag : DockerNames \union {None}]

Data ==
    /\ vol \in [ArrayNames -> VolState]
    /\ names \in [Hosts -> NameMap] /\ known \in [Hosts -> NameMap]
    /\ file \in [Hosts -> NameMap] /\ tmp \in [Hosts -> NameMap]
    /\ saver \in [Hosts -> Reqs \union {None}]

LEMMA DataOf == ASSUME TypeOK PROVE Data
  BY DEF TypeOK, Data, NameMap, VolState

\* A volume changes as a whole or in part.
LEMMA VolTyped ==
    ASSUME Data, NEW a \in ArrayNames, NEW v \in VolState
    PROVE  [vol EXCEPT ![a] = v] \in [ArrayNames -> VolState]
  BY DEF Data

\* What a request's host has cached for its name changes.
LEMMA NamesTyped ==
    ASSUME Data, NEW x \in Hosts, NEW n \in DockerNames, NEW a \in ArrayNames \union {None}
    PROVE  [names EXCEPT ![x][n] = a] \in [Hosts -> NameMap]
<1>1. [names[x] EXCEPT ![n] = a] \in NameMap
  BY DEF Data, NameMap
<1>2. [names EXCEPT ![x][n] = a] = [names EXCEPT ![x] = [names[x] EXCEPT ![n] = a]]
  BY DEF Data, NameMap
<1> HIDE DEF NameMap
<1> QED BY <1>1, <1>2 DEF Data

\* Every step keeps the volumes, the caches and the files well typed.
LEMMA DataStep ==
    ASSUME IInv, NEW r \in Reqs,
           \/ Begin(r) \/ Find(r) \/ Change(r) \/ Note(r)
           \/ Lock(r) \/ SaveBegin(r) \/ GiveUp(r) \/ CallFails(r)
    PROVE  Data'
<1>0. /\ op[r] \in Requests /\ Sane(op[r]) /\ op \in [Reqs -> Requests] /\ h(r) \in Hosts
      /\ Data
  BY ReqOf, DataOf DEF IInv
<1>1. ASSUME UNCHANGED <<vol, hostVars>> PROVE Data'
  BY <1>0, <1>1 DEF Data, hostVars
<1>2. ASSUME UNCHANGED <<vol, known, file, tmp, saver>>, names' \in [Hosts -> NameMap] PROVE Data'
  BY <1>0, <1>2 DEF Data
<1>3. ASSUME UNCHANGED hostVars, vol' \in [ArrayNames -> VolState] PROVE Data'
  BY <1>0, <1>3 DEF Data, hostVars
<1>4. CASE Begin(r) \/ Lock(r) \/ GiveUp(r) \/ CallFails(r)
  BY <1>1, <1>4 DEF Begin, Lock, GiveUp, CallFails
<1>5. CASE Find(r)
  <2>1. CASE Looked(r)
    <3>1. UNCHANGED <<vol, known, file, tmp, saver>> /\ op[r].pc = "answer"
      BY <2>1 DEF Looked, At
    <3>2. UNCHANGED names \/ \E p \in op[r].pairs : names' = [names EXCEPT ![h(r)][op[r].name] = p[1]]
      BY <2>1 DEF Looked
    <3>3. \A p \in op[r].pairs : p[1] \in ArrayNames
      BY <1>0 DEF Requests
    <3>4. op[r].name \in DockerNames
      BY <1>0, <3>1 DEF Sane
    <3>5. names' \in [Hosts -> NameMap]
      BY <1>0, <3>2, <3>3, <3>4, NamesTyped DEF Data
    <3> QED BY <1>2, <3>1, <3>5
  <2>2. CASE ForgetStale(r)
    <3>1. op[r].name \in DockerNames
      BY <1>0, <2>2 DEF Sane, ForgetStale, At
    <3> QED BY <1>0, <1>2, <2>2, <3>1, NamesTyped DEF ForgetStale
  <2>3. CASE ~Looked(r) /\ ~ForgetStale(r)
    <3>1. UNCHANGED <<vol, hostVars>>
      BY <1>5, <2>3 DEF Find, FetchStale, ResolveCached, ResolveMiss, ReadTags, ReadDestroyed, FetchForGet,
                        FetchForMount, FetchForCreate, FetchForImport, FetchForRemove
    <3> QED BY <1>1, <3>1
  <2> QED BY <2>1, <2>2, <2>3
<1>6. CASE Change(r)
  <2>1. CASE Remember(r) \/ Forget(r)
    <3>1. op[r].name \in DockerNames /\ op[r].an \in ArrayNames
      BY <1>0, <2>1 DEF Sane, Remember, Forget, At
    <3>2. CASE Remember(r)
      <4>1. [names EXCEPT ![h(r)][op[r].name] = op[r].an] \in [Hosts -> NameMap]
        BY <1>0, <1>2, <3>1, NamesTyped
      <4>2. names' \in [Hosts -> NameMap] /\ UNCHANGED <<vol, known, file, tmp, saver>>
        BY <3>2, <4>1 DEF Remember
      <4> QED BY <1>2, <4>2
    <3>3. CASE Forget(r)
      <4>1. [names EXCEPT ![h(r)][op[r].name] = None] \in [Hosts -> NameMap]
        BY <1>0, <1>2, <3>1, NamesTyped
      <4>2. names' \in [Hosts -> NameMap] /\ UNCHANGED <<vol, known, file, tmp, saver>>
        BY <3>3, <4>1 DEF Forget
      <4> QED BY <1>2, <4>2
    <3> QED BY <2>1, <3>2, <3>3
  <2>2. CASE FreshName(r) \/ AdoptLooked(r) \/ AdoptListed(r) \/ Park(r)
    BY <1>1, <2>2 DEF FreshName, AdoptLooked, AdoptListed, Park, hostVars
  <2>3. CASE CreateVolume(r) \/ Tagging(r) \/ Rename(r) \/ Destroy(r) \/ Eradicate(r)
    <3>1. /\ op[r].an \in ArrayNames /\ op[r].name \in DockerNames
          /\ Rename(r) => op[r].spare \in ArrayNames
      BY <1>0, <2>3 DEF Sane, CreateVolume, Tagging, Rename, Destroy, Eradicate, At
    <3> DEFINE v == vol[op[r].an]
    <3>2. v \in VolState /\ vol \in [ArrayNames -> VolState]
      BY <1>0, <3>1 DEF Data
    <3>3. /\ [state |-> "live", tag |-> None] \in VolState /\ NoVolume \in VolState
          /\ [state |-> "eradicated", tag |-> None] \in VolState
          /\ [v EXCEPT !.tag = op[r].name] \in VolState
          /\ [v EXCEPT !.state = "destroyed"] \in VolState
      BY <3>1, <3>2 DEF VolState, NoVolume
    <3> HIDE DEF v
    <3>4. ASSUME NEW w, vol' = [vol EXCEPT ![op[r].an] = w], w \in VolState
          PROVE  vol' \in [ArrayNames -> VolState]
      BY <3>1, <3>2, <3>4
    <3>5. CASE CreateVolume(r)
      BY <1>3, <3>2, <3>3, <3>4, <3>5 DEF CreateVolume
    <3>6. CASE Tagging(r)
      <4>1. \/ UNCHANGED vol
            \/ vol' = [vol EXCEPT ![op[r].an] = [v EXCEPT !.tag = op[r].name]]
        BY <3>1, <3>2, <3>6 DEF Tagging, v
      <4> QED BY <1>3, <3>2, <3>3, <3>4, <3>6, <4>1 DEF Tagging
    <3>7. CASE Rename(r)
      <4>1. [vol EXCEPT ![op[r].spare] = v, ![op[r].an] = NoVolume] \in [ArrayNames -> VolState]
        BY <3>1, <3>2, <3>3, <3>7
      <4>2. UNCHANGED vol \/ vol' = [vol EXCEPT ![op[r].spare] = v, ![op[r].an] = NoVolume]
        BY <3>7 DEF Rename, v
      <4> QED BY <1>3, <3>2, <3>7, <4>1, <4>2 DEF Rename
    <3>8. CASE Destroy(r)
      <4>1. \/ UNCHANGED vol
            \/ vol' = [vol EXCEPT ![op[r].an] = [v EXCEPT !.state = "destroyed"]]
        BY <3>1, <3>2, <3>8 DEF Destroy, v
      <4> QED BY <1>3, <3>2, <3>3, <3>4, <3>8, <4>1 DEF Destroy
    <3>9. CASE Eradicate(r)
      BY <1>3, <3>2, <3>3, <3>4, <3>9 DEF Eradicate
    <3> QED BY <2>3, <3>5, <3>6, <3>7, <3>8, <3>9
  <2> QED BY <1>6, <2>1, <2>2, <2>3 DEF Change
<1>7. CASE Listed(r)
  <2>1. PICK byName \in NameMap :
          names' = [names EXCEPT ![h(r)] =
                      [n \in DockerNames |-> IF byName[n] = None THEN names[h(r)][n] ELSE byName[n]]]
    BY <1>0, <1>7 DEF Listed, NameMap
  <2>2. [n \in DockerNames |-> IF byName[n] = None THEN names[h(r)][n] ELSE byName[n]] \in NameMap
    BY <1>0, <2>1 DEF Data, NameMap
  <2>3. names' \in [Hosts -> NameMap]
    BY <1>0, <2>1, <2>2 DEF Data
  <2> QED BY <1>2, <1>7, <2>3 DEF Listed
<1>8. CASE ReplaceKnown(r) \/ SetKnown(r)
  <2>1. op[r].put \in NameMap
    BY <1>0 DEF Requests, NameMap
  <2>2. CASE ReplaceKnown(r)
    BY <1>0, <2>1, <2>2 DEF ReplaceKnown, Data
  <2>3. CASE SetKnown(r)
    <3>1. op[r].name \in DockerNames
      BY <1>0, <2>3 DEF Sane, SetKnown, At
    <3> DEFINE now == [known[h(r)] EXCEPT ![op[r].name] = op[r].put[op[r].name]]
    <3>2. now \in NameMap
      BY <1>0, <2>1, <3>1 DEF Data, NameMap
    <3>3. known' = [known EXCEPT ![h(r)] = now]
      BY <1>0, <2>3 DEF SetKnown, Data, NameMap
    <3> HIDE DEF now
    <3> QED BY <1>0, <2>3, <3>2, <3>3 DEF SetKnown, Data
  <2> QED BY <1>8, <2>2, <2>3
<1>9. CASE SaveBegin(r)
  BY <1>0, <1>9 DEF SaveBegin, Data
<1>10. CASE SaveEnd(r)
  <2>1. NoNames \in NameMap
    BY DEF NoNames, NameMap
  <2> QED BY <1>0, <1>10, <2>1 DEF SaveEnd, Data
<1> QED BY <1>4, <1>5, <1>6, <1>7, <1>8, <1>9, <1>10 DEF Note

\* The history holds names of volumes only.
LEMMA HistoryStep ==
    ASSUME TypeOK, Recorded, op' \in [Reqs -> Requests], \A r \in Reqs : Sane(op'[r])
    PROVE  /\ seen' \in [Reqs -> [there : SUBSET DockerNames, absent : SUBSET DockerNames]]
           /\ misled' \subseteq Reqs /\ muddled' \subseteq DockerNames
<1> DEFINE about(r) == IF op'[r].kind = "list" THEN DockerNames ELSE {op'[r].name}
           asks(r, kinds) == op'[r].kind \in kinds
           there(r) == seen[r].there \union {n \in about(r) :
                            \/ asks(r, {"create", "import", "mount", "list"}) /\ There(r, n)'
                            \/ asks(r, {"list"}) /\ Erased(n)}
           absent(r) == seen[r].absent \union {n \in about(r) :
                            asks(r, {"remove", "get", "mount", "list"}) /\ Absent(r, n)'}
           past(r) == IF op'[r].pc = "done" THEN [there |-> {}, absent |-> {}]
                      ELSE [there |-> there(r), absent |-> absent(r)]
<1>1. ASSUME NEW r \in Reqs PROVE past(r) \in [there : SUBSET DockerNames, absent : SUBSET DockerNames]
  <2>1. CASE op'[r].pc = "done"
    BY <2>1
  <2>2. CASE op'[r].pc # "done"
    <3>1. about(r) \subseteq DockerNames
      BY <2>2 DEF Sane
    <3>2. seen[r].there \subseteq DockerNames /\ seen[r].absent \subseteq DockerNames
      BY DEF TypeOK
    <3> HIDE DEF about, asks
    <3>3. there(r) \subseteq DockerNames
      BY <3>1, <3>2
    <3>4. absent(r) \subseteq DockerNames
      BY <3>1, <3>2
    <3> HIDE DEF there, absent
    <3> QED BY <2>2, <3>3, <3>4
  <2> QED BY <2>1, <2>2
<1>2. seen' = [r \in Reqs |-> past(r)]
  BY DEF Recorded
<1>3. misled' \subseteq Reqs /\ muddled' \subseteq DockerNames
  BY DEF Recorded, TypeOK
<1> HIDE DEF past
<1> QED BY <1>1, <1>2, <1>3

-----------------------------------------------------------------------------
(* The theorems. *)

\* A step keeps the invariant once it keeps its parts.
LEMMA Together ==
    ASSUME IInv, Recorded, Kept', Data'
    PROVE  IInv'
<1>1. /\ seen' \in [Reqs -> [there : SUBSET DockerNames, absent : SUBSET DockerNames]]
      /\ misled' \subseteq Reqs /\ muddled' \subseteq DockerNames
  BY HistoryStep DEF IInv, Kept
<1> QED BY <1>1 DEF Kept, Data, NameMap, VolState, IInv, TypeOK

\* Every step of Names keeps the inductive invariant.
THEOREM Step == IInv /\ [Next]_vars => IInv'
<1> SUFFICES ASSUME IInv, [Next]_vars
             PROVE  IInv'
  OBVIOUS
<1>1. ASSUME NEW r \in Reqs, Recorded,
             \/ Begin(r) \/ Find(r) \/ Change(r) \/ Note(r)
             \/ Lock(r) \/ SaveBegin(r) \/ GiveUp(r) \/ CallFails(r)
      PROVE  IInv'
  <2>1. Data'
    BY <1>1, DataStep
  <2>2. Kept'
    <3>1. CASE Lock(r) \/ SaveBegin(r) \/ SaveEnd(r)
      BY <3>1, LockStep, SaveBeginStep, SaveEndStep
    <3>2. CASE ~(Lock(r) \/ SaveBegin(r) \/ SaveEnd(r))
      <4>1. PICK o : Quiet(r, o)
        BY <1>1, <3>2, BeginQuiet, FindQuiet, ChangeQuiet, NoteQuiet, FailQuiet DEF Note
      <4> QED BY <4>1, QuietStep DEF Kept
    <3> QED BY <3>1, <3>2
  <2> QED BY <1>1, <2>1, <2>2, Together
<1>2. ASSUME NEW x \in Hosts, Recorded, Restart(x) PROVE IInv'
  <2>1. Data'
    <3>1. Data /\ NoNames \in NameMap
      BY DataOf DEF IInv, NoNames, NameMap
    <3>2. PICK found \in NameMap :
            /\ names' = [names EXCEPT ![x] = found]
            /\ file' = [file EXCEPT ![x] = [n \in DockerNames |->
                                              IF found[n] = None THEN file[x][n] ELSE found[n]]]
      BY <1>2, <3>1 DEF Restart, Data, NameMap
    <3>3. [n \in DockerNames |-> IF found[n] = None THEN file[x][n] ELSE found[n]] \in NameMap
      BY <3>1, <3>2 DEF Data, NameMap
    <3>4. names' \in [Hosts -> NameMap] /\ file' \in [Hosts -> NameMap] /\ file'[x] \in NameMap
      BY <3>1, <3>2, <3>3 DEF Data
    <3> QED BY <1>2, <3>1, <3>4 DEF Restart, Data
  <2> QED BY <1>2, <2>1, RestartStep, Together
<1>3. ASSUME NEW a \in ArrayNames, Recorded, DestroyedOutside(a) PROVE IInv'
  <2>1. Data
    BY DataOf DEF IInv
  <2>2. vol' = [vol EXCEPT ![a] = [vol[a] EXCEPT !.state = "destroyed"]] /\ UNCHANGED <<hostVars, slot, op>>
    BY <1>3, <2>1 DEF DestroyedOutside, Data, VolState
  <2>3. [vol[a] EXCEPT !.state = "destroyed"] \in VolState
    BY <2>1 DEF Data, VolState
  <2>4. Data'
    BY <2>1, <2>2, <2>3, VolTyped DEF Data, hostVars
  <2>5. Kept'
    BY <2>2 DEF IInv, TypeOK, Kept, LocksOwned, FileKept, At, hostVars, h
  <2> QED BY <1>3, <2>4, <2>5, Together
<1>4. CASE UNCHANGED vars
  BY <1>4 DEF vars, hostVars, history, IInv, TypeOK, LocksOwned, FileKept, At, h
<1> QED BY <1>1, <1>2, <1>3, <1>4 DEF Next

\* The inductive invariant holds in every state.
THEOREM InvariantHolds == Spec => []IInv
<1>1. Init => IInv
  <2> SUFFICES ASSUME Init PROVE IInv
    OBVIOUS
  <2>1. NoRequest \in Requests /\ NoRequest.held = None /\ NoRequest.pc = "done" /\ Sane(NoRequest)
    BY DEF NoRequest, Requests, NoNames, Steps, Sane
  <2>2. \A r \in Reqs : op[r] = NoRequest
    BY DEF Init
  <2>3. TypeOK
    BY <2>1 DEF Init, TypeOK, NoNames, NoVolume
  <2>4. LocksOwned
    BY <2>1, <2>2 DEF Init, LocksOwned
  <2>5. FileKept
    BY <2>1, <2>2 DEF Init, FileKept, At
  <2> QED BY <2>1, <2>2, <2>3, <2>4, <2>5 DEF IInv
<1>2. IInv /\ [Next]_vars => IInv'
  BY Step
<1> QED BY <1>1, <1>2, PTL DEF Spec

\* Every variable keeps its type.
THEOREM TypeCorrect == Spec => []TypeOK
<1>1. IInv => TypeOK
  BY DEF IInv
<1> QED BY <1>1, InvariantHolds, PTL

\* A lock's channel is full exactly while one request has it to give back (lockCtx,
\* resolveLocked, Create).
THEOREM LocksHeldOnce == Spec => []LocksAreHeldOnce
<1>1. IInv => LocksAreHeldOnce
  <2> SUFFICES ASSUME IInv, NEW x \in Hosts, NEW a \in ArrayNames
               PROVE  Cardinality({r \in Reqs : h(r) = x /\ op[r].held = a})
                        = IF slot[x][a] THEN 1 ELSE 0
    BY DEF LocksAreHeldOnce
  <2> DEFINE holders == {r \in Reqs : h(r) = x /\ op[r].held = a}
  <2>1. a # None
    BY ArrayNamesIn
  <2>2. CASE slot[x][a]
    <3>1. PICK r \in Reqs : h(r) = x /\ op[r].held = a
      BY <2>2 DEF IInv, LocksOwned
    <3>2. holders = {r}
      BY <2>1, <3>1 DEF IInv, LocksOwned
    <3> QED BY <2>2, <3>2, FS_Singleton
  <2>3. CASE ~slot[x][a]
    <3>1. holders = {}
      BY <2>1, <2>3 DEF IInv, LocksOwned
    <3> QED BY <2>3, <3>1, FS_EmptySet
  <2> QED BY <2>2, <2>3
<1> QED BY <1>1, InvariantHolds, PTL

\* When no save is due, the file holds what is known (saveKnown).
THEOREM FileHoldsLatest == Spec => []FileIsLatest
<1>1. IInv => FileIsLatest
  <2> SUFFICES ASSUME IInv, NEW x \in Hosts,
                      \A r \in Reqs : h(r) = x => op[r].pc \notin {"save", "write"}
               PROVE  file[x] = known[x]
    BY DEF FileIsLatest
  <2>1. saver[x] = None
    BY DEF IInv, TypeOK, FileKept, At
  <2> QED BY <2>1 DEF IInv, FileKept, At
<1> QED BY <1>1, InvariantHolds, PTL
=============================================================================
