-------------------------- MODULE NamesLead_proofs --------------------------
(***************************************************************************)
(* Names, for every set of hosts, requests and names, and every fault: a   *)
(* name that is not muddled leads to one live volume, and what Docker is   *)
(* told of it was true at some moment of the request, unless the request   *)
(* was misled.                                                             *)
(*                                                                         *)
(* The argument.  A volume that a name once led to and that still has a    *)
(* place in some cache or answer is the name's for good (Its): until it is *)
(* eradicated no other name gets it, or both names are muddled.  Each      *)
(* request needs, step by step, some of what its earlier calls showed it   *)
(* to be true still (Maker for Create and Remove, Importer, Reader,        *)
(* Lister), as long as it can be sure of its name (Sure).  Only one        *)
(* request at a time changes what a name that is not muddled leads to      *)
(* (Sole); what its step does to the volumes is considerate of all others: *)
(* of a name it does not change at most a live volume is destroyed by      *)
(* other means (Leaves), and whoever only reads a name finds what it found *)
(* before, or can say that the name led to none (Gentle).  So a step needs *)
(* a proof only for the request that takes it (the lemmas called ...Fine); *)
(* Advance does the rest.  A request that changes a volume of a name that  *)
(* is not muddled, and does not become so by that step, is sure of it      *)
(* (Sound): that is where the exceptions are used.                         *)
(***************************************************************************)
EXTENDS Names_proofs

\* The array names that a Create of n may give its volume.
Own(n) == {arrayName[n]} \union Spares[n]

NamesApart ==
    /\ \A m, n \in DockerNames : m # n => Own(m) \intersect Own(n) = {}
    /\ \A n \in DockerNames : Own(n) \intersect Imports = {} /\ arrayName[n] \notin Spares[n]

-----------------------------------------------------------------------------
(* The invariant. *)

\* The live volumes a name leads to.
Leads(n) == {a \in ArrayNames : Live(a) /\ (vol[a].tag = n \/ a = arrayName[n])}

\* The volume under a is no other name's, or both names are muddled.
Its(a, n) ==
    \/ a = arrayName[n]
    \/ /\ a \in Spares[n]
       /\ vol[a].tag = n \/ vol[a].state = "eradicated" \/ n \in muddled
    \/ /\ a \in Imports
       /\ \/ vol[a].tag = n \/ vol[a].state = "eradicated"
          \/ {n, vol[a].tag} \subseteq muddled \/ DockerNames \subseteq muddled

VolumesInOrder ==
    /\ \A a \in ArrayNames : vol[a].tag # None => a \in Own(vol[a].tag) \union Imports
    /\ \A a \in ArrayNames : vol[a].state \in {"none", "eradicated"} => vol[a].tag = None
    /\ \A n \in DockerNames \ muddled, a, b \in ArrayNames : a \in Leads(n) /\ b \in Leads(n) => a = b

CacheInOrder ==
    \A x \in Hosts, n \in DockerNames : names[x][n] # None => Its(names[x][n], n)

\* One request at a time changes what a name leads to.
Sole ==
    \A q, r \in Reqs :
        /\ op[q].kind \in Changes /\ op[r].kind \in Changes /\ op[q].name = op[r].name
        /\ op[q].name \notin muddled
        => q = r

About(r) == IF op[r].kind = "list" THEN DockerNames ELSE {op[r].name}

\* The history of a request that runs knows of the present.
SeenNow ==
    \A r \in Reqs : ~At(r, "done") =>
        \A n \in About(r) :
            /\ op[r].kind \in {"create", "import", "mount", "list"} /\ There(r, n) => n \in seen[r].there
            /\ op[r].kind \in {"remove", "get", "mount", "list"} /\ Absent(r, n) => n \in seen[r].absent

\* Bound for, or at, its volume; or noting what the answer will be.
Heading(o) == o.pc \in {"lock", "fetch"} \/ (o.pc \in {"known", "save", "write"} /\ o.next # "done")
Saved(o) == o.pc \in {"known", "save", "write"} /\ o.next = "done"

\* How far a request of each kind gets.
Shape(o) ==
    /\ o.kind = "none" <=> o.pc = "done"
    /\ o.pc \in {"fresh", "relock", "create"} => o.kind = "create"
    /\ o.pc \in {"park", "rename", "destroy", "eradicate", "forget"} => o.kind = "remove"
    /\ o.pc \in {"tag", "remember"} => o.kind \in {"create", "import"}
    /\ o.pc \in {"lock", "fetch", "stale", "known", "resolve"} => o.kind # "list"
    /\ o.pc = "replace" => o.kind = "list"
    /\ o.kind = "list" => o.next = "done" /\ o.ask = "all"
    /\ o.kind \in {"create", "remove", "get", "mount"} => o.ask = "one"
    /\ o.kind = "import" => o.an \in Imports /\ o.next = "done"
    /\ o.kind = "mount" => ~Saved(o)
    /\ o.ask = "one" => \A p \in o.pairs : p[2] = o.name

\* What it found is its name's.
Refs(r) ==
    LET o == op[r] IN
    /\ Heading(o) /\ o.kind # "import" => Its(o.an, o.name)
    /\ o.pc \in {"destroyed", "answer"} => \A p \in o.pairs : Its(p[1], p[2])
    /\ o.pc \in {"relock", "create", "tag"} /\ o.kind = "create" => o.an \in Own(o.name) \/ Its(o.an, o.name)
    /\ o.pc = "remember" => Its(o.an, o.name)
    /\ o.pc \in {"park", "rename"} => o.an = arrayName[o.name]
    /\ o.pc = "rename" => o.spare \in Spares[o.name]
    /\ o.pc \in {"destroy", "eradicate"} => o.an \in Own(o.name) \/ Its(o.an, o.name)

\* Create and Remove know all that the name leads to: the volume they work on,
\* or none.
Maker(r) ==
    LET o == op[r]
        n == o.name
        c == arrayName[n]
    IN o.kind \in {"create", "remove"} =>
        /\ o.pc \in {"destroyed", "answer"} =>
              /\ \A a \in LiveTagged(n) : \E p \in o.pairs : p[1] = a
              /\ \A p \in o.pairs : Present(p[1]) /\ vol[p[1]].tag = n
        /\ o.pc = "answer" => \A p \in o.pairs : Leads(n) \subseteq {p[1]}
        /\ Heading(o) /\ o.how # "cached" => Leads(n) \subseteq {o.an} /\ (o.an = c \/ Present(o.an))
        /\ o.pc \in {"fresh", "relock", "create"} => Leads(n) = {}
        /\ o.pc \in {"relock", "create"} => o.an = c \/ (o.an \in Spares[n] /\ Unused(o.an))
        /\ o.pc = "tag" => Live(o.an) /\ Leads(n) \subseteq {o.an} /\ o.an \in Own(n)
        /\ o.pc \in {"park", "rename", "destroy"} => Leads(n) \subseteq {o.an}
        /\ o.pc = "rename" => Unused(o.spare)
        /\ o.pc = "eradicate" => Leads(n) = {}
        /\ o.kind = "remove" /\ (o.pc \in {"eradicate", "forget"} \/ Saved(o)) => n \in seen[r].absent
        /\ o.kind = "create" /\ Saved(o) => n \in seen[r].there
        /\ o.pc = "remember" => Present(o.an) /\ n \in seen[r].there

\* An import tags its volume when the name has none.
Importer(r) ==
    LET o == op[r]
        n == o.name
        v == vol[o.an]
    IN o.kind = "import" =>
        /\ o.pc \in {"destroyed", "answer"} /\ o.ask = "one" =>
              \A a \in LiveTagged(n) : \E p \in o.pairs : p[1] = a
        /\ o.ask = "all" => LiveTagged(n) \subseteq {o.an}
        /\ o.pc \in {"destroyed", "answer"} /\ o.ask = "all" =>
              /\ Live(o.an) /\ v.tag = n => <<o.an, n>> \in o.pairs
              /\ <<o.an, n>> \in o.pairs => v.tag = n
        /\ o.pc \in {"tags", "destroyed", "answer", "tag", "remember"} /\ v.tag = n => n \in seen[r].there
        /\ o.pc = "tag" => LiveTagged(n) = {}
        /\ o.pc = "remember" => v.tag = n
        /\ Saved(o) => n \in seen[r].there

\* Get and Mount find the volume, unless the name led to none meanwhile.
Reader(r) ==
    LET o == op[r]
        n == o.name
        c == arrayName[n]
    IN o.kind \in {"get", "mount"} /\ n \notin seen[r].absent =>
        /\ Heading(o) /\ o.how # "cached" => Present(o.an)
        /\ o.pc = "destroyed" => \E a \in Leads(n) : a = c \/ <<a, n>> \in o.pairs
        /\ o.pc \in {"destroyed", "answer"} => \A p \in o.pairs : Present(p[1])
        /\ o.pc = "answer" /\ o.pairs = {} => Present(c)

\* List has every name's tag before it asks for the destroyed volumes, and leaves
\* out none but those.
Lister(r) ==
    LET o == op[r] IN
    o.kind = "list" => \A n \in DockerNames \ muddled :
        /\ o.pc = "destroyed" =>
              /\ n \notin seen[r].absent =>
                    \E p \in o.pairs : p[2] = n /\ (p[1] \in LiveTagged(n) \/ Unused(p[1]))
              /\ \A p \in o.pairs : p[2] = n =>
                    n \in seen[r].there \/ (vol[p[1]].state = "destroyed" /\ vol[p[1]].tag = n)
        /\ o.pc = "answer" =>
              /\ n \notin seen[r].absent => \E p \in o.pairs : p[2] = n
              /\ \A p \in o.pairs : p[2] = n => n \in seen[r].there
        /\ o.pc \in {"replace", "save", "write"} =>
              n \in IF o.put[n] = None THEN seen[r].absent ELSE seen[r].there

\* It was told nothing untrue, and its name can be relied on.
Sure(r) == op[r].kind = "list" \/ (op[r].name \notin muddled /\ r \notin misled)

\* What a request needs of the volumes, its caches and its own history.
Fits(r) ==
    /\ Shape(op[r]) /\ Refs(r) /\ Lister(r)
    /\ Sure(r) => Maker(r) /\ Importer(r) /\ Reader(r)

Leading == VolumesInOrder /\ CacheInOrder /\ Sole /\ SeenNow /\ \A r \in Reqs : Fits(r)

-----------------------------------------------------------------------------
(* What a step may do to the volumes of a name. *)

ItsKept == \A a \in ArrayNames, n \in DockerNames : Its(a, n) => Its(a, n)'

\* No volume the name may lead to is lost.
Firm(n) ==
    /\ \A a \in ArrayNames : Its(a, n) /\ Present(a) => Present(a)'
    /\ Leads(n) \subseteq Leads(n)'

\* Who only reads the name either finds what it found before, or can say that
\* the name led to none.
Gentle(n) ==
    /\ Leads(n) = {} \/ Leads(n)' = {} \/ BeingDestroyed(n) \/ BeingDestroyed(n)' \/ Firm(n)
    /\ \/ LiveTagged(n) = {} \/ LiveTagged(n)' = {}
       \/ \A a \in ArrayNames :
             Its(a, n) /\ (a \in LiveTagged(n) \/ Unused(a)) => (a \in LiveTagged(n) \/ Unused(a))'
    /\ \A a \in Tagged(n) : vol[a].state = "destroyed" => vol'[a] = vol[a] \/ Erased(n)

\* A change that another request makes for another name, or that comes from
\* outside: at most a live volume is destroyed.
Leaves(n) ==
    \A a \in ArrayNames :
        \/ vol'[a] = vol[a]
        \/ /\ Live(a) /\ vol'[a].state = "destroyed" /\ vol'[a].tag = vol[a].tag
           /\ \A q \in Reqs : At(q, "tag") => op[q].an # a
        \/ a \notin Own(n) /\ vol[a].tag # n /\ vol'[a].tag # n

\* A step of a request that changes what the names of N lead to.
Considerate(N) ==
    /\ VolumesInOrder' /\ ItsKept
    /\ \A n \in DockerNames \ muddled' : Gentle(n) /\ (n \notin N => Leaves(n))

\* What is muddled stays so.
Growing == muddled \subseteq muddled'

\* The history only grows while a request runs.
Recalled ==
    \A r \in Reqs : op'[r].pc # "done" =>
        /\ seen[r].there \subseteq seen'[r].there /\ seen[r].absent \subseteq seen'[r].absent
        /\ \A n \in DockerNames : op'[r].kind = "list" /\ Erased(n) => n \in seen'[r].there
        /\ r \in misled => r \in misled'

\* What a typed state has in its variables.
LEMMA Types ==
    ASSUME TypeOK
    PROVE  /\ \A a \in ArrayNames : /\ vol[a].state \in {"none", "live", "destroyed", "eradicated"}
                                    /\ vol[a].tag \in DockerNames \union {None}
           /\ \A x \in Hosts, n \in DockerNames : names[x][n] \in ArrayNames \union {None}
           /\ \A r \in Reqs : op[r] \in Requests
  BY DEF TypeOK

\* The history knows of the present after every step, and forgets nothing.
LEMMA SeenStep ==
    ASSUME IInv, IInv', Recorded
    PROVE  SeenNow' /\ Recalled /\ Growing
<1>0. Growing
  BY DEF Recorded, Growing
<1> SUFFICES ASSUME NEW r \in Reqs, op'[r].pc # "done"
             PROVE  /\ \A n \in DockerNames : op'[r].kind = "list" \/ n = op'[r].name =>
                         /\ op'[r].kind \in {"create", "import", "mount", "list"} /\ There(r, n)'
                               => n \in seen'[r].there
                         /\ op'[r].kind \in {"remove", "get", "mount", "list"} /\ Absent(r, n)'
                               => n \in seen'[r].absent
                    /\ seen[r].there \subseteq seen'[r].there /\ seen[r].absent \subseteq seen'[r].absent
                    /\ \A n \in DockerNames : op'[r].kind = "list" /\ Erased(n) => n \in seen'[r].there
                    /\ r \in misled => r \in misled'
  <2>1. \A r \in Reqs : op'[r].pc # "done" => op'[r].name \in DockerNames
    BY DEF IInv, Sane
  <2> QED BY <1>0, <2>1 DEF SeenNow, Recalled, About, At
<1> DEFINE about == IF op'[r].kind = "list" THEN DockerNames ELSE {op'[r].name}
           there == seen[r].there \union {n \in about :
                        \/ op'[r].kind \in {"create", "import", "mount", "list"} /\ There(r, n)'
                        \/ op'[r].kind \in {"list"} /\ Erased(n)}
           absent == seen[r].absent \union {n \in about :
                        op'[r].kind \in {"remove", "get", "mount", "list"} /\ Absent(r, n)'}
<1>1. seen'[r] = [there |-> there, absent |-> absent]
  BY DEF Recorded
<1>2. seen'[r].there = there /\ seen'[r].absent = absent
  BY <1>1
<1>3. r \in misled => r \in misled'
  BY DEF Recorded
<1> QED BY <1>2, <1>3

\* A request can be sure of its name only if it could before.
LEMMA SureBefore ==
    ASSUME Growing, Recalled, NEW r \in Reqs, op'[r].pc # "done", op'[r].kind = op[r].kind,
           op'[r].name = op[r].name, Sure(r)'
    PROVE  /\ Sure(r)
           /\ op[r].kind # "list" => op[r].name \notin muddled' /\ r \notin misled'
  BY DEF Growing, Recalled, Sure

-----------------------------------------------------------------------------
(* The other requests still fit. *)

\* A name that is left alone leads to no volume it did not lead to.
LEMMA LeavesLeads ==
    ASSUME NEW n \in DockerNames, Leaves(n)
    PROVE  Leads(n)' \subseteq Leads(n) /\ LiveTagged(n)' \subseteq LiveTagged(n)
  BY DEF Leaves, Leads, LiveTagged, Tagged, Present, Live, Own

\* A volume of the name stays.
LEMMA LeavesPresent ==
    ASSUME NEW n \in DockerNames, n \notin muddled, Leaves(n), NEW a \in ArrayNames, Present(a),
           Its(a, n) \/ a \in Own(n)
    PROVE  Present(a)' /\ vol'[a].tag = vol[a].tag
  BY DEF Leaves, Its, Own, Present, Live

\* Another request, q, during a step that is considerate of it.
Spared(q, N) ==
    /\ op'[q] = op[q] /\ Considerate(N)
    /\ op[q].kind \in Changes /\ op[q].name \notin muddled' => op[q].name \notin N

\* What another request found stays its name's.
LEMMA RefsSpared ==
    ASSUME IInv, NEW q \in Reqs, Refs(q), Shape(op[q]), ItsKept, op'[q] = op[q]
    PROVE  Refs(q)'
<1> DEFINE o == op[q]
<1>1. op[q] \in Requests /\ Sane(op[q])
  BY ReqOf
<1>2. Heading(o) \/ o.pc \in {"relock", "create", "tag", "remember", "destroy", "eradicate"}
        => o.an \in ArrayNames /\ o.name \in DockerNames
  BY <1>1 DEF Sane, Heading
<1>3. \A p \in o.pairs : p[1] \in ArrayNames /\ p[2] \in DockerNames
  BY <1>1 DEF Requests
<1>4. ASSUME Heading(o) \/ o.pc \in {"relock", "create", "tag", "remember", "destroy", "eradicate"},
             Its(o.an, o.name)
      PROVE  Its(o.an, o.name)'
  <2> DEFINE a == o.an
             n == o.name
  <2>1. Its(a, n)
    BY <1>4
  <2> QED BY <2>1, <1>2, <1>4 DEF ItsKept, Its
<1>5. \A p \in o.pairs : Its(p[1], p[2]) => Its(p[1], p[2])'
  BY <1>3 DEF ItsKept
<1> QED BY <1>4, <1>5 DEF Refs, Heading

\* A Create or Remove still knows all that its name leads to.
LEMMA MakerSpared ==
    ASSUME IInv, IInv', NEW q \in Reqs, Maker(q), Refs(q), Shape(op[q]), NEW N, Spared(q, N),
           Recalled, Growing, op[q].name \notin muddled'
    PROVE  Maker(q)'
<1> SUFFICES ASSUME op[q].kind \in {"create", "remove"}
             PROVE  Maker(q)'
  BY DEF Maker, Spared
<1>0. op[q].name \in DockerNames
  BY ReqOf DEF Shape, Sane
<1> PICK n \in DockerNames : n = op[q].name
  BY <1>0
<1> DEFINE c == arrayName[n]
           o == op[q]
<1>1. op[q] \in Requests /\ Sane(op[q]) /\ op'[q] = op[q] /\ op[q].pc # "done"
  BY ReqOf DEF Spared, Shape
<1>2. c \in ArrayNames /\ c \in Own(n)
  BY ArrayNamesIn DEF Own
<1>3. Leaves(n) /\ n \notin muddled
  BY <1>2 DEF Spared, Considerate, Changes, Growing
<1>4. Leads(n)' \subseteq Leads(n) /\ LiveTagged(n)' \subseteq LiveTagged(n)
  BY <1>2, <1>3, LeavesLeads
<1>5. seen[q].there \subseteq seen'[q].there /\ seen[q].absent \subseteq seen'[q].absent
  BY <1>1 DEF Recalled
<1>6. \A p \in op[q].pairs : p[1] \in ArrayNames /\ p[2] \in DockerNames
  BY <1>1 DEF Requests
<1>8. o.pc \in {"destroyed", "answer"} =>
              /\ \A a \in LiveTagged(n)' : \E p \in o.pairs : p[1] = a
              /\ \A p \in o.pairs : Present(p[1])' /\ vol'[p[1]].tag = n
  <2> SUFFICES ASSUME o.pc \in {"destroyed", "answer"}
               PROVE  /\ \A a \in LiveTagged(n)' : \E p \in o.pairs : p[1] = a
                      /\ \A p \in o.pairs : Present(p[1])' /\ vol'[p[1]].tag = n
    OBVIOUS
  <2>1. ASSUME NEW p \in o.pairs PROVE Present(p[1])' /\ vol'[p[1]].tag = n
    <3>1. Present(p[1]) /\ vol[p[1]].tag = n /\ p[1] \in ArrayNames
      BY <1>6 DEF Maker
    <3> QED BY <3>1, <1>3 DEF Leaves, Present, Live
  <2> QED BY <2>1, <1>4 DEF Maker
<1>9. o.pc = "answer" => \A p \in o.pairs : Leads(n)' \subseteq {p[1]}
  BY <1>4 DEF Maker
<1>10. Heading(o) /\ o.how # "cached" => Leads(n)' \subseteq {o.an} /\ (o.an = c \/ Present(o.an)')
  <2> SUFFICES ASSUME Heading(o), o.how # "cached"
               PROVE  Leads(n)' \subseteq {o.an} /\ (o.an = c \/ Present(o.an)')
    OBVIOUS
  <2>1. Leads(n) \subseteq {o.an} /\ (o.an = c \/ Present(o.an)) /\ o.an \in ArrayNames /\ Its(o.an, n)
    BY <1>1 DEF Maker, Refs, Heading, Sane
  <2>2. CASE o.an = c
    BY <2>1, <2>2, <1>4
  <2>3. CASE Present(o.an)
    <3> PICK b \in ArrayNames : b = o.an
      BY <2>1
    <3>1. Present(b)'
      BY <2>1, <2>3, <1>2, <1>3, LeavesPresent
    <3> QED BY <3>1, <2>1, <1>4, <1>1 DEF Present
  <2> QED BY <2>1, <2>2, <2>3
<1>11. o.pc \in {"fresh", "relock", "create"} => Leads(n)' = {}
  BY <1>4 DEF Maker
<1>12. o.pc \in {"relock", "create"} => o.an = c \/ (o.an \in Spares[n] /\ vol'[o.an].state = "none")
  <2> SUFFICES ASSUME o.pc \in {"relock", "create"}, o.an # c
               PROVE  o.an \in Spares[n] /\ vol'[o.an].state = "none"
    OBVIOUS
  <2>1. o.an \in Spares[n] /\ Unused(o.an) /\ o.an \in ArrayNames
    BY <1>1 DEF Maker, Sane
  <2> QED BY <2>1, <1>3 DEF Leaves, Own, Unused, Live
<1>13. o.pc = "tag" => vol'[o.an].state = "live" /\ Leads(n)' \subseteq {o.an} /\ o.an \in Own(n)
  <2> SUFFICES ASSUME o.pc = "tag"
               PROVE  vol'[o.an].state = "live" /\ Leads(n)' \subseteq {o.an} /\ o.an \in Own(n)
    OBVIOUS
  <2>1. Live(o.an) /\ Leads(n) \subseteq {o.an} /\ o.an \in Own(n) /\ o.an \in ArrayNames
    BY <1>1 DEF Maker, Sane
  <2> QED BY <2>1, <1>3, <1>4 DEF Leaves, Own, Live, At
<1>14. /\ o.pc \in {"park", "rename", "destroy"} => Leads(n)' \subseteq {o.an}
       /\ o.pc = "eradicate" => Leads(n)' = {}
  BY <1>4 DEF Maker
<1>15. o.pc = "rename" => vol'[o.spare].state = "none"
  <2> SUFFICES ASSUME o.pc = "rename"
               PROVE  vol'[o.spare].state = "none"
    OBVIOUS
  <2>1. o.spare \in Spares[n] /\ Unused(o.spare) /\ o.spare \in ArrayNames
    BY <1>1 DEF Maker, Refs, Sane
  <2> QED BY <2>1, <1>3 DEF Leaves, Own, Unused, Live
<1>17. /\ o.kind = "remove" /\ (o.pc \in {"eradicate", "forget"} \/ Saved(o)) => n \in seen'[q].absent
       /\ o.kind = "create" /\ Saved(o) => n \in seen'[q].there
  BY <1>5 DEF Maker
<1>18. o.pc = "remember" => Present(o.an)' /\ n \in seen'[q].there
  <2> SUFFICES ASSUME o.pc = "remember"
               PROVE  Present(o.an)' /\ n \in seen'[q].there
    OBVIOUS
  <2>0. o.an \in ArrayNames
    BY <1>1 DEF Sane
  <2> PICK b \in ArrayNames : b = o.an
    BY <2>0
  <2>1. Its(b, n) /\ Present(b) /\ n \in seen[q].there
    BY DEF Maker, Refs
  <2>2. Present(b)'
    BY <2>1, <1>2, <1>3, LeavesPresent
  <2> QED BY <2>1, <2>2, <1>1, <1>5 DEF Present
<1> HIDE DEF o
<1> QED BY <1>8, <1>9, <1>10, <1>11, <1>12, <1>13, <1>14, <1>15, <1>17, <1>18, <1>1
        DEF o, Maker, Unused, Live, Heading, Saved

\* An import still may tag its volume.
LEMMA ImporterSpared ==
    ASSUME IInv, IInv', NEW q \in Reqs, Importer(q), Shape(op[q]), NEW N, Spared(q, N),
           Recalled, op[q].name \notin muddled'
    PROVE  Importer(q)'
<1> SUFFICES ASSUME op[q].kind = "import"
             PROVE  Importer(q)'
  BY DEF Importer, Spared
<1>0. op[q].name \in DockerNames /\ op[q].an \in Imports
  BY ReqOf DEF Shape, Sane
<1> PICK n \in DockerNames, b \in Imports : n = op[q].name /\ b = op[q].an
  BY <1>0
<1> DEFINE o == op[q]
<1>1. op'[q] = op[q] /\ op[q].pc # "done"
  BY DEF Spared, Shape
<1>2. b \in ArrayNames
  BY ArrayNamesIn
<1>3. Leaves(n)
  BY DEF Spared, Considerate, Changes
<1>4. LiveTagged(n)' \subseteq LiveTagged(n)
  BY <1>3, LeavesLeads
<1>5. seen[q].there \subseteq seen'[q].there
  BY <1>1 DEF Recalled
<1>6. vol[b].tag = n <=> vol'[b].tag = n
  BY <1>2, <1>3 DEF Leaves
<1>7. vol[b].tag = n /\ vol'[b].state = "live" => Live(b)
  BY <1>2, <1>3 DEF Leaves, Live
<1>11. o.pc \in {"destroyed", "answer"} /\ o.ask = "one" =>
          \A a \in LiveTagged(n)' : \E p \in o.pairs : p[1] = a
  BY <1>4 DEF Importer
<1>12. /\ o.ask = "all" => LiveTagged(n)' \subseteq {o.an}
       /\ o.pc = "tag" => LiveTagged(n)' = {}
  BY <1>4 DEF Importer
<1>13. o.pc \in {"destroyed", "answer"} /\ o.ask = "all" =>
              /\ vol'[b].state = "live" /\ vol'[b].tag = n => <<b, n>> \in o.pairs
              /\ <<b, n>> \in o.pairs => vol'[b].tag = n
  BY <1>6, <1>7 DEF Importer
<1>14. /\ o.pc \in {"tags", "destroyed", "answer", "tag", "remember"} /\ vol'[b].tag = n => n \in seen'[q].there
       /\ o.pc = "remember" => vol'[b].tag = n
       /\ Saved(o) => n \in seen'[q].there
  BY <1>5, <1>6 DEF Importer
<1> HIDE DEF o
<1> QED BY <1>1, <1>11, <1>12, <1>13, <1>14 DEF o, Importer, Live, Saved

\* What a request that asks about a name needs to know of it, else it says the
\* name led to none.
LEMMA ReaderAsks ==
    ASSUME IInv, SeenNow, NEW q \in Reqs, Shape(op[q]), op[q].kind \in {"get", "mount"},
           NEW n \in DockerNames, n = op[q].name, n \notin seen[q].absent
    PROVE  Leads(n) # {} /\ ~BeingDestroyed(n)
<1>1. ~Absent(q, n)
  BY DEF SeenNow, About, At, Shape
<1> QED BY <1>1, ArrayNamesIn DEF Absent, There, Leads, LiveTagged, Tagged, Present, Live

\* A Get or Mount still finds its volume, or saw the name lead to none.
LEMMA ReaderSpared ==
    ASSUME IInv, IInv', NEW q \in Reqs, Reader(q), Refs(q), Shape(op[q]), NEW N, Spared(q, N),
           SeenNow, SeenNow', Recalled, op[q].name \notin muddled'
    PROVE  Reader(q)'
<1> SUFFICES ASSUME op[q].kind \in {"get", "mount"}, op[q].name \notin seen'[q].absent
             PROVE  Reader(q)'
  BY DEF Reader, Spared
<1>0. op[q].name \in DockerNames
  BY ReqOf DEF Shape, Sane
<1> PICK n \in DockerNames : n = op[q].name
  BY <1>0
<1> DEFINE c == arrayName[n]
           o == op[q]
<1>1. op[q] \in Requests /\ Sane(op[q]) /\ op'[q] = op[q] /\ op[q].pc # "done"
  BY ReqOf DEF Spared, Shape
<1>2. c \in ArrayNames /\ Its(c, n)
  BY ArrayNamesIn DEF Its
<1>3. n \notin seen[q].absent
  BY <1>1 DEF Recalled
<1>4. Leads(n) # {} /\ ~BeingDestroyed(n)
  BY <1>3, ReaderAsks
<1>5. Leads(n)' # {} /\ ~BeingDestroyed(n)'
  <2>1. ~Absent(q, n)'
    BY <1>1 DEF SeenNow, About, At
  <2> QED BY <2>1, <1>1, ArrayNamesIn DEF Absent, There, Leads, LiveTagged, Tagged, Present, Live
<1>6. Firm(n)
  BY <1>4, <1>5 DEF Spared, Considerate, Gentle
<1>7. \A a \in ArrayNames : Its(a, n) /\ Present(a) => vol'[a].state \in {"live", "destroyed"}
  BY <1>6 DEF Firm, Present
<1>8. Heading(o) /\ o.how # "cached" => vol'[o.an].state \in {"live", "destroyed"}
  BY <1>1, <1>3, <1>7 DEF Reader, Refs, Heading, Sane
<1>9. o.pc = "destroyed" => \E a \in Leads(n)' : a = c \/ <<a, n>> \in o.pairs
  BY <1>3, <1>6 DEF Reader, Firm
<1>10. o.pc \in {"destroyed", "answer"} => \A p \in o.pairs : vol'[p[1]].state \in {"live", "destroyed"}
  <2> SUFFICES ASSUME o.pc \in {"destroyed", "answer"}, NEW p \in o.pairs
               PROVE  vol'[p[1]].state \in {"live", "destroyed"}
    OBVIOUS
  <2>1. p[1] \in ArrayNames /\ p[2] = n /\ Its(p[1], p[2]) /\ Present(p[1])
    BY <1>1, <1>3 DEF Requests, Shape, Refs, Reader
  <2> QED BY <2>1, <1>7
<1>11. o.pc = "answer" /\ o.pairs = {} => vol'[c].state \in {"live", "destroyed"}
  BY <1>2, <1>3, <1>7 DEF Reader
<1> HIDE DEF o
<1> QED BY <1>1, <1>8, <1>9, <1>10, <1>11 DEF o, Reader, Present, Heading

\* A List still has the tags of all names, and the destroyed volumes ahead.
LEMMA ListerSpared ==
    ASSUME IInv, IInv', NEW q \in Reqs, Lister(q), Refs(q), Shape(op[q]), NEW N, Spared(q, N),
           SeenNow, SeenNow', Recalled, Growing
    PROVE  Lister(q)'
<1> SUFFICES ASSUME op[q].kind = "list", NEW n \in DockerNames, n \notin muddled'
             PROVE  /\ op[q].pc = "destroyed" =>
                       /\ n \notin seen'[q].absent =>
                            \E p \in op[q].pairs : p[2] = n /\ (p[1] \in LiveTagged(n)' \/ vol'[p[1]].state = "none")
                       /\ \A p \in op[q].pairs : p[2] = n =>
                            n \in seen'[q].there \/ (vol'[p[1]].state = "destroyed" /\ vol'[p[1]].tag = n)
                    /\ op[q].pc = "answer" =>
                       /\ n \notin seen'[q].absent => \E p \in op[q].pairs : p[2] = n
                       /\ \A p \in op[q].pairs : p[2] = n => n \in seen'[q].there
                    /\ op[q].pc \in {"replace", "save", "write"} =>
                          n \in IF op[q].put[n] = None THEN seen'[q].absent ELSE seen'[q].there
  BY DEF Lister, Spared, Unused
<1>1. op[q] \in Requests /\ op'[q] = op[q] /\ op[q].pc # "done"
  BY ReqOf DEF Spared, Shape
<1>2. seen[q].there \subseteq seen'[q].there /\ seen[q].absent \subseteq seen'[q].absent
  BY <1>1 DEF Recalled
<1>3. Gentle(n) /\ n \notin muddled
  BY DEF Spared, Considerate, Growing
<1>4. ASSUME op[q].pc = "destroyed", n \notin seen'[q].absent
      PROVE  \E p \in op[q].pairs : p[2] = n /\ (p[1] \in LiveTagged(n)' \/ vol'[p[1]].state = "none")
  <2>1. ~Absent(q, n) /\ ~Absent(q, n)'
    BY <1>1, <1>2, <1>4 DEF SeenNow, About, At
  <2>2. LiveTagged(n) # {} /\ LiveTagged(n)' # {}
    BY <2>1, <1>1 DEF Absent, There
  <2>3. PICK p \in op[q].pairs : p[2] = n /\ (p[1] \in LiveTagged(n) \/ Unused(p[1]))
    BY <1>3, <1>2, <1>4 DEF Lister
  <2>4. p[1] \in ArrayNames /\ Its(p[1], n)
    BY <1>1, <1>4, <2>3 DEF Requests, Refs
  <2>5. \A a \in ArrayNames : Its(a, n) /\ (a \in LiveTagged(n) \/ Unused(a)) => (a \in LiveTagged(n)' \/ Unused(a)')
    BY <1>3, <2>2 DEF Gentle
  <2>6. p[1] \in LiveTagged(n)' \/ vol'[p[1]].state = "none"
    BY <2>3, <2>4, <2>5 DEF Unused
  <2> QED BY <2>3, <2>6
<1>5. ASSUME op[q].pc = "destroyed", NEW p \in op[q].pairs, p[2] = n
      PROVE  n \in seen'[q].there \/ (vol'[p[1]].state = "destroyed" /\ vol'[p[1]].tag = n)
  <2>1. n \in seen[q].there \/ (vol[p[1]].state = "destroyed" /\ vol[p[1]].tag = n)
    BY <1>3, <1>5 DEF Lister
  <2>2. p[1] \in ArrayNames
    BY <1>1, <1>5 DEF Requests
  <2>3. vol[p[1]].state = "destroyed" /\ vol[p[1]].tag = n => vol'[p[1]] = vol[p[1]] \/ Erased(n)
    BY <2>2, <1>3 DEF Gentle, Tagged, Present
  <2>4. Erased(n) => n \in seen'[q].there
    BY <1>1 DEF Recalled
  <2> QED BY <2>1, <2>3, <2>4, <1>2
<1>6. op[q].pc = "answer" =>
        /\ n \notin seen'[q].absent => \E p \in op[q].pairs : p[2] = n
        /\ \A p \in op[q].pairs : p[2] = n => n \in seen'[q].there
  BY <1>3, <1>2 DEF Lister
<1>7. op[q].pc \in {"replace", "save", "write"} =>
        n \in IF op[q].put[n] = None THEN seen'[q].absent ELSE seen'[q].there
  BY <1>3, <1>2 DEF Lister
<1> QED BY <1>4, <1>5, <1>6, <1>7

\* Every request that a considerate step does not move still fits.
LEMMA OthersFit ==
    ASSUME IInv, IInv', Leading, NEW q \in Reqs, NEW N, Spared(q, N), SeenNow', Recalled, Growing
    PROVE  Fits(q)'
<1>1. /\ Fits(q) /\ SeenNow /\ op'[q] = op[q] /\ ItsKept
  BY DEF Leading, Spared, Considerate
<1>2. Shape(op[q])' /\ Shape(op[q]) /\ op'[q].pc = op[q].pc
  BY <1>1 DEF Fits, Shape
<1>3. Refs(q)'
  BY <1>1, RefsSpared DEF Fits
<1>4. Lister(q)'
  BY <1>1, ListerSpared DEF Fits
<1>5. ASSUME Sure(q)'
      PROVE  Maker(q)' /\ Importer(q)' /\ Reader(q)'
  <2>1. CASE op[q].kind \in {"list", "none"}
    BY <2>1, <1>1 DEF Maker, Importer, Reader
  <2>2. CASE op[q].kind \notin {"list", "none"}
    <3>1. op[q].pc # "done"
      BY <2>2, <1>2 DEF Shape
    <3>2. Sure(q) /\ op[q].name \notin muddled'
      BY <3>1, <2>2, <1>1, <1>5, SureBefore
    <3>3. Maker(q) /\ Importer(q) /\ Reader(q) /\ Refs(q)
      BY <3>2, <1>1 DEF Fits
    <3> QED BY <3>2, <3>3, <1>1, <1>2, MakerSpared, ImporterSpared, ReaderSpared
  <2> QED BY <2>1, <2>2
<1> QED BY <1>2, <1>3, <1>4, <1>5 DEF Fits

-----------------------------------------------------------------------------
(* The steps that change a volume. *)

\* A step that changes no volume is considerate.
LEMMA StillVolumes ==
    ASSUME VolumesInOrder, UNCHANGED vol, Growing, NEW N
    PROVE  Considerate(N)
<1>1. \A n \in DockerNames : Leads(n)' = Leads(n) /\ LiveTagged(n)' = LiveTagged(n)
  BY DEF Leads, LiveTagged, Tagged, Present, Live
<1>2. \A a \in ArrayNames : Present(a)' = Present(a) /\ Unused(a)' = Unused(a)
  BY DEF Present, Unused
<1>3. \A a \in ArrayNames, n \in DockerNames : Its(a, n) => Its(a, n)'
  BY DEF Its, Growing
<1>4. VolumesInOrder'
  BY <1>1 DEF VolumesInOrder, Growing
<1>5. \A n \in DockerNames : Gentle(n)
  <2> SUFFICES ASSUME NEW n \in DockerNames PROVE Gentle(n)
    OBVIOUS
  <2>1. Firm(n)
    BY <1>1, <1>2 DEF Firm
  <2> QED BY <2>1, <1>1, <1>2 DEF Gentle
<1> QED BY <1>3, <1>4, <1>5 DEF Considerate, ItsKept, Leaves

\* A change that a request for n makes to the volume under a leaves it n's, and
\* takes it from no name that is not muddled.
InOrderFor(a, n) ==
    /\ a \in Own(n) \union Imports
    /\ vol'[a].tag \in {None, n, vol[a].tag}
    /\ vol'[a].state \in {"none", "eradicated"} => vol'[a].tag = None
    /\ a \in Spares[n] /\ Its(a, n) =>
          vol'[a].tag = n \/ vol'[a].state = "eradicated" \/ n \in muddled'
    /\ a \in Imports =>
          /\ vol'[a].state = "eradicated" \/ vol'[a].tag \in {n, vol[a].tag}
          /\ vol[a].tag \notin {None, n} => {n, vol[a].tag} \subseteq muddled'
          /\ vol[a].state = "eradicated" => vol'[a].state = "eradicated" \/ DockerNames \subseteq muddled'

\* What such a change touches is no other name's.
LEMMA Apart ==
    ASSUME TypeOK, VolumesInOrder, NamesApart, Growing, NEW m \in DockerNames, NEW n \in DockerNames,
           m # n, m \notin muddled', NEW a \in ArrayNames, InOrderFor(a, n)
    PROVE  /\ a \notin Own(m) /\ vol[a].tag # m /\ vol'[a].tag # m
           /\ Its(a, m) => vol[a].state = "eradicated"
<1>1. a \notin Own(m)
  BY DEF InOrderFor, NamesApart
<1>2. vol[a].tag \in DockerNames \union {None} /\ None \notin DockerNames
  BY Types, ArrayNamesIn
<1>3. vol[a].tag # m
  <2>1. CASE a \in Imports
    BY <2>1, <1>2 DEF InOrderFor
  <2>2. CASE a \notin Imports
    BY <2>2, <1>1, <1>2 DEF VolumesInOrder
  <2> QED BY <2>1, <2>2
<1>4. vol'[a].tag # m
  BY <1>2, <1>3 DEF InOrderFor
<1>5. Its(a, m) => vol[a].state = "eradicated"
  BY <1>1, <1>3 DEF Its, Own, Growing
<1> QED BY <1>1, <1>3, <1>4, <1>5

\* A change of one name's volumes leaves the other names alone.
LEMMA Aside ==
    ASSUME TypeOK, VolumesInOrder, NamesApart, Growing, NEW m \in DockerNames, NEW n \in DockerNames,
           m # n, m \notin muddled', \A a \in ArrayNames : vol'[a] = vol[a] \/ InOrderFor(a, n)
    PROVE  Gentle(m) /\ Leaves(m) /\ Leads(m)' = Leads(m)
<1>1. \A a \in ArrayNames : vol'[a] = vol[a] \/
         (/\ a \notin Own(m) /\ vol[a].tag # m /\ vol'[a].tag # m
          /\ Its(a, m) => vol[a].state = "eradicated")
  BY Apart
<1>2. Leads(m)' = Leads(m) /\ LiveTagged(m)' = LiveTagged(m)
  BY <1>1 DEF Leads, LiveTagged, Tagged, Present, Live, Own
<1>3. Firm(m)
  BY <1>1, <1>2 DEF Firm, Present
<1>4. \A a \in Tagged(m) : vol[a].state = "destroyed" => vol'[a] = vol[a]
  BY <1>1 DEF Tagged
<1>5. \A a \in ArrayNames :
         Its(a, m) /\ (a \in LiveTagged(m) \/ Unused(a)) => (a \in LiveTagged(m)' \/ Unused(a)')
  <2> SUFFICES ASSUME NEW a \in ArrayNames, Its(a, m), a \in LiveTagged(m) \/ Unused(a)
               PROVE  a \in LiveTagged(m)' \/ Unused(a)'
    OBVIOUS
  <2>1. vol'[a] = vol[a]
    BY <1>1 DEF LiveTagged, Tagged, Unused
  <2> QED BY <2>1, <1>2 DEF Unused
<1>6. Gentle(m)
  BY <1>3, <1>4, <1>5 DEF Gentle
<1> QED BY <1>1, <1>2, <1>6 DEF Leaves

\* Such changes are considerate once they are in order for their own name.
LEMMA OfOneName ==
    ASSUME TypeOK, VolumesInOrder, NamesApart, Growing, NEW n \in DockerNames,
           \A a \in ArrayNames : vol'[a] = vol[a] \/ InOrderFor(a, n),
           n \notin muddled' => Gentle(n) /\ \E b : Leads(n)' \subseteq {b}
    PROVE  Considerate({n})
<1>1. \A m \in DockerNames \ {n} : m \notin muddled' => Gentle(m) /\ Leaves(m) /\ Leads(m)' = Leads(m)
  BY Aside
<1>2. VolumesInOrder'
  <2>1. \A a \in ArrayNames : vol'[a].tag # None => a \in Own(vol'[a].tag) \union Imports
    BY DEF InOrderFor, VolumesInOrder
  <2>2. \A a \in ArrayNames : vol'[a].state \in {"none", "eradicated"} => vol'[a].tag = None
    BY DEF InOrderFor, VolumesInOrder
  <2>3. \A m \in DockerNames \ muddled', a, b \in ArrayNames : a \in Leads(m)' /\ b \in Leads(m)' => a = b
    BY <1>1 DEF VolumesInOrder, Growing
  <2> QED BY <2>1, <2>2, <2>3 DEF VolumesInOrder, Own
<1>3. ItsKept
  <2> SUFFICES ASSUME NEW a \in ArrayNames, NEW m \in DockerNames, Its(a, m) PROVE Its(a, m)'
    BY DEF ItsKept
  <2>1. CASE vol'[a] = vol[a]
    BY <2>1 DEF Its, Growing
  <2>2. CASE InOrderFor(a, n) /\ a \in Spares[m]
    <3>1. m = n
      BY <2>2 DEF InOrderFor, NamesApart, Own
    <3> QED BY <2>2, <3>1 DEF InOrderFor, Its
  <2>3. CASE InOrderFor(a, n) /\ a \in Imports
    <3>1. CASE vol'[a].state = "eradicated" \/ DockerNames \subseteq muddled'
      BY <2>3, <3>1 DEF Its
    <3>2. CASE ~(vol'[a].state = "eradicated" \/ DockerNames \subseteq muddled')
      <4>1. vol[a].tag = m \/ {m, vol[a].tag} \subseteq muddled
        BY <2>3, <3>2 DEF Its, InOrderFor, Growing, NamesApart, Own
      <4>2. vol[a].tag \in DockerNames /\ None \notin DockerNames
        BY <4>1, Types, ArrayNamesIn DEF TypeOK
      <4>3. vol'[a].tag = m \/ {m, vol'[a].tag} \subseteq muddled'
        BY <4>1, <4>2, <2>3, <3>2 DEF InOrderFor, Growing
      <4> QED BY <4>3, <2>3 DEF Its
    <3> QED BY <3>1, <3>2
  <2>4. CASE a = arrayName[m]
    BY <2>4 DEF Its
  <2> QED BY <2>1, <2>2, <2>3, <2>4 DEF Its
<1> QED BY <1>1, <1>2, <1>3 DEF Considerate

\* A volume is created where the name leads to none.
LEMMA CreateConsiderate ==
    ASSUME TypeOK, TypeOK', VolumesInOrder, NamesApart, Growing, NEW n \in DockerNames, NEW a \in ArrayNames,
           a \in Own(n) \/ Its(a, n), ~Present(a),
           a \in Imports /\ vol[a].state = "eradicated" => DockerNames \subseteq muddled',
           n \notin muddled' => Leads(n) = {} /\ (a = arrayName[n] \/ (a \in Spares[n] /\ Unused(a))),
           vol' = [vol EXCEPT ![a] = [state |-> "live", tag |-> None]]
    PROVE  Considerate({n}) /\ Live(a)' /\ (n \notin muddled' => Leads(n)' \subseteq {a})
<1>1. vol'[a] = [state |-> "live", tag |-> None] /\ \A b \in ArrayNames \ {a} : vol'[b] = vol[b]
  BY DEF TypeOK
<1>2. vol[a].tag = None /\ None \notin muddled
  BY Types, ArrayNamesIn DEF VolumesInOrder, Present, TypeOK
<1>3. Live(a)' /\ (n \notin muddled' => Leads(n)' \subseteq {a})
  BY <1>1 DEF Leads, Live
<1>4. a \in Spares[n] /\ Its(a, n) => n \in muddled'
  BY <1>2, ArrayNamesIn DEF Its, Unused, NamesApart, Own, Growing
<1>5. a \in Imports => DockerNames \subseteq muddled'
  BY <1>2, ArrayNamesIn DEF Its, NamesApart, Own, Growing
<1>6. InOrderFor(a, n)
  BY <1>1, <1>2, <1>4, <1>5 DEF InOrderFor, Its, Own
<1>7. ASSUME n \notin muddled' PROVE Gentle(n)
  <2>1. LiveTagged(n) = {}
    BY <1>7 DEF Leads, LiveTagged, Tagged, Present, Live
  <2>2. \A b \in Tagged(n) : vol'[b] = vol[b]
    BY <1>1 DEF Tagged
  <2> QED BY <1>7, <2>1, <2>2 DEF Gentle
<1>8. Considerate({n})
  BY <1>1, <1>3, <1>6, <1>7, OfOneName
<1> QED BY <1>3, <1>8

\* The one volume the name leads to, or an import, is tagged.
LEMMA TagConsiderate ==
    ASSUME TypeOK, TypeOK', VolumesInOrder, NamesApart, Growing, NEW n \in DockerNames, NEW a \in ArrayNames,
           a \in Own(n) \union Imports, Live(a), n \notin muddled' => Leads(n) \subseteq {a},
           vol[a].tag \notin {None, n} => {n, vol[a].tag} \subseteq muddled',
           vol'[a].tag = n, vol'[a].state = "live", \A b \in ArrayNames \ {a} : vol'[b] = vol[b]
    PROVE  Considerate({n}) /\ Live(a)' /\ (n \notin muddled' => Leads(n)' \subseteq {a})
<1>1. vol'[a].tag = n /\ vol'[a].state = "live" /\ \A b \in ArrayNames \ {a} : vol'[b] = vol[b]
  OBVIOUS
<1>3. Live(a)' /\ (n \notin muddled' => Leads(n)' \subseteq {a})
  BY <1>1 DEF Leads, Live
<1>5. InOrderFor(a, n)
  BY <1>1 DEF InOrderFor, Live
<1>6. ASSUME n \notin muddled' PROVE Gentle(n)
  <2>1. \A b \in ArrayNames : vol'[b].state = vol[b].state
    BY <1>1 DEF Live
  <2>2. Leads(n) \subseteq Leads(n)' /\ LiveTagged(n) \subseteq LiveTagged(n)'
    BY <1>1, <1>6 DEF Leads, LiveTagged, Tagged, Present, Live
  <2>3. Firm(n)
    BY <2>1, <2>2 DEF Firm, Present
  <2>4. \A b \in Tagged(n) : vol[b].state = "destroyed" => vol'[b] = vol[b]
    BY <1>1 DEF Tagged, Live
  <2>5. \A b \in ArrayNames : Unused(b) => Unused(b)'
    BY <2>1 DEF Unused
  <2> QED BY <2>2, <2>3, <2>4, <2>5 DEF Gentle
<1>7. Considerate({n})
  BY <1>1, <1>3, <1>5, <1>6, OfOneName
<1> QED BY <1>3, <1>7

\* The one volume the name leads to is parked under a spare name.
LEMMA RenameConsiderate ==
    ASSUME TypeOK, TypeOK', VolumesInOrder, NamesApart, Growing, NEW n \in DockerNames,
           NEW c \in ArrayNames, NEW s \in ArrayNames,
           c = arrayName[n], s \in Spares[n], ~Present(s), Live(c),
           n \notin muddled' => Unused(s) /\ Leads(n) \subseteq {c},
           vol' = [vol EXCEPT ![s] = vol[c], ![c] = NoVolume], BeingDestroyed(n)'
    PROVE  Considerate({n}) /\ (n \notin muddled' => Leads(n)' \subseteq {s})
<1>0. c # s /\ c \in Own(n) /\ s \in Own(n) /\ c \notin Imports /\ s \notin Imports /\ c \notin Spares[n]
  BY DEF NamesApart, Own
<1>1. vol'[c] = NoVolume /\ vol'[s] = vol[c] /\ \A b \in ArrayNames \ {c, s} : vol'[b] = vol[b]
  BY <1>0 DEF TypeOK
<1>2. vol[c].tag \in {None, n} /\ vol[s].tag = None
  <2>1. vol[c].tag \in DockerNames \union {None}
    BY Types
  <2>2. vol[s].state \in {"none", "eradicated"}
    BY Types DEF Present
  <2> QED BY <2>1, <2>2, <1>0 DEF VolumesInOrder, NamesApart
<1>3. n \notin muddled' => Leads(n)' \subseteq {s}
  <2>1. vol'[c].state = "none"
    BY <1>1 DEF NoVolume
  <2>2. \A b \in ArrayNames \ {c, s} : b \in Leads(n)' => b \in Leads(n)
    BY <1>1 DEF Leads, Live
  <2> QED BY <2>1, <2>2 DEF Leads, Live
<1>4. InOrderFor(c, n)
  BY <1>0, <1>1 DEF InOrderFor, NoVolume
<1>5. n \notin muddled' => ~Its(s, n)
  BY <1>0, <1>2, ArrayNamesIn DEF Its, Unused, Growing
<1>6. InOrderFor(s, n)
  BY <1>0, <1>1, <1>2, <1>5 DEF InOrderFor, Live
<1>7. ASSUME n \notin muddled' PROVE Gentle(n)
  <2>1. LiveTagged(n) \subseteq {c}
    BY <1>7 DEF Leads, LiveTagged, Tagged, Present, Live
  <2>2. Unused(c)'
    BY <1>1 DEF Unused, NoVolume
  <2>3. \A a \in ArrayNames :
          Its(a, n) /\ (a \in LiveTagged(n) \/ Unused(a)) => (a \in LiveTagged(n)' \/ Unused(a)')
    BY <1>7, <2>1, <2>2, <1>1, <1>5 DEF Unused
  <2>4. \A a \in Tagged(n) : vol[a].state = "destroyed" => vol'[a] = vol[a]
    BY <1>1 DEF Tagged, Live, Present
  <2> QED BY <2>3, <2>4 DEF Gentle
<1>9. \A a \in ArrayNames : vol'[a] = vol[a] \/ InOrderFor(a, n)
  BY <1>1, <1>4, <1>6
<1>10. Considerate({n})
  BY <1>3, <1>7, <1>9, OfOneName
<1> QED BY <1>3, <1>10

\* A volume that is found for a name may be another's only if both are muddled.
LEMMA FoundTag ==
    ASSUME TypeOK, NamesApart, Growing, NEW n \in DockerNames, NEW a \in ArrayNames, Present(a),
           a \in Own(n) \/ Its(a, n)
    PROVE  /\ a \in Own(n) \union Imports
           /\ a \in Imports /\ vol[a].tag \notin {None, n} => {n, vol[a].tag} \subseteq muddled'
           /\ a \in Spares[n] /\ Its(a, n) => vol[a].tag = n \/ n \in muddled'
           /\ vol[a].state # "eradicated"
<1>1. vol[a].tag \in DockerNames \union {None}
  BY Types
<1> QED BY <1>1 DEF Its, Own, Present, Growing, NamesApart

\* The one volume the name leads to is destroyed.
LEMMA DestroyConsiderate ==
    ASSUME TypeOK, TypeOK', VolumesInOrder, NamesApart, Growing, NEW n \in DockerNames, NEW a \in ArrayNames,
           n \notin muddled' => Leads(n) \subseteq {a}, a \in Own(n) \/ Its(a, n), BeingDestroyed(n),
           vol' = IF Live(a) THEN [vol EXCEPT ![a].state = "destroyed"] ELSE vol
    PROVE  Considerate({n}) /\ (n \notin muddled' => Leads(n)' = {})
<1>1. CASE ~Live(a)
  <2>1. vol' = vol
    BY <1>1
  <2>2. n \notin muddled' => Leads(n) = {}
    BY <1>1 DEF Leads
  <2>3. n \notin muddled' => Leads(n)' = {}
    BY <2>1, <2>2 DEF Leads, Live
  <2> QED BY <2>1, <2>3, StillVolumes
<1>2. CASE Live(a)
  <2>1. /\ vol'[a].tag = vol[a].tag /\ vol'[a].state = "destroyed"
        /\ \A b \in ArrayNames \ {a} : vol'[b] = vol[b]
    BY <1>2 DEF TypeOK
  <2>2. n \notin muddled' => Leads(n)' = {}
    BY <2>1 DEF Leads, Live
  <2>3. Present(a)
    BY <1>2 DEF Present, Live
  <2>4. InOrderFor(a, n)
    BY <2>1, <2>3, FoundTag DEF InOrderFor
  <2>5. n \notin muddled' => LiveTagged(n)' = {}
    BY <2>2 DEF Leads, LiveTagged, Tagged, Present, Live
  <2>6. \A b \in Tagged(n) : vol[b].state = "destroyed" => vol'[b] = vol[b]
    BY <2>1, <1>2 DEF Tagged, Live
  <2>7. n \notin muddled' => Gentle(n)
    BY <2>5, <2>6 DEF Gentle
  <2>8. Considerate({n})
    BY <2>1, <2>2, <2>4, <2>7, OfOneName
  <2> QED BY <2>2, <2>8
<1> QED BY <1>1, <1>2

\* A destroyed volume of a name that leads to none is eradicated.
LEMMA EradicateConsiderate ==
    ASSUME TypeOK, TypeOK', VolumesInOrder, NamesApart, Growing, NEW n \in DockerNames, NEW a \in ArrayNames,
           n \notin muddled' => Leads(n) = {}, a \in Own(n) \/ Its(a, n),
           vol' = IF Present(a) /\ ~Live(a)
                  THEN [vol EXCEPT ![a] = [state |-> "eradicated", tag |-> None]] ELSE vol
    PROVE  Considerate({n}) /\ (n \notin muddled' => Leads(n)' = {})
<1>1. CASE ~(Present(a) /\ ~Live(a))
  <2>1. vol' = vol
    BY <1>1
  <2>2. n \notin muddled' => Leads(n)' = {}
    BY <2>1 DEF Leads, Live
  <2> QED BY <2>1, <2>2, StillVolumes
<1>2. CASE Present(a) /\ ~Live(a)
  <2>1. /\ vol'[a] = [state |-> "eradicated", tag |-> None]
        /\ \A b \in ArrayNames \ {a} : vol'[b] = vol[b]
    BY <1>2 DEF TypeOK
  <2>2. n \notin muddled' => Leads(n)' = {}
    BY <2>1 DEF Leads, Live
  <2>4. InOrderFor(a, n)
    BY <2>1, <1>2, FoundTag DEF InOrderFor
  <2>5. \A b \in Tagged(n) : vol'[b] = vol[b] \/ Erased(n)
    BY <2>1 DEF Erased
  <2>6. n \notin muddled' => LiveTagged(n) = {}
    BY DEF Leads, LiveTagged, Tagged, Present, Live
  <2>7. n \notin muddled' => Gentle(n)
    BY <2>5, <2>6 DEF Gentle
  <2>8. Considerate({n})
    BY <2>1, <2>2, <2>4, <2>7, OfOneName
  <2> QED BY <2>2, <2>8
<1> QED BY <1>1, <1>2

\* A volume destroyed by other means.
LEMMA OutsideConsiderate ==
    ASSUME TypeOK, TypeOK', VolumesInOrder, Growing, NEW a \in ArrayNames, Live(a),
           \A q \in Reqs : At(q, "tag") => op[q].an # a,
           vol' = [vol EXCEPT ![a].state = "destroyed"]
    PROVE  Considerate({})
<1>1. /\ vol'[a].tag = vol[a].tag /\ vol'[a].state = "destroyed"
      /\ \A b \in ArrayNames \ {a} : vol'[b] = vol[b]
  BY DEF TypeOK
<1>2. \A n \in DockerNames : Leads(n)' = Leads(n) \ {a} /\ LiveTagged(n)' = LiveTagged(n) \ {a}
  BY <1>1 DEF Leads, LiveTagged, Tagged, Present, Live
<1>3. \A b \in ArrayNames : vol'[b].tag = vol[b].tag
  BY <1>1
<1>4. VolumesInOrder'
  BY <1>1, <1>2, <1>3 DEF VolumesInOrder, Own, Growing
<1>5. ItsKept
  BY <1>1 DEF ItsKept, Its, Live, Growing
<1>6. \A b \in ArrayNames : Present(b) => Present(b)'
  BY <1>1 DEF Present
<1>7. \A n \in DockerNames \ muddled' : Gentle(n)
  <2> SUFFICES ASSUME NEW n \in DockerNames, n \notin muddled' PROVE Gentle(n)
    OBVIOUS
  <2>0. n \notin muddled
    BY DEF Growing
  <2>1. Leads(n)' = {} \/ Firm(n)
    <3>1. CASE a \in Leads(n)
      BY <3>1, <2>0, <1>2 DEF VolumesInOrder, Leads
    <3>2. CASE a \notin Leads(n)
      BY <3>2, <1>2, <1>6 DEF Firm
    <3> QED BY <3>1, <3>2
  <2>2. LiveTagged(n)' = {} \/ a \notin LiveTagged(n)
    <3>1. LiveTagged(n) \subseteq Leads(n) /\ Leads(n) \subseteq ArrayNames
      BY DEF Leads, LiveTagged, Tagged
    <3> QED BY <3>1, <2>0, <1>2 DEF VolumesInOrder
  <2>3. \A b \in ArrayNames : Unused(b) => Unused(b)'
    BY <1>1 DEF Unused, Live
  <2>4. \A b \in Tagged(n) : vol[b].state = "destroyed" => vol'[b] = vol[b]
    BY <1>1 DEF Tagged, Live
  <2> QED BY <2>1, <2>2, <2>3, <2>4, <1>2 DEF Gentle
<1>8. \A n \in DockerNames : Leaves(n)
  BY <1>1 DEF Leaves
<1> QED BY <1>4, <1>5, <1>7, <1>8 DEF Considerate

-----------------------------------------------------------------------------
(* A step of one request. *)

\* What its step may do to the volumes.
Cares(r) == Considerate(IF op[r].kind \in Changes THEN {op[r].name} ELSE {})

\* All there is to show of a step of r.
Fine(r) == Cares(r) /\ CacheInOrder' /\ Fits(r)'

\* A request that can be sure of its name before and after its step.
Relies(r) == Sure(r) /\ op[r].name \notin muddled' /\ r \notin misled'

\* A name that is not muddled is changed by one request at a time.
LEMMA SoleStep ==
    ASSUME IInv', Recorded, \A r \in Reqs : Shape(op[r])'
    PROVE  Sole'
<1> SUFFICES ASSUME NEW q \in Reqs, NEW r \in Reqs, op'[q].kind \in Changes, op'[r].kind \in Changes,
                    op'[q].name = op'[r].name, op'[q].name \notin muddled', q # r
             PROVE  FALSE
  BY DEF Sole
<1>1. op'[q].name \in DockerNames
  BY DEF Shape, Changes, IInv, Sane
<1> PICK n \in DockerNames : n = op'[q].name
  BY <1>1
<1>2. Crossed(n)'
  BY DEF Crossed
<1>3. Muddles(n)
  BY <1>2 DEF Muddles
<1> QED BY <1>3 DEF Recorded

\* A fine step of one request is all it takes.
LEMMA Advance ==
    ASSUME IInv, IInv', Leading, Recorded, NEW r \in Reqs,
           \A q \in Reqs \ {r} : op'[q] = op[q], Fine(r)
    PROVE  Leading'
<1>1. SeenNow' /\ Recalled /\ Growing
  BY SeenStep
<1> PICK N : N = IF op[r].kind \in Changes THEN {op[r].name} ELSE {}
  OBVIOUS
<1>2. Considerate(N)
  BY DEF Fine, Cares, Considerate
<1>3. ASSUME NEW q \in Reqs \ {r} PROVE Fits(q)'
  <2>1. op[q].kind \in Changes /\ op[q].name \notin muddled' => op[q].name \notin N
    BY <1>1 DEF Leading, Sole, Growing
  <2>2. Spared(q, N)
    BY <1>2, <2>1 DEF Spared
  <2> QED BY <1>1, <2>2, OthersFit
<1>4. VolumesInOrder'
  BY <1>2 DEF Considerate
<1>5. \A q \in Reqs : Fits(q)'
  BY <1>3 DEF Fine
<1>6. Sole'
  BY <1>5, SoleStep DEF Fits, Shape
<1> QED BY <1>1, <1>4, <1>5, <1>6 DEF Leading, Fine

\* A step that leaves the volumes alone.
LEMMA StillCares ==
    ASSUME Leading, Growing, NEW r \in Reqs, UNCHANGED vol
    PROVE  Cares(r)
<1> PICK N : N = IF op[r].kind \in Changes THEN {op[r].name} ELSE {}
  OBVIOUS
<1>1. Considerate(N)
  BY StillVolumes DEF Leading
<1> QED BY <1>1 DEF Cares, Considerate

\* And the caches.
LEMMA Still ==
    ASSUME Leading, Growing, NEW r \in Reqs, UNCHANGED <<vol, names>>
    PROVE  Cares(r) /\ CacheInOrder'
<1>1. CacheInOrder'
  BY DEF Leading, CacheInOrder, Its, Growing
<1> QED BY <1>1, StillCares

\* Where no volume changes, names lead where they led.
LEMMA StillMeans ==
    ASSUME UNCHANGED vol, Growing
    PROVE  /\ \A n \in DockerNames : /\ Leads(n)' = Leads(n) /\ LiveTagged(n)' = LiveTagged(n)
                                     /\ Tagged(n)' = Tagged(n)
           /\ \A a \in ArrayNames : /\ Present(a)' = Present(a) /\ Live(a)' = Live(a)
                                    /\ Unused(a)' = Unused(a)
           /\ \A a \in ArrayNames, n \in DockerNames : Its(a, n) => Its(a, n)'
  BY DEF Leads, LiveTagged, Tagged, Present, Live, Unused, Its, Growing

\* What a request knows of its name needs to be shown only as long as it can rely
\* on it.
LEMMA FitsNext ==
    ASSUME Growing, Recalled, NEW r \in Reqs, op'[r].pc # "done", op'[r].kind = op[r].kind,
           op'[r].name = op[r].name, Shape(op'[r]), Refs(r)', Lister(r)',
           Relies(r) => Maker(r)' /\ Importer(r)' /\ Reader(r)'
    PROVE  Fits(r)'
<1>1. CASE op[r].kind = "list"
  <2>1. Maker(r)' /\ Importer(r)' /\ Reader(r)'
    BY <1>1 DEF Maker, Importer, Reader
  <2> QED BY <2>1 DEF Fits, Shape
<1>2. CASE op[r].kind # "list"
  <2>1. Sure(r)' => Relies(r)
    BY <1>2, SureBefore DEF Relies
  <2> QED BY <2>1 DEF Fits, Shape
<1> QED BY <1>1, <1>2

\* A request slot without a request.
LEMMA IdleFits ==
    ASSUME NEW r \in Reqs, op'[r].kind = "none", op'[r].pc = "done", op'[r].pairs = {},
           op'[r].next = "done", op'[r].ask = "one"
    PROVE  Fits(r)'
<1>1. Shape(op'[r])
  BY DEF Shape, Saved
<1>2. Refs(r)'
  BY DEF Refs, Heading
<1>3. Maker(r)' /\ Importer(r)' /\ Reader(r)' /\ Lister(r)'
  BY DEF Maker, Importer, Reader, Lister
<1> QED BY <1>1, <1>2, <1>3 DEF Fits, Shape

\* A request that ends leaves its slot empty.
LEMMA EndFits ==
    ASSUME IInv, NEW r \in Reqs, NEW result, End(r, result)
    PROVE  Fits(r)'
<1>1. op \in [Reqs -> Requests]
  BY DEF IInv, TypeOK
<1>2. op'[r] = [NoRequest EXCEPT !.result = result]
  BY <1>1 DEF End
<1>3. /\ op'[r].kind = "none" /\ op'[r].pc = "done" /\ op'[r].pairs = {} /\ op'[r].next = "done"
      /\ op'[r].ask = "one"
  BY <1>2 DEF NoRequest
<1> QED BY <1>3, IdleFits

\* A request that goes its way: it takes its lock, or notes what it knows.
Walks(r) ==
    /\ op'[r].kind = op[r].kind /\ op'[r].name = op[r].name /\ op'[r].an = op[r].an
    /\ op'[r].how = op[r].how /\ op'[r].ask = op[r].ask /\ op'[r].pairs = op[r].pairs
    /\ op[r].pc # "done" /\ op'[r].pc \in {"lock", "fetch", "create", "save", "write"}
    /\ op'[r].next \in {op[r].next, "done"}
    /\ Heading(op'[r]) => Heading(op[r])
    /\ Saved(op'[r]) => Saved(op[r]) \/ op[r].kind = "list"
    /\ op'[r].pc = "create" => op[r].pc = "relock"
    /\ op[r].kind = "list" => /\ op[r].pc \in {"replace", "save", "write"}
                              /\ op'[r].pc \in {"save", "write"} /\ op'[r].put = op[r].put

\* A request that goes its way fits.
LEMMA WalkFits ==
    ASSUME IInv, IInv', Leading, Recalled, Growing, NEW r \in Reqs, UNCHANGED vol, Walks(r)
    PROVE  Fits(r)'
<1>0. /\ op[r].name \in DockerNames /\ Fits(r) /\ Shape(op[r])
      /\ op[r].pc = "relock" => op[r].an \in ArrayNames
      /\ Heading(op[r]) => op[r].an \in ArrayNames
  BY ReqOf DEF Leading, Fits, Sane, Walks, Heading
<1> PICK n \in DockerNames : n = op[r].name
  BY <1>0
<1>1. op'[r].name = n /\ arrayName[n] \in ArrayNames
  BY ArrayNamesIn DEF Walks
<1>2. /\ Leads(n)' = Leads(n) /\ LiveTagged(n)' = LiveTagged(n) /\ vol' = vol
      /\ \A a \in ArrayNames : Present(a)' = Present(a) /\ Live(a)' = Live(a) /\ Unused(a)' = Unused(a)
      /\ \A a \in ArrayNames : Its(a, n) => Its(a, n)'
  BY StillMeans
<1>3. seen[r].there \subseteq seen'[r].there /\ seen[r].absent \subseteq seen'[r].absent
  BY DEF Recalled, Walks
<1>4. Shape(op'[r])
  BY <1>0 DEF Shape, Walks, Saved
<1>5. Refs(r)'
  <2>1. ASSUME op[r].an \in ArrayNames, Its(op[r].an, n) PROVE Its(op[r].an, n)'
    <3> PICK a \in ArrayNames : a = op[r].an
      BY <2>1
    <3> QED BY <1>2, <2>1 DEF Walks, Its
  <2> QED BY <1>0, <1>1, <2>1 DEF Refs, Walks, Fits
<1>6. ASSUME Sure(r) PROVE Maker(r)'
  <2> SUFFICES ASSUME op[r].kind \in {"create", "remove"} PROVE Maker(r)'
    BY DEF Maker, Walks
  <2>1. Heading(op'[r]) /\ op'[r].how # "cached" =>
           Leads(n)' \subseteq {op'[r].an} /\ (op'[r].an = arrayName[n] \/ vol'[op'[r].an].state \in {"live", "destroyed"})
    BY <1>0, <1>2, <1>6 DEF Fits, Maker, Walks, Present
  <2>2. op'[r].pc = "create" =>
           /\ Leads(n)' = {}
           /\ op'[r].an = arrayName[n] \/ (op'[r].an \in Spares[n] /\ vol'[op'[r].an].state = "none")
    BY <1>0, <1>2, <1>6 DEF Fits, Maker, Walks, Unused
  <2>3. Saved(op'[r]) => /\ op[r].kind = "remove" => n \in seen'[r].absent
                         /\ op[r].kind = "create" => n \in seen'[r].there
    BY <1>0, <1>3, <1>6 DEF Fits, Maker, Walks
  <2> QED BY <1>1, <2>1, <2>2, <2>3 DEF Maker, Walks, Unused, Present
<1>7. Sure(r) => Importer(r)'
  BY <1>0, <1>1, <1>2, <1>3 DEF Importer, Walks, Fits, Live
<1>8. Sure(r) => Reader(r)'
  BY <1>0, <1>1, <1>2, <1>3 DEF Reader, Walks, Fits, Present
<1>9. Lister(r)'
  BY <1>0, <1>3 DEF Lister, Walks, Fits, Growing
<1> QED BY <1>4, <1>5, <1>6, <1>7, <1>8, <1>9, FitsNext DEF Relies, Walks

-----------------------------------------------------------------------------
(* A request finds its volume. *)

\* What is known of a request that runs.
LEMMA Running ==
    ASSUME IInv, Leading, NEW r \in Reqs, op[r].pc # "done"
    PROVE  /\ op \in [Reqs -> Requests] /\ op[r] \in Requests /\ Sane(op[r]) /\ Shape(op[r]) /\ Fits(r)
           /\ h(r) \in Hosts /\ op[r].name \in DockerNames /\ op[r].kind # "none"
           /\ \A p \in op[r].pairs : p[1] \in ArrayNames /\ p[2] \in DockerNames
BY ReqOf DEF Leading, Fits, Sane, Shape, Requests

\* A request may end at any time when its last call changed nothing.
LEMMA EndFine ==
    ASSUME IInv, Leading, Growing, NEW r \in Reqs, NEW result, End(r, result), UNCHANGED <<vol, names>>
    PROVE  Fine(r)
BY EndFits, Still DEF Fine

\* A name that is not muddled leads to every live volume that is its.
LEMMA ItsLeads ==
    ASSUME Leading, NEW n \in DockerNames, n \notin muddled, NEW a \in ArrayNames, Its(a, n), Live(a)
    PROVE  Leads(n) = {a}
<1>1. a \in Leads(n) /\ Leads(n) \subseteq ArrayNames
  BY DEF Its, Leads, Live
<1> QED BY <1>1 DEF Leading, VolumesInOrder

\* A cached name is taken, to be checked; one that was put back meanwhile misleads
\* unless its volume lives.
LEMMA ResolveCachedFine ==
    ASSUME IInv, IInv', Leading, Recalled, Growing, Recorded, NEW r \in Reqs, ResolveCached(r)
    PROVE  Fine(r)
<1>0. /\ op[r].pc = "resolve" /\ UNCHANGED <<vol, names>>
  BY DEF ResolveCached, At, hostVars
<1>1. /\ op[r] \in Requests /\ Sane(op[r]) /\ Shape(op[r]) /\ Fits(r) /\ h(r) \in Hosts
      /\ op[r].name \in DockerNames /\ op[r].kind \notin {"none", "import", "list"}
  BY <1>0, Running DEF Sane, Shape
<1> PICK n \in DockerNames : n = op[r].name
  BY <1>1
<1> PICK a \in ArrayNames : a = names[h(r)][n]
  BY <1>1, Types DEF ResolveCached, IInv
<1> DEFINE o == op'[r]
<1>2. /\ o.kind = op[r].kind /\ o.name = n /\ o.ask = op[r].ask /\ o.next = op[r].next
      /\ o.pairs = op[r].pairs /\ o.an = a /\ o.pc \in {"lock", "fetch"}
      /\ o.how = IF op[r].how = "fresh" THEN "cached" ELSE op[r].how
  BY <1>1, Running, <1>0 DEF ResolveCached, Resolved, Requests
<1> HIDE DEF o
<1>3. Shape(o)
  BY <1>0, <1>1, <1>2 DEF Shape, Saved
<1>4. Its(a, n) /\ Its(a, n)' /\ a # None
  BY <1>0, <1>1, ArrayNamesIn, StillMeans DEF Leading, CacheInOrder
<1>5. Relies(r) /\ op[r].how = "again" => Live(a)
  <2> SUFFICES ASSUME op[r].how = "again", r \notin misled' PROVE Live(a)
    BY DEF Relies
  <2>1. ~Misleads(r)
    BY <1>2 DEF Recorded, o
  <2> QED BY <2>1, <1>0, <1>2 DEF Misleads, At, o
<1>6. op[r].how \in {"fresh", "cached", "again"}
  BY <1>1 DEF Requests
<1>7. Relies(r) /\ op[r].how = "again" => Leads(n)' = {a} /\ vol'[a].state = "live"
  <2> SUFFICES ASSUME Relies(r), op[r].how = "again" PROVE Leads(n)' = {a} /\ vol'[a].state = "live"
    OBVIOUS
  <2>1. n \notin muddled /\ Live(a)
    BY <1>1, <1>5 DEF Relies, Sure
  <2>2. Leads(n) = {a}
    BY <2>1, <1>4, ItsLeads
  <2> QED BY <1>0, <2>1, <2>2, StillMeans DEF Live
<1>8. Refs(r)'
  BY <1>2, <1>4 DEF Refs, Heading, o
<1>9. Relies(r) => Maker(r)'
  BY <1>2, <1>6, <1>7 DEF Maker, Heading, Saved, Present, o
<1>10. Relies(r) => Reader(r)'
  BY <1>2, <1>6, <1>7 DEF Reader, Heading, Present, o
<1>11. Importer(r)' /\ Lister(r)'
  BY <1>1, <1>2 DEF Importer, Lister, o
<1>12. Fits(r)'
  BY <1>2, <1>3, <1>8, <1>9, <1>10, <1>11, FitsNext DEF o
<1> QED BY <1>0, <1>12, Still DEF Fine

\* A name that is not cached is looked up.
LEMMA ResolveMissFine ==
    ASSUME IInv, IInv', Leading, Recalled, Growing, NEW r \in Reqs, ResolveMiss(r)
    PROVE  Fine(r)
<1>0. /\ op[r].pc = "resolve" /\ UNCHANGED <<vol, names>>
  BY DEF ResolveMiss, At, hostVars
<1>1. /\ op[r] \in Requests /\ Sane(op[r]) /\ Shape(op[r]) /\ Fits(r)
      /\ op[r].kind \notin {"none", "import", "list"}
  BY <1>0, Running DEF Sane, Shape
<1> DEFINE o == op'[r]
<1>2. /\ o.kind = op[r].kind /\ o.name = op[r].name /\ o.ask = op[r].ask /\ o.next = op[r].next
      /\ o.pairs = op[r].pairs /\ o.pc = "tags"
  BY <1>0, Running DEF ResolveMiss, Goto, Requests
<1> HIDE DEF o
<1>3. Shape(o)
  BY <1>0, <1>1, <1>2 DEF Shape, Saved
<1>4. Refs(r)' /\ Maker(r)' /\ Reader(r)'
  BY <1>2 DEF Refs, Maker, Reader, Heading, Saved, o
<1>5. Importer(r)' /\ Lister(r)'
  BY <1>1, <1>2 DEF Importer, Lister, o
<1>6. Fits(r)'
  BY <1>2, <1>3, <1>4, <1>5, FitsNext DEF o
<1> QED BY <1>0, <1>6, Still DEF Fine

\* What the history knows of the moment a step ends, when the volumes stay.
LEMMA NowSeen ==
    ASSUME SeenNow', UNCHANGED vol, Growing, NEW r \in Reqs, NEW n \in DockerNames, op'[r].pc # "done",
           op'[r].kind = "list" \/ n = op'[r].name
    PROVE  /\ op'[r].kind \in {"create", "import", "mount", "list"} /\ LiveTagged(n) # {} => n \in seen'[r].there
           /\ op'[r].kind \in {"get", "mount"} /\ Leads(n) = {} => n \in seen'[r].absent
           /\ op'[r].kind \in {"remove", "list"} /\ LiveTagged(n) = {} => n \in seen'[r].absent
<1>1. /\ op'[r].kind \in {"create", "import", "mount", "list"} /\ There(r, n)' => n \in seen'[r].there
      /\ op'[r].kind \in {"remove", "get", "mount", "list"} /\ ~There(r, n)' => n \in seen'[r].absent
  BY DEF SeenNow, At, About, Absent
<1>2. /\ LiveTagged(n)' = LiveTagged(n) /\ Live(arrayName[n])' = Live(arrayName[n])
      /\ Leads(n)' = Leads(n) /\ arrayName[n] \in ArrayNames
  BY StillMeans, ArrayNamesIn
<1>3. Leads(n) = {} => LiveTagged(n) = {} /\ ~Live(arrayName[n])
  BY <1>2 DEF Leads, LiveTagged, Tagged, Present, Live
<1> QED BY <1>1, <1>2, <1>3 DEF There

\* A volume with the name's tag is the name's.
LEMMA TaggedPair ==
    ASSUME IInv, VolumesInOrder, NEW a \in ArrayNames, NEW n \in DockerNames, a \in Tagged(n)
    PROVE  Its(a, n) /\ Present(a) /\ vol[a].tag = n
BY ArrayNamesIn DEF Tagged, VolumesInOrder, Its, Own

\* The tags as they are now.
LEMMA ReadTagsFine ==
    ASSUME IInv, IInv', Leading, SeenNow', Recalled, Growing, NEW r \in Reqs, ReadTags(r)
    PROVE  Fine(r)
<1>0. op[r].pc = "tags" /\ UNCHANGED <<vol, names>> /\ VolumesInOrder
  BY DEF ReadTags, At, hostVars, Leading
<1>1. /\ op[r] \in Requests /\ Sane(op[r]) /\ Shape(op[r]) /\ Fits(r) /\ op \in [Reqs -> Requests]
      /\ op[r].name \in DockerNames /\ op[r].kind # "none"
  BY <1>0, Running
<1> PICK n \in DockerNames : n = op[r].name
  BY <1>1
<1> DEFINE asked == IF op[r].ask = "all" THEN DockerNames ELSE {n}
           c == arrayName[n]
           o == op'[r]
           pairs == {p \in ArrayNames \X asked : p[1] \in Tagged(p[2])}
<1>2. /\ o.kind = op[r].kind /\ o.name = n /\ o.ask = op[r].ask /\ o.next = op[r].next /\ o.an = op[r].an
      /\ o.pairs = pairs /\ o.pc = IF pairs = {} THEN "answer" ELSE "destroyed"
  BY <1>1 DEF ReadTags, Requests
<1>3. /\ \A p \in pairs : p[1] \in ArrayNames /\ p[2] \in asked /\ p[1] \in Tagged(p[2])
      /\ \A a \in ArrayNames, m \in asked : a \in Tagged(m) => <<a, m>> \in pairs
      /\ asked \subseteq DockerNames /\ n \in asked
  OBVIOUS
<1> HIDE DEF o, asked, pairs
<1>4. \A p \in pairs : Its(p[1], p[2]) /\ Present(p[1]) /\ vol[p[1]].tag = p[2]
  BY <1>0, <1>3, TaggedPair
<1>5. op[r].ask = "one" => asked = {n}
  BY DEF asked
<1>6. Shape(o)
  BY <1>0, <1>1, <1>2, <1>3, <1>5 DEF Shape, Saved
<1>7. o.pc # "done" /\ o.pc \in {"answer", "destroyed"} /\ c \in ArrayNames
  BY <1>2, ArrayNamesIn
<1>8. Refs(r)'
  <2>1. \A p \in pairs : Its(p[1], p[2])'
    BY <1>0, <1>3, <1>4, StillMeans
  <2> QED BY <2>1, <1>2, <1>7 DEF Refs, Heading, o
<1>9. /\ Leads(n)' = Leads(n) /\ LiveTagged(n)' = LiveTagged(n) /\ vol' = vol
  BY <1>0, StillMeans
<1>10. \A m \in asked : \A a \in LiveTagged(m) : <<a, m>> \in pairs
  BY <1>3 DEF LiveTagged, Tagged
<1>11. Maker(r)'
  <2> SUFFICES ASSUME op[r].kind \in {"create", "remove"} PROVE Maker(r)'
    BY <1>2 DEF Maker, o
  <2>1. op[r].ask = "one"
    BY <1>1 DEF Shape
  <2>2. \A a \in LiveTagged(n)' : \E p \in pairs : p[1] = a
    <3>1. \A a \in LiveTagged(n) : \E p \in pairs : p[1] = a
      BY <1>3, <1>10
    <3> QED BY <3>1, <1>9
  <2>3. \A p \in pairs : Present(p[1])' /\ vol'[p[1]].tag = n
    BY <1>3, <1>4, <1>5, <1>9, <2>1 DEF Present
  <2>4. o.pc = "answer" => \A p \in o.pairs : Leads(n)' \subseteq {p[1]}
    BY <1>2
  <2> QED BY <2>2, <2>3, <2>4, <1>2, <1>7 DEF Maker, Heading, Saved, o
<1>12. ASSUME Sure(r) PROVE Importer(r)'
  <2> SUFFICES ASSUME op[r].kind = "import" PROVE Importer(r)'
    BY <1>2 DEF Importer, o
  <2>1. op[r].an \in ArrayNames /\ seen[r].there \subseteq seen'[r].there
    BY <1>1, <1>7, ArrayNamesIn DEF Shape, Recalled, o
  <2> PICK b \in ArrayNames : b = op[r].an
    BY <2>1
  <2>3. \A a \in LiveTagged(n) : \E p \in pairs : p[1] = a
    BY <1>3, <1>10
  <2>4. op[r].ask = "all" => LiveTagged(n) \subseteq {b}
    BY <1>1, <1>12 DEF Fits, Importer
  <2>5. vol[b].state = "live" /\ vol[b].tag = n => <<b, n>> \in pairs
    BY <1>3 DEF Tagged, Present
  <2>6. <<b, n>> \in pairs => vol[b].tag = n
    BY <1>4
  <2>7. vol[b].tag = n => n \in seen'[r].there
    BY <1>0, <1>1, <1>12, <2>1 DEF Fits, Importer
  <2> QED BY <2>3, <2>4, <2>5, <2>6, <2>7, <1>2, <1>7, <1>9 DEF Importer, Live, Saved, o
<1>13. Reader(r)'
  <2> SUFFICES ASSUME op[r].kind \in {"get", "mount"}, n \notin seen'[r].absent PROVE Reader(r)'
    BY <1>2 DEF Reader, o
  <2>1. op[r].ask = "one" /\ op[r].kind # "list"
    BY <1>1 DEF Shape
  <2>2. PICK a \in Leads(n) : TRUE
    BY <1>0, <1>2, <1>7, NowSeen DEF o
  <2>3. a = c \/ <<a, n>> \in pairs
    BY <1>3, <2>2 DEF Leads, Tagged, Present, Live
  <2>4. \A p \in pairs : vol'[p[1]].state \in {"live", "destroyed"}
    BY <1>4, <1>9 DEF Present
  <2>5. pairs = {} => vol'[c].state \in {"live", "destroyed"}
    BY <2>2, <2>3, <1>9 DEF Leads, Live
  <2>6. \E b \in Leads(n)' : b = c \/ <<b, n>> \in pairs
    BY <1>9, <2>2, <2>3
  <2> QED BY <2>4, <2>5, <2>6, <1>2, <1>7 DEF Reader, Present, Heading, o
<1>14. Lister(r)'
  <2> SUFFICES ASSUME op[r].kind = "list", NEW m \in DockerNames
               PROVE  /\ o.pc = "destroyed" =>
                         /\ m \notin seen'[r].absent =>
                              \E p \in pairs : p[2] = m /\ (p[1] \in LiveTagged(m)' \/ vol'[p[1]].state = "none")
                         /\ \A p \in pairs : p[2] = m =>
                              m \in seen'[r].there \/ (vol'[p[1]].state = "destroyed" /\ vol'[p[1]].tag = m)
                      /\ o.pc = "answer" =>
                         /\ m \notin seen'[r].absent => \E p \in pairs : p[2] = m
                         /\ \A p \in pairs : p[2] = m => m \in seen'[r].there
    BY <1>2, <1>7 DEF Lister, Unused, o
  <2>1. m \in asked
    BY <1>1 DEF Shape, asked
  <2>2. ASSUME m \notin seen'[r].absent
        PROVE  \E p \in pairs : p[2] = m /\ p[1] \in LiveTagged(m)'
    <3>1. LiveTagged(m) # {} /\ LiveTagged(m)' = LiveTagged(m)
      BY <1>0, <1>2, <1>7, <2>2, NowSeen, StillMeans DEF o
    <3> QED BY <3>1, <2>1, <1>10
  <2>3. ASSUME NEW p \in pairs, p[2] = m
        PROVE  m \in seen'[r].there \/ (vol'[p[1]].state = "destroyed" /\ vol'[p[1]].tag = m)
    <3>1. vol[p[1]].tag = m /\ vol[p[1]].state \in {"live", "destroyed"} /\ p[1] \in ArrayNames
      BY <1>3, <1>4, <2>3 DEF Present
    <3>2. vol[p[1]].state = "live" => LiveTagged(m) # {}
      BY <3>1 DEF LiveTagged, Tagged, Present, Live
    <3>3. LiveTagged(m) # {} => m \in seen'[r].there
      BY <1>0, <1>2, <1>7, NowSeen DEF o
    <3> QED BY <3>1, <3>2, <3>3, <1>9
  <2>4. o.pc = "answer" => pairs = {}
    BY <1>2
  <2> QED BY <2>2, <2>3, <2>4
<1>15. Fits(r)'
  BY <1>2, <1>6, <1>7, <1>8, <1>11, <1>12, <1>13, <1>14, FitsNext DEF Relies, o
<1> QED BY <1>0, <1>15, Still DEF Fine

\* Of the tags read before, those of volumes destroyed now are left out.
LEMMA ReadDestroyedFine ==
    ASSUME IInv, IInv', Leading, SeenNow', Recalled, Growing, NEW r \in Reqs, ReadDestroyed(r)
    PROVE  Fine(r)
<1>0. op[r].pc = "destroyed" /\ UNCHANGED <<vol, names>> /\ VolumesInOrder
  BY DEF ReadDestroyed, At, hostVars, Leading
<1>1. /\ op[r] \in Requests /\ Sane(op[r]) /\ Shape(op[r]) /\ Fits(r) /\ op \in [Reqs -> Requests]
      /\ op[r].name \in DockerNames /\ op[r].kind # "none"
      /\ \A p \in op[r].pairs : p[1] \in ArrayNames /\ p[2] \in DockerNames
  BY <1>0, Running
<1> PICK n \in DockerNames : n = op[r].name
  BY <1>1
<1> DEFINE c == arrayName[n]
           o == op'[r]
           pairs == {p \in op[r].pairs : vol[p[1]].state # "destroyed"}
<1>2. /\ o.kind = op[r].kind /\ o.name = n /\ o.ask = op[r].ask /\ o.next = op[r].next /\ o.an = op[r].an
      /\ o.pairs = pairs /\ o.pc = "answer"
  BY <1>1 DEF ReadDestroyed, Requests
<1>3. \A p : p \in pairs <=> p \in op[r].pairs /\ vol[p[1]].state # "destroyed"
  OBVIOUS
<1> HIDE DEF o, pairs
<1>4. Shape(o)
  BY <1>0, <1>1, <1>2, <1>3 DEF Shape, Saved
<1>5. /\ c \in ArrayNames /\ Leads(n)' = Leads(n) /\ LiveTagged(n)' = LiveTagged(n) /\ vol' = vol
      /\ \A a \in LiveTagged(n) : a \in ArrayNames /\ vol[a].state = "live"
      /\ \A a \in Leads(n) : a \in ArrayNames /\ vol[a].state = "live"
  BY <1>0, StillMeans, ArrayNamesIn DEF LiveTagged, Tagged, Live, Leads
<1>6. seen[r].there \subseteq seen'[r].there /\ seen[r].absent \subseteq seen'[r].absent
  BY <1>2 DEF Recalled, o
<1>7. Refs(r)'
  <2>1. \A p \in pairs : Its(p[1], p[2])'
    BY <1>0, <1>1, <1>3, StillMeans DEF Fits, Refs
  <2> QED BY <2>1, <1>2 DEF Refs, Heading, o
<1>8. ASSUME Sure(r) PROVE Maker(r)'
  <2> SUFFICES ASSUME op[r].kind \in {"create", "remove"} PROVE Maker(r)'
    BY <1>2 DEF Maker, o
  <2>1. /\ \A a \in LiveTagged(n) : \E p \in op[r].pairs : p[1] = a
        /\ \A p \in op[r].pairs : Present(p[1]) /\ vol[p[1]].tag = n
    BY <1>0, <1>1, <1>8 DEF Fits, Maker
  <2>2. \A a \in LiveTagged(n)' : \E p \in pairs : p[1] = a
    BY <2>1, <1>3, <1>5
  <2>3. \A p \in pairs : Present(p[1])' /\ vol'[p[1]].tag = n
    BY <2>1, <1>3, <1>5 DEF Present
  <2>4. \A p \in pairs : Leads(n)' \subseteq {p[1]}
    <3> SUFFICES ASSUME NEW p \in pairs PROVE Leads(n) \subseteq {p[1]}
      BY <1>5
    <3>1. p[1] \in Leads(n)
      BY <2>1, <1>1, <1>3 DEF Leads, Live, Present
    <3>2. n \notin muddled
      BY <1>8 DEF Sure
    <3> QED BY <3>1, <3>2, <1>0, <1>5 DEF VolumesInOrder
  <2> QED BY <2>2, <2>3, <2>4, <1>2 DEF Maker, Heading, Saved, o
<1>9. ASSUME Sure(r) PROVE Importer(r)'
  <2> SUFFICES ASSUME op[r].kind = "import" PROVE Importer(r)'
    BY <1>2 DEF Importer, o
  <2>1. op[r].an \in ArrayNames
    BY <1>1, ArrayNamesIn DEF Shape
  <2> PICK b \in ArrayNames : b = op[r].an
    BY <2>1
  <2>3. op[r].ask = "one" => \A a \in LiveTagged(n) : \E p \in pairs : p[1] = a
    BY <1>0, <1>1, <1>3, <1>5, <1>9 DEF Fits, Importer
  <2>4. op[r].ask = "all" => LiveTagged(n) \subseteq {b}
    BY <1>1, <1>9 DEF Fits, Importer
  <2>5. op[r].ask = "all" /\ vol[b].state = "live" /\ vol[b].tag = n => <<b, n>> \in pairs
    BY <1>0, <1>1, <1>3, <1>9 DEF Fits, Importer, Live
  <2>6. op[r].ask = "all" /\ <<b, n>> \in pairs => vol[b].tag = n
    BY <1>0, <1>1, <1>3, <1>9 DEF Fits, Importer
  <2>7. vol[b].tag = n => n \in seen'[r].there
    BY <1>0, <1>1, <1>6, <1>9 DEF Fits, Importer
  <2> QED BY <2>3, <2>4, <2>5, <2>6, <2>7, <1>2, <1>5 DEF Importer, Live, Saved, o
<1>10. ASSUME Sure(r) PROVE Reader(r)'
  <2> SUFFICES ASSUME op[r].kind \in {"get", "mount"}, n \notin seen'[r].absent PROVE Reader(r)'
    BY <1>2 DEF Reader, o
  <2>1. PICK a \in Leads(n) : a = c \/ <<a, n>> \in op[r].pairs
    BY <1>0, <1>1, <1>6, <1>10 DEF Fits, Reader
  <2>2. \A p \in pairs : vol'[p[1]].state \in {"live", "destroyed"}
    BY <1>0, <1>1, <1>3, <1>5, <1>6, <1>10 DEF Fits, Reader, Present
  <2>3. pairs = {} => vol'[c].state \in {"live", "destroyed"}
    BY <2>1, <1>3, <1>5
  <2> QED BY <2>2, <2>3, <1>2 DEF Reader, Present, Heading, o
<1>11. Lister(r)'
  <2> SUFFICES ASSUME op[r].kind = "list", NEW m \in DockerNames, m \notin muddled'
               PROVE  /\ m \notin seen'[r].absent => \E p \in pairs : p[2] = m
                      /\ \A p \in pairs : p[2] = m => m \in seen'[r].there
    BY <1>2 DEF Lister, o
  <2>0. m \notin muddled
    BY DEF Growing
  <2>1. ASSUME m \notin seen'[r].absent PROVE \E p \in pairs : p[2] = m
    <3>1. PICK p \in op[r].pairs : p[2] = m /\ (p[1] \in LiveTagged(m) \/ Unused(p[1]))
      BY <1>0, <1>1, <1>6, <2>0, <2>1 DEF Fits, Lister
    <3>2. vol[p[1]].state # "destroyed"
      BY <3>1 DEF LiveTagged, Live, Unused
    <3> QED BY <3>1, <3>2, <1>3
  <2>2. \A p \in pairs : p[2] = m => m \in seen'[r].there
    BY <1>0, <1>1, <1>3, <1>6, <2>0 DEF Fits, Lister
  <2> QED BY <2>1, <2>2
<1>12. Fits(r)'
  BY <1>2, <1>4, <1>7, <1>8, <1>9, <1>10, <1>11, FitsNext DEF Relies, o
<1> QED BY <1>0, <1>12, Still DEF Fine

\* A cache that gets what the name leads to, or loses it, stays in order.
LEMMA CacheSet ==
    ASSUME IInv, Leading, NEW x \in Hosts, NEW n \in DockerNames, NEW a \in ArrayNames \union {None},
           names' = [names EXCEPT ![x][n] = a], a # None => Its(a, n), UNCHANGED vol, Growing
    PROVE  CacheInOrder'
<1>1. \A y \in Hosts, m \in DockerNames : names'[y][m] = IF y = x /\ m = n THEN a ELSE names[y][m]
  BY DEF IInv, TypeOK
<1>2. \A b \in ArrayNames, m \in DockerNames : Its(b, m) => Its(b, m)'
  BY StillMeans
<1> SUFFICES ASSUME NEW y \in Hosts, NEW m \in DockerNames, NEW b \in ArrayNames,
                    names'[y][m] = b PROVE Its(b, m)'
  <2>1. \A y \in Hosts, m \in DockerNames : names[y][m] \in ArrayNames \union {None}
    BY Types DEF IInv
  <2>2. \A y \in Hosts, m \in DockerNames : names'[y][m] \in ArrayNames \union {None}
    BY <1>1, <2>1
  <2> QED BY <2>2 DEF CacheInOrder, Its
<1> QED BY <1>1, <1>2, ArrayNamesIn DEF Leading, CacheInOrder

\* The request knows what its name leads to.
LEMMA KnownNextFields ==
    ASSUME IInv, NEW r \in Reqs, NEW a, NEW next, KnownNext(r, a, next), op[r].name \in DockerNames
    PROVE  /\ op'[r].kind = op[r].kind /\ op'[r].name = op[r].name /\ op'[r].ask = op[r].ask
           /\ op'[r].how = op[r].how /\ op'[r].pc = "known" /\ op'[r].next = next
           /\ op'[r].pairs = {} /\ op'[r].an = IF a = None THEN op[r].an ELSE a
<1>1. op[r] \in Requests /\ op \in [Reqs -> Requests]
  BY ReqOf
<1> DEFINE put == [NoNames EXCEPT ![op[r].name] = a]
           an == IF a = None THEN op[r].an ELSE a
           o == [op[r] EXCEPT !.pc = "known", !.put = put, !.an = an, !.pairs = {}, !.next = next]
<1>2. op' = [op EXCEPT ![r] = o]
  BY <1>1 DEF KnownNext
<1>3. op'[r] = o
  BY <1>1, <1>2
<1> HIDE DEF put, an
<1>4. /\ o.pc = "known" /\ o.next = next /\ o.name = op[r].name /\ o.ask = op[r].ask /\ o.pairs = {}
      /\ o.an = an /\ o.kind = op[r].kind /\ o.how = op[r].how
  BY <1>1 DEF Requests
<1> QED BY <1>3, <1>4 DEF an

\* A name that leads to this volume.
LEMMA HeadingFits ==
    ASSUME IInv, IInv', Leading, Recalled, Growing, NEW r \in Reqs, UNCHANGED vol, NEW a \in ArrayNames,
           op[r].kind \in {"create", "remove", "get", "mount"}, NEW n \in DockerNames, n = op[r].name,
           /\ op'[r].kind = op[r].kind /\ op'[r].name = n /\ op'[r].ask = op[r].ask
           /\ op'[r].an = a /\ op'[r].how = op[r].how,
           \A p \in op'[r].pairs : p \in op[r].pairs,
           \/ op'[r].pc \in {"lock", "fetch"}
           \/ op'[r].pc = "known" /\ op'[r].next # "done",
           Its(a, n), Shape(op[r]),
           Sure(r) /\ op[r].kind \in {"create", "remove"} =>
               Leads(n) \subseteq {a} /\ (a = arrayName[n] \/ Present(a)),
           Sure(r) /\ op[r].kind \in {"get", "mount"} /\ n \notin seen[r].absent => Present(a)
    PROVE  Fits(r)'
<1> DEFINE o == op'[r]
<1>1. o.kind \notin {"list", "import", "none"} /\ o.pc # "done"
  OBVIOUS
<1>2. Shape(o)
  BY <1>1 DEF Shape, Saved
<1>3. Its(a, n)' /\ Leads(n)' = Leads(n) /\ vol' = vol
  BY StillMeans
<1>4. seen[r].absent \subseteq seen'[r].absent
  BY <1>1 DEF Recalled
<1>5. Refs(r)'
  BY <1>1, <1>3 DEF Refs
<1>6. Sure(r) => Maker(r)'
  BY <1>1, <1>3 DEF Maker, Saved, Present
<1>7. Sure(r) => Reader(r)'
  BY <1>1, <1>3, <1>4 DEF Reader, Present
<1>8. Importer(r)' /\ Lister(r)'
  BY <1>1 DEF Importer, Lister
<1> QED BY <1>1, <1>2, <1>5, <1>6, <1>7, <1>8, FitsNext DEF Relies

\* One tag leads to its volume, none to the computed name.
LEMMA LookedFine ==
    ASSUME IInv, IInv', Leading, Recalled, Growing, NEW r \in Reqs, Looked(r)
    PROVE  Fine(r)
<1>0. op[r].pc = "answer" /\ UNCHANGED vol /\ op[r].kind \notin {"list", "import"}
  BY DEF Looked, At
<1>1. /\ op[r] \in Requests /\ Sane(op[r]) /\ Shape(op[r]) /\ Fits(r) /\ op \in [Reqs -> Requests]
      /\ op[r].name \in DockerNames /\ op[r].kind \in {"create", "remove", "get", "mount"}
      /\ op[r].ask = "one" /\ h(r) \in Hosts
      /\ \A p \in op[r].pairs : p[1] \in ArrayNames /\ p[2] \in DockerNames
  BY <1>0, Running DEF Requests, Shape
<1> PICK n \in DockerNames : n = op[r].name
  BY <1>1
<1> PICK c \in ArrayNames : c = arrayName[n]
  BY ArrayNamesIn
<1>2. ASSUME op[r].pairs = {}, UNCHANGED <<names, slot>>,
             op' = [op EXCEPT ![r].an = arrayName[op[r].name], ![r].pc = Resolved(r)]
      PROVE  Fine(r)
  <2>1. /\ op'[r].kind = op[r].kind /\ op'[r].name = n /\ op'[r].ask = op[r].ask /\ op'[r].an = c
        /\ op'[r].how = op[r].how /\ op'[r].pairs = op[r].pairs /\ op'[r].pc \in {"lock", "fetch"}
    BY <1>1, <1>2 DEF Requests, Resolved
  <2>2. Its(c, n)
    BY DEF Its
  <2>3. Sure(r) /\ op[r].kind \in {"create", "remove"} => Leads(n) \subseteq {c}
    <3>1. Sure(r) /\ op[r].kind \in {"create", "remove"} => LiveTagged(n) = {}
      BY <1>0, <1>1, <1>2 DEF Fits, Maker
    <3> QED BY <3>1 DEF Leads, LiveTagged, Tagged, Present, Live
  <2>4. Sure(r) /\ op[r].kind \in {"get", "mount"} /\ n \notin seen[r].absent => Present(c)
    BY <1>0, <1>1, <1>2 DEF Fits, Reader
  <2>5. Fits(r)'
    BY <1>0, <1>1, <2>1, <2>2, <2>3, <2>4, HeadingFits
  <2> QED BY <1>0, <1>2, <2>5, Still DEF Fine
<1>3. ASSUME NEW p \in op[r].pairs, op[r].pairs = {p},
             names' = [names EXCEPT ![h(r)][op[r].name] = p[1]], KnownNext(r, p[1], Resolved(r))
      PROVE  Fine(r)
  <2>0. p[1] \in ArrayNames /\ p[2] = n
    BY <1>1 DEF Shape
  <2> PICK a \in ArrayNames : a = p[1]
    BY <2>0
  <2>1. a # None /\ Resolved(r) # "done"
    BY ArrayNamesIn DEF Resolved
  <2>2. /\ op'[r].kind = op[r].kind /\ op'[r].name = n /\ op'[r].ask = op[r].ask /\ op'[r].an = a
        /\ op'[r].how = op[r].how /\ op'[r].pairs = {} /\ op'[r].pc = "known" /\ op'[r].next # "done"
    BY <1>1, <1>3, <2>1, KnownNextFields
  <2>3. Its(a, n)
    BY <1>0, <1>1, <2>0 DEF Fits, Refs
  <2>4. Sure(r) /\ op[r].kind \in {"create", "remove"} => Leads(n) \subseteq {a} /\ Present(a)
    BY <1>0, <1>1 DEF Fits, Maker
  <2>5. Sure(r) /\ op[r].kind \in {"get", "mount"} /\ n \notin seen[r].absent => Present(a)
    BY <1>0, <1>1 DEF Fits, Reader
  <2>6. Fits(r)'
    BY <1>0, <1>1, <2>2, <2>3, <2>4, <2>5, HeadingFits
  <2>7. CacheInOrder'
    BY <1>0, <1>1, <1>3, <2>3, CacheSet
  <2>8. Cares(r)
    BY <1>0, StillCares
  <2> QED BY <2>6, <2>7, <2>8 DEF Fine
<1>4. ASSUME End(r, OutageAnswer(r)), UNCHANGED names
      PROVE  Fine(r)
  BY <1>0, <1>4, EndFine
<1> QED BY <1>2, <1>3, <1>4 DEF Looked

\* A cached name whose volume is gone is given up ...
LEMMA FetchStaleFine ==
    ASSUME IInv, IInv', Leading, Recalled, Growing, NEW r \in Reqs, FetchStale(r)
    PROVE  Fine(r)
<1>0. op[r].pc = "fetch" /\ UNCHANGED <<vol, names>> /\ op[r].how = "cached"
  BY DEF FetchStale, At, hostVars
<1>1. /\ op[r] \in Requests /\ Sane(op[r]) /\ Shape(op[r]) /\ op \in [Reqs -> Requests]
      /\ op[r].kind \in {"create", "remove", "get", "mount"}
  BY <1>0, Running DEF Requests, Shape, Sane
<1> DEFINE o == op'[r]
<1>2. /\ o.kind = op[r].kind /\ o.name = op[r].name /\ o.ask = op[r].ask /\ o.pairs = op[r].pairs
      /\ o.pc = "stale" /\ o.next = op[r].next
  BY <1>1 DEF FetchStale, Requests
<1> HIDE DEF o
<1>3. Shape(o)
  BY <1>1, <1>2 DEF Shape, Saved
<1>4. Refs(r)' /\ Importer(r)' /\ Lister(r)' /\ Maker(r)' /\ Reader(r)'
  BY <1>1, <1>2 DEF Refs, Heading, Saved, Importer, Lister, Maker, Reader, o
<1>5. Fits(r)'
  BY <1>2, <1>3, <1>4, FitsNext DEF o
<1> QED BY <1>0, <1>5, Still DEF Fine

\* ... and dropped.
LEMMA ForgetStaleFine ==
    ASSUME IInv, IInv', Leading, Recalled, Growing, NEW r \in Reqs, ForgetStale(r)
    PROVE  Fine(r)
<1>0. op[r].pc = "stale" /\ UNCHANGED vol
  BY DEF ForgetStale, At
<1>1. /\ op[r] \in Requests /\ Sane(op[r]) /\ Shape(op[r]) /\ op \in [Reqs -> Requests]
      /\ op[r].name \in DockerNames /\ h(r) \in Hosts /\ op[r].kind \notin {"import", "none"}
  BY <1>0, Running DEF Sane
<1> DEFINE o == op'[r]
<1>2. /\ o.kind = op[r].kind /\ o.name = op[r].name /\ o.ask = op[r].ask /\ o.pairs = op[r].pairs
      /\ o.pc = "resolve" /\ o.next = op[r].next
  BY <1>1 DEF ForgetStale, Requests
<1> HIDE DEF o
<1>3. CacheInOrder'
  BY <1>0, <1>1, CacheSet DEF ForgetStale
<1>4. Shape(o)
  BY <1>0, <1>1, <1>2 DEF Shape, Saved
<1>5. Refs(r)' /\ Importer(r)' /\ Lister(r)' /\ Maker(r)' /\ Reader(r)'
  BY <1>1, <1>2 DEF Refs, Heading, Saved, Importer, Lister, Maker, Reader, o
<1>6. Fits(r)'
  BY <1>2, <1>4, <1>5, FitsNext DEF o
<1> QED BY <1>0, <1>3, <1>6, StillCares DEF Fine

-----------------------------------------------------------------------------
(* A request that found its volume. *)

\* A Create or Remove that goes on fits, once it is a Maker still.
LEMMA MakerFits ==
    ASSUME Growing, Recalled, NEW r \in Reqs, Shape(op[r]), op[r].kind \in {"create", "remove"},
           Refs(r)', Relies(r) => Maker(r)',
           op'[r].kind = op[r].kind, op'[r].name = op[r].name, op'[r].ask = op[r].ask,
           \/ op[r].kind = "create" /\ op'[r].pc \in {"fresh", "relock", "create", "tag", "remember"}
           \/ op[r].kind = "remove" /\ op'[r].pc \in {"park", "rename", "destroy", "eradicate", "forget"}
           \/ op'[r].pc = "known" /\ op'[r].next = "done",
           \A p \in op'[r].pairs : p \in op[r].pairs
    PROVE  Fits(r)'
<1>1. Shape(op'[r]) /\ op'[r].pc # "done"
  BY DEF Shape, Saved
<1>2. Importer(r)' /\ Reader(r)' /\ Lister(r)'
  BY DEF Importer, Reader, Lister
<1> QED BY <1>1, <1>2, FitsNext

\* Whoever changes a name and has its array volume at hand, looked up just now.
LEMMA AtHand ==
    ASSUME IInv, Leading, NEW r \in Reqs, op[r].pc = "fetch", op[r].kind \in {"create", "remove"},
           NEW n \in DockerNames, n = op[r].name, NEW a \in ArrayNames, a = op[r].an,
           ~(op[r].how = "cached" /\ ~Live(a))
    PROVE  /\ Its(a, n)
           /\ Sure(r) => /\ Leads(n) \subseteq {a}
                         /\ ~Live(a) => Leads(n) = {}
                         /\ ~Present(a) => a = arrayName[n]
<1>1. Its(a, n)
  BY DEF Leading, Fits, Refs, Heading
<1> SUFFICES ASSUME Sure(r)
             PROVE  /\ Leads(n) \subseteq {a}
                    /\ ~Live(a) => Leads(n) = {}
                    /\ ~Present(a) => a = arrayName[n]
  BY <1>1
<1>2. op[r].how # "cached" => Leads(n) \subseteq {a} /\ (a = arrayName[n] \/ Present(a))
  BY DEF Leading, Fits, Maker, Heading
<1>3. Live(a) => Leads(n) = {a} /\ Present(a)
  BY <1>1, ItsLeads DEF Sure, Live, Present
<1>4. Leads(n) \subseteq {a}
  BY <1>2, <1>3
<1>5. ~Live(a) => Leads(n) = {}
  BY <1>4 DEF Leads
<1> QED BY <1>2, <1>3, <1>4, <1>5

\* What a request keeps on its way from the volume it found.
LEMMA OnwardFields ==
    ASSUME IInv, NEW r \in Reqs, NEW step, Onward(r, step)
    PROVE  /\ op'[r].kind = op[r].kind /\ op'[r].name = op[r].name /\ op'[r].ask = op[r].ask
           /\ op'[r].how = "fresh" /\ op'[r].pc = step /\ op'[r].next = op[r].next
           /\ op'[r].pairs = op[r].pairs /\ op'[r].an = op[r].an
BY ReqOf DEF Onward, Requests

\* Get has its volume, or none.
LEMMA FetchForGetFine ==
    ASSUME IInv, Leading, Growing, Recalled, NEW r \in Reqs, FetchForGet(r)
    PROVE  Fine(r)
<1>0. op[r].pc = "fetch" /\ UNCHANGED <<vol, names>> /\ op[r].kind = "get"
  BY DEF FetchForGet, Fetched, At, hostVars
<1>1. Shape(op[r]) /\ op[r].name \in DockerNames
  BY <1>0, Running
<1>2. ASSUME KnownNext(r, op[r].an, "done") PROVE Fine(r)
  <2>1. /\ op'[r].kind = "get" /\ op'[r].name = op[r].name /\ op'[r].ask = op[r].ask
        /\ op'[r].pc = "known" /\ op'[r].next = "done" /\ op'[r].pairs = {}
    BY <1>0, <1>1, <1>2, KnownNextFields
  <2>2. Shape(op'[r])
    BY <1>0, <1>1, <2>1 DEF Shape, Saved
  <2>3. Refs(r)' /\ Maker(r)' /\ Importer(r)' /\ Reader(r)' /\ Lister(r)'
    BY <2>1 DEF Refs, Heading, Maker, Importer, Reader, Lister
  <2>4. Fits(r)'
    BY <1>0, <2>1, <2>2, <2>3, FitsNext
  <2> QED BY <1>0, <2>4, Still DEF Fine
<1> QED BY <1>0, <1>2, EndFine DEF FetchForGet

\* Mount answers whatever it finds.
LEMMA FetchForMountFine ==
    ASSUME IInv, Leading, Growing, NEW r \in Reqs, FetchForMount(r)
    PROVE  Fine(r)
<1>1. PICK result : End(r, result) /\ UNCHANGED <<vol, names>>
  BY DEF FetchForMount, hostVars
<1> QED BY <1>1, EndFine

\* Create finds the volume there, or knows that the name leads to none.
LEMMA FetchForCreateFine ==
    ASSUME IInv, Leading, Growing, Recalled, NEW r \in Reqs, FetchForCreate(r)
    PROVE  Fine(r)
<1>0. op[r].pc = "fetch" /\ UNCHANGED <<vol, names>> /\ op[r].kind = "create" /\ vol' = vol
  BY DEF FetchForCreate, Fetched, At, hostVars
<1>1. Shape(op[r]) /\ op[r].name \in DockerNames /\ op[r].an \in ArrayNames
  BY <1>0, Running DEF Sane
<1> PICK n \in DockerNames, a \in ArrayNames : n = op[r].name /\ a = op[r].an
  BY <1>1
<1>2. /\ Its(a, n)
      /\ Sure(r) => /\ ~Live(a) => Leads(n) = {}
                    /\ ~Present(a) => a = arrayName[n]
      /\ ~Present(a) => ~Live(a)
  <2>1. ~(op[r].how = "cached" /\ ~Live(a))
    BY DEF FetchForCreate, Fetched
  <2> QED BY <1>0, <2>1, AtHand DEF Present, Live
<1>3. Leads(n)' = Leads(n) /\ Its(a, n)'
  BY <1>0, <1>2, StillMeans
<1>4. ASSUME NEW step \in {"fresh", "create"}, Onward(r, step), ~Live(a), step = "create" => ~Present(a)
      PROVE  Fine(r)
  <2>1. /\ op'[r].kind = "create" /\ op'[r].name = n /\ op'[r].ask = op[r].ask /\ op'[r].pc = step
        /\ op'[r].pairs = op[r].pairs /\ op'[r].an = a
    BY <1>0, <1>4, OnwardFields
  <2>2. Relies(r) => Maker(r)'
    BY <1>2, <1>3, <1>4, <2>1 DEF Maker, Heading, Saved, Relies
  <2>3. Refs(r)'
    BY <1>3, <2>1 DEF Refs, Heading
  <2>4. Fits(r)'
    BY <1>0, <1>1, <2>1, <2>2, <2>3, MakerFits
  <2> QED BY <1>0, <2>4, Still DEF Fine
<1>5. CASE End(r, "ok")
  BY <1>0, <1>5, EndFine
<1> QED BY <1>2, <1>4, <1>5 DEF FetchForCreate

\* Remove has the one volume the name leads to, or knows that it leads to none.
LEMMA FetchForRemoveFine ==
    ASSUME IInv, Leading, SeenNow', Growing, Recalled, NEW r \in Reqs, FetchForRemove(r)
    PROVE  Fine(r)
<1>0. op[r].pc = "fetch" /\ UNCHANGED <<vol, names>> /\ op[r].kind = "remove" /\ vol' = vol
  BY DEF FetchForRemove, Fetched, At, hostVars
<1>1. Shape(op[r]) /\ op[r].name \in DockerNames /\ op[r].an \in ArrayNames
  BY <1>0, Running DEF Sane
<1> PICK n \in DockerNames, a \in ArrayNames : n = op[r].name /\ a = op[r].an
  BY <1>1
<1>2. /\ Its(a, n)
      /\ Sure(r) => /\ Leads(n) \subseteq {a}
                    /\ ~Live(a) => Leads(n) = {}
      /\ ~Present(a) => ~Live(a)
  <2>1. ~(op[r].how = "cached" /\ ~Live(a))
    BY DEF FetchForRemove, Fetched
  <2> QED BY <1>0, <2>1, AtHand DEF Present, Live
<1>3. Leads(n)' = Leads(n) /\ Its(a, n)'
  BY <1>0, <1>2, StillMeans
<1>4. ASSUME NEW step \in {"forget", "destroy", "park"}, Onward(r, step),
             step = "forget" => ~Live(a), step = "park" => a = arrayName[n]
      PROVE  Fine(r)
  <2>1. /\ op'[r].kind = "remove" /\ op'[r].name = n /\ op'[r].ask = op[r].ask /\ op'[r].pc = step
        /\ op'[r].pairs = op[r].pairs /\ op'[r].an = a
    BY <1>0, <1>4, OnwardFields
  <2>2. Sure(r) /\ step = "forget" => n \in seen'[r].absent
    <3> SUFFICES ASSUME Sure(r), step = "forget" PROVE n \in seen'[r].absent
      OBVIOUS
    <3>1. LiveTagged(n) = {}
      BY <1>2, <1>4 DEF Leads, LiveTagged, Tagged, Present, Live
    <3> QED BY <3>1, <1>0, <2>1, NowSeen
  <2>3. Relies(r) => Maker(r)'
    BY <1>2, <1>3, <1>4, <2>1, <2>2 DEF Maker, Heading, Saved, Relies
  <2>4. Refs(r)'
    BY <1>3, <1>4, <2>1 DEF Refs, Heading
  <2>5. Fits(r)'
    BY <1>0, <1>1, <2>1, <2>3, <2>4, MakerFits
  <2> QED BY <1>0, <2>5, Still DEF Fine
<1>5. CASE End(r, "error")
  BY <1>0, <1>5, EndFine
<1> QED BY <1>2, <1>4, <1>5 DEF FetchForRemove

-----------------------------------------------------------------------------
(* Import. *)

\* An import on its way from the volume it found to the tag.
LEMMA ImporterFits ==
    ASSUME Growing, Recalled, NEW r \in Reqs, Shape(op[r]), op[r].kind = "import",
           Refs(r)', Relies(r) => Importer(r)',
           op'[r].kind = "import", op'[r].name = op[r].name, op'[r].an = op[r].an,
           op'[r].ask = op[r].ask \/ op'[r].pairs = {},
           op'[r].next = "done", op'[r].pc \in {"tags", "tag", "remember", "known"},
           \A p \in op'[r].pairs : p \in op[r].pairs
    PROVE  Fits(r)'
<1>1. Shape(op'[r])
  BY DEF Shape, Saved
<1>2. Maker(r)' /\ Reader(r)' /\ Lister(r)'
  BY DEF Maker, Reader, Lister
<1> QED BY <1>1, <1>2, FitsNext

\* An import finds its volume.
LEMMA FetchForImportFine ==
    ASSUME IInv, Leading, SeenNow', Growing, Recalled, NEW r \in Reqs, FetchForImport(r)
    PROVE  Fine(r)
<1>0. op[r].pc = "fetch" /\ UNCHANGED <<vol, names>> /\ op[r].kind = "import" /\ vol' = vol
  BY DEF FetchForImport, Fetched, At, hostVars
<1>1. /\ Shape(op[r]) /\ op[r].name \in DockerNames /\ op[r].an \in ArrayNames /\ Fits(r)
      /\ op[r].next = "done" /\ op[r] \in Requests /\ op \in [Reqs -> Requests]
  BY <1>0, Running DEF Sane
<1> PICK n \in DockerNames, a \in ArrayNames : n = op[r].name /\ a = op[r].an
  BY <1>1
<1>2. CASE End(r, "error")
  BY <1>0, <1>2, EndFine
<1>3. CASE Live(a) /\ Goto(r, "tags")
  <2>1. /\ op'[r].kind = "import" /\ op'[r].name = n /\ op'[r].ask = op[r].ask /\ op'[r].pc = "tags"
        /\ op'[r].pairs = op[r].pairs /\ op'[r].an = a /\ op'[r].next = "done"
    BY <1>0, <1>1, <1>3 DEF Goto, Requests
  <2>2. vol[a].tag = n => n \in seen'[r].there
    <3>1. vol[a].tag = n => LiveTagged(n) # {}
      BY <1>3 DEF LiveTagged, Tagged, Present, Live
    <3> QED BY <3>1, <1>0, <2>1, NowSeen
  <2>3. LiveTagged(n)' = LiveTagged(n)
    BY <1>0, StillMeans
  <2>4. Relies(r) => Importer(r)'
    BY <1>0, <1>1, <2>1, <2>2, <2>3 DEF Importer, Fits, Saved, Relies
  <2>5. Refs(r)'
    BY <2>1 DEF Refs, Heading
  <2>6. Fits(r)'
    BY <1>0, <1>1, <2>1, <2>4, <2>5, ImporterFits
  <2> QED BY <1>0, <2>6, Still DEF Fine
<1> QED BY <1>2, <1>3 DEF FetchForImport

\* No other volume has the name's tag.
LEMMA AdoptLookedFine ==
    ASSUME IInv, Leading, Growing, Recalled, NEW r \in Reqs, AdoptLooked(r)
    PROVE  Fine(r)
<1>0. /\ op[r].pc = "answer" /\ UNCHANGED <<vol, names>> /\ op[r].kind = "import" /\ vol' = vol
      /\ op[r].ask = "one"
  BY DEF AdoptLooked, At, hostVars
<1>1. /\ Shape(op[r]) /\ op[r].name \in DockerNames /\ op[r].an \in ArrayNames /\ Fits(r)
      /\ op[r].next = "done" /\ op[r] \in Requests /\ op \in [Reqs -> Requests]
  BY <1>0, Running DEF Sane
<1> PICK n \in DockerNames, a \in ArrayNames : n = op[r].name /\ a = op[r].an
  BY <1>1
<1>2. CASE End(r, "error")
  BY <1>0, <1>2, EndFine
<1>3. CASE /\ {p[1] : p \in op[r].pairs} \subseteq {op[r].an}
           /\ op' = [op EXCEPT ![r].ask = "all", ![r].pairs = {}, ![r].pc = "tags"]
  <2>1. /\ op'[r].kind = "import" /\ op'[r].name = n /\ op'[r].ask = "all" /\ op'[r].pc = "tags"
        /\ op'[r].pairs = {} /\ op'[r].an = a /\ op'[r].next = "done"
    BY <1>0, <1>1, <1>3 DEF Requests
  <2>2. Sure(r) => LiveTagged(n) \subseteq {a}
    <3>1. Sure(r) => \A b \in LiveTagged(n) : \E p \in op[r].pairs : p[1] = b
      BY <1>0, <1>1 DEF Fits, Importer
    <3> QED BY <3>1, <1>3
  <2>3. LiveTagged(n)' = LiveTagged(n)
    BY <1>0, StillMeans
  <2>4. Sure(r) /\ vol[a].tag = n => n \in seen'[r].there
    BY <1>0, <1>1, <2>1 DEF Fits, Importer, Recalled
  <2>5. Relies(r) => Importer(r)'
    BY <1>0, <1>1, <2>1, <2>2, <2>3, <2>4 DEF Importer, Saved, Relies
  <2>6. Refs(r)'
    BY <2>1 DEF Refs, Heading
  <2>7. Fits(r)'
    BY <1>0, <1>1, <2>1, <2>5, <2>6, ImporterFits
  <2> QED BY <1>0, <2>7, Still DEF Fine
<1> QED BY <1>2, <1>3 DEF AdoptLooked

\* The volume has no other name's tag.
LEMMA AdoptListedFine ==
    ASSUME IInv, Leading, Growing, Recalled, NEW r \in Reqs, AdoptListed(r)
    PROVE  Fine(r)
<1>0. /\ op[r].pc = "answer" /\ UNCHANGED <<vol, names>> /\ op[r].kind = "import" /\ vol' = vol
      /\ op[r].ask = "all"
  BY DEF AdoptListed, At, hostVars
<1>1. /\ Shape(op[r]) /\ op[r].name \in DockerNames /\ op[r].an \in ArrayNames /\ Fits(r)
      /\ op[r].next = "done" /\ op[r] \in Requests /\ op \in [Reqs -> Requests]
      /\ \A p \in op[r].pairs : p[1] \in ArrayNames /\ p[2] \in DockerNames
  BY <1>0, Running DEF Sane
<1> PICK n \in DockerNames, a \in ArrayNames : n = op[r].name /\ a = op[r].an
  BY <1>1
<1> DEFINE tags == {p[2] : p \in {q \in op[r].pairs : q[1] = op[r].an}}
<1>2. CASE End(r, "error")
  BY <1>0, <1>2, EndFine
<1>3. CASE /\ tags \subseteq {n}
           /\ op' = [op EXCEPT ![r].pairs = {}, ![r].ask = "one",
                               ![r].pc = IF tags = {} THEN "tag" ELSE "remember"]
  <2>1. /\ op'[r].kind = "import" /\ op'[r].name = n /\ op'[r].ask = "one"
        /\ op'[r].pc = IF tags = {} THEN "tag" ELSE "remember"
        /\ op'[r].pairs = {} /\ op'[r].an = a /\ op'[r].next = "done"
    BY <1>0, <1>1, <1>3 DEF Requests
  <2>2. /\ \A m : <<a, m>> \in op[r].pairs => m \in tags
        /\ \A m \in tags : \E p \in op[r].pairs : p[1] = a /\ p[2] = m
    BY <1>1
  <2> HIDE DEF tags
  <2>3. op[r].pairs \subseteq ArrayNames \X DockerNames
    BY <1>1 DEF Requests
  <2>4. tags # {} => \E p \in op[r].pairs : p[1] = a /\ p[2] = n /\ p = <<a, n>>
    <3> SUFFICES ASSUME tags # {} PROVE \E p \in op[r].pairs : p[1] = a /\ p[2] = n /\ p = <<a, n>>
      OBVIOUS
    <3>1. PICK p \in op[r].pairs : p[1] = a /\ p[2] = n
      BY <1>3, <2>2
    <3>2. p = <<p[1], p[2]>>
      BY <2>3
    <3> QED BY <3>1, <3>2
  <2>5. Sure(r) => /\ LiveTagged(n) \subseteq {a}
                   /\ Live(a) /\ vol[a].tag = n => <<a, n>> \in op[r].pairs
                   /\ <<a, n>> \in op[r].pairs => vol[a].tag = n
                   /\ vol[a].tag = n => n \in seen[r].there
    BY <1>0, <1>1 DEF Fits, Importer
  <2>6. Sure(r) /\ vol[a].tag = n => n \in seen'[r].there
    BY <2>1, <2>5 DEF Recalled
  <2>7. LiveTagged(n)' = LiveTagged(n)
    BY <1>0, StillMeans
  <2>8. Sure(r) /\ tags = {} => LiveTagged(n) = {}
    <3> SUFFICES ASSUME Sure(r), tags = {} PROVE LiveTagged(n) = {}
      OBVIOUS
    <3>1. Live(a) => vol[a].tag # n
      BY <2>2, <2>5
    <3> QED BY <3>1, <2>5 DEF LiveTagged, Tagged
  <2>9. Relies(r) => Importer(r)'
    BY <1>0, <1>1, <2>1, <2>4, <2>5, <2>6, <2>7, <2>8 DEF Importer, Saved, Relies
  <2>10. tags # {} => Its(a, n)'
    <3> SUFFICES ASSUME tags # {} PROVE Its(a, n)'
      OBVIOUS
    <3>1. PICK p \in op[r].pairs : p[1] = a /\ p[2] = n
      BY <2>4
    <3>2. Its(p[1], p[2])
      BY <1>0, <1>1 DEF Fits, Refs
    <3> QED BY <3>1, <3>2, <1>0, StillMeans
  <2>11. Refs(r)'
    BY <2>1, <2>10 DEF Refs, Heading
  <2>12. Fits(r)'
    BY <1>0, <1>1, <2>1, <2>9, <2>11, ImporterFits
  <2> QED BY <1>0, <2>12, Still DEF Fine
<1> QED BY <1>2, <1>3 DEF AdoptListed

-----------------------------------------------------------------------------
(* A request changes its volume. *)

\* A request that changes a volume of a name that is not muddled, and does not
\* become so, is sure of it.
LEMMA Sound ==
    ASSUME Recorded, Growing, NEW r \in Reqs, op[r].kind \in Changes, op'[r].pc # op[r].pc, vol' # vol,
           NEW n \in DockerNames, n = op[r].name, n \notin muddled'
    PROVE  Sure(r)
<1>1. ~Muddles(n)
  BY DEF Recorded
<1>2. r \notin misled
  BY <1>1 DEF Muddles, ActedInError
<1> QED BY <1>2 DEF Sure, Growing

\* A change of the volumes leaves the caches in order.
LEMMA Moving ==
    ASSUME IInv, Leading, NEW r \in Reqs, NEW n \in DockerNames, n = op[r].name, op[r].kind \in Changes,
           Considerate({n}), UNCHANGED names
    PROVE  Cares(r) /\ CacheInOrder'
<1>1. Cares(r)
  BY DEF Cares, Considerate
<1>2. ASSUME NEW x \in Hosts, NEW m \in DockerNames, NEW a \in ArrayNames, names[x][m] = a
      PROVE  Its(a, m)'
  BY <1>2, ArrayNamesIn DEF Leading, CacheInOrder, Considerate, ItsKept
<1>3. \A x \in Hosts, m \in DockerNames : names[x][m] \in ArrayNames \union {None}
  BY Types DEF IInv
<1>4. CacheInOrder'
  BY <1>2, <1>3 DEF CacheInOrder, Its
<1> QED BY <1>1, <1>4

\* What the history knows when a name leads to no volume, or to one that lives.
LEMMA ChangeSeen ==
    ASSUME SeenNow', NEW r \in Reqs, op'[r].pc # "done", NEW n \in DockerNames, op'[r].name = n
    PROVE  /\ op'[r].kind = "remove" /\ Leads(n)' = {} => n \in seen'[r].absent
           /\ \A a \in ArrayNames : op'[r].kind \in {"create", "import"}
                 /\ vol'[a].state = "live" /\ (vol'[a].tag = n \/ a = arrayName[n]) => n \in seen'[r].there
<1>1. /\ op'[r].kind \in {"create", "import"} /\ There(r, n)' => n \in seen'[r].there
      /\ op'[r].kind = "remove" /\ ~There(r, n)' => n \in seen'[r].absent
  <2>1. n \in About(r)'
    BY DEF About
  <2> QED BY <2>1 DEF SeenNow, At, Absent
<1>2. op'[r].kind = "remove" /\ Leads(n)' = {} => ~There(r, n)'
  BY DEF There, Leads, LiveTagged, Tagged, Present, Live
<1>3. \A a \in ArrayNames : op'[r].kind \in {"create", "import"}
         /\ vol'[a].state = "live" /\ (vol'[a].tag = n \/ a = arrayName[n]) => There(r, n)'
  BY DEF There, LiveTagged, Tagged, Present, Live
<1> QED BY <1>1, <1>2, <1>3

\* What a request keeps when it only goes on.
LEMMA GotoFields ==
    ASSUME IInv, NEW r \in Reqs, NEW step, Goto(r, step)
    PROVE  /\ op'[r].kind = op[r].kind /\ op'[r].name = op[r].name /\ op'[r].ask = op[r].ask
           /\ op'[r].how = op[r].how /\ op'[r].pc = step /\ op'[r].next = op[r].next
           /\ op'[r].pairs = op[r].pairs /\ op'[r].an = op[r].an /\ op'[r].put = op[r].put
BY ReqOf DEF Goto, Requests

\* The answer of a request.
LEMMA EndFields ==
    ASSUME IInv, NEW r \in Reqs, NEW result, End(r, result)
    PROVE  op'[r].pc = "done"
BY ReqOf DEF End, NoRequest

\* Create goes on with a name never used.
LEMMA FreshNameFine ==
    ASSUME IInv, Leading, Growing, Recalled, NEW r \in Reqs, FreshName(r)
    PROVE  Fine(r)
<1>0. op[r].pc = "fresh" /\ UNCHANGED <<vol, names>> /\ vol' = vol
  BY DEF FreshName, At, hostVars
<1>1. /\ Shape(op[r]) /\ op[r].name \in DockerNames /\ op[r].kind = "create" /\ Fits(r)
      /\ op[r] \in Requests /\ op \in [Reqs -> Requests]
  BY <1>0, Running DEF Shape
<1> PICK n \in DockerNames : n = op[r].name
  BY <1>1
<1>2. ASSUME NEW s \in Spares[n], Unused(s), op' = [op EXCEPT ![r].an = s, ![r].held = None, ![r].pc = "relock"]
      PROVE  Fine(r)
  <2>1. /\ op'[r].kind = "create" /\ op'[r].name = n /\ op'[r].ask = op[r].ask /\ op'[r].pc = "relock"
        /\ op'[r].pairs = op[r].pairs /\ op'[r].an = s
    BY <1>1, <1>2 DEF Requests
  <2>2. (Sure(r) => Leads(n)' = {}) /\ s \in Spares[n] /\ Unused(s)'
    BY <1>0, <1>1, <1>2, StillMeans, ArrayNamesIn DEF Fits, Maker
  <2>3. Relies(r) => Maker(r)'
    BY <2>1, <2>2 DEF Maker, Heading, Saved, Unused, Relies
  <2>4. Refs(r)'
    BY <2>1, <2>2 DEF Refs, Heading, Own
  <2>5. Fits(r)'
    BY <1>1, <2>1, <2>3, <2>4, MakerFits
  <2> QED BY <1>0, <2>5, Still DEF Fine
<1>3. CASE End(r, "error")
  BY <1>0, <1>3, EndFine
<1> QED BY <1>2, <1>3 DEF FreshName

\* Create's volume is the only one the name leads to.
LEMMA CreateVolumeFine ==
    ASSUME IInv, IInv', Leading, NamesApart, Recorded, Growing, Recalled, NEW r \in Reqs, CreateVolume(r)
    PROVE  Fine(r)
<1>0. op[r].pc = "create" /\ UNCHANGED names /\ TypeOK /\ TypeOK' /\ VolumesInOrder
  BY DEF CreateVolume, At, hostVars, IInv, Leading
<1>1. /\ Shape(op[r]) /\ op[r].name \in DockerNames /\ op[r].kind = "create" /\ Fits(r)
      /\ op[r].an \in ArrayNames
  BY <1>0, Running DEF Shape, Sane
<1> PICK n \in DockerNames, a \in ArrayNames : n = op[r].name /\ a = op[r].an
  BY <1>1
<1>2. /\ a \in Own(n) \/ Its(a, n)
      /\ Sure(r) => Leads(n) = {} /\ (a = arrayName[n] \/ (a \in Spares[n] /\ Unused(a)))
  BY <1>0, <1>1 DEF Fits, Refs, Maker
<1>3. ASSUME ~Present(a), vol' = [vol EXCEPT ![a] = [state |-> "live", tag |-> None]],
             Goto(r, "tag") \/ End(r, "error")
      PROVE  Fine(r)
  <2>1. op'[r].pc \in {"tag", "done"}
    BY <1>3, GotoFields, EndFields
  <2>2. vol'[a].state = "live" /\ vol[a].state # "live"
    BY <1>0, <1>3 DEF TypeOK, Present
  <2>3. n \notin muddled' => Sure(r)
    BY <1>0, <1>1, <2>1, <2>2, Sound DEF Changes
  <2>4. a \in Imports /\ vol[a].state = "eradicated" => DockerNames \subseteq muddled'
    BY <2>2 DEF Recorded, Muddles, Remade
  <2>5. Considerate({n}) /\ Live(a)' /\ (n \notin muddled' => Leads(n)' \subseteq {a})
    BY <1>0, <1>2, <1>3, <2>3, <2>4, CreateConsiderate
  <2>6. Cares(r) /\ CacheInOrder'
    BY <1>0, <1>1, <2>5, Moving DEF Changes
  <2>7. CASE End(r, "error")
    BY <2>6, <2>7, EndFits DEF Fine
  <2>8. CASE Goto(r, "tag")
    <3>1. /\ op'[r].kind = "create" /\ op'[r].name = n /\ op'[r].ask = op[r].ask /\ op'[r].pc = "tag"
          /\ op'[r].pairs = op[r].pairs /\ op'[r].an = a
      BY <1>1, <2>8, GotoFields
    <3>2. Sure(r) => a \in Own(n)
      BY <1>2 DEF Own
    <3>3. Relies(r) => Maker(r)'
      BY <2>5, <3>1, <3>2 DEF Maker, Heading, Saved, Live, Own, Relies
    <3>4. a \in Own(n) \/ Its(a, n)'
      BY <1>2, <2>5 DEF Considerate, ItsKept
    <3>5. Refs(r)'
      BY <3>1, <3>4 DEF Refs, Heading, Own
    <3>6. Fits(r)'
      BY <1>1, <3>1, <3>3, <3>5, MakerFits
    <3> QED BY <2>6, <3>6 DEF Fine
  <2> QED BY <1>3, <2>7, <2>8
<1>4. CASE UNCHANGED vol /\ End(r, "error")
  BY <1>0, <1>4, EndFine
<1> QED BY <1>3, <1>4 DEF CreateVolume

\* A request that has tagged its volume, or goes on without a tag.
LEMMA TaggedFits ==
    ASSUME SeenNow', Growing, Recalled, NEW r \in Reqs, Shape(op[r]), op[r].kind \in {"create", "import"},
           NEW n \in DockerNames, n = op[r].name, NEW a \in ArrayNames, a = op[r].an,
           op'[r].kind = op[r].kind, op'[r].name = n, op'[r].ask = op[r].ask, op'[r].an = a,
           op'[r].pc = "remember", op'[r].pairs = op[r].pairs, op'[r].next = "done",
           Its(a, n)',
           Relies(r) => vol'[a].state = "live" /\ (vol'[a].tag = n \/ (op[r].kind = "create" /\ a = arrayName[n])),
           Relies(r) /\ op[r].kind = "import" /\ op[r].ask = "all" => LiveTagged(n)' \subseteq {a}
    PROVE  Fits(r)'
<1>1. Relies(r) => n \in seen'[r].there
  BY ChangeSeen
<1>2. Refs(r)'
  BY DEF Refs, Heading
<1>3. CASE op[r].kind = "create"
  <2>1. Relies(r) => Maker(r)'
    BY <1>1, <1>3 DEF Maker, Heading, Saved, Present
  <2> QED BY <1>2, <1>3, <2>1, MakerFits
<1>4. CASE op[r].kind = "import"
  <2>1. Relies(r) => Importer(r)'
    BY <1>1, <1>4 DEF Importer, Saved
  <2> QED BY <1>2, <1>4, <2>1, ImporterFits
<1> QED BY <1>3, <1>4

\* The tag makes the volume the name's.
LEMMA TaggingFine ==
    ASSUME IInv, IInv', Leading, NamesApart, Recorded, SeenNow', Growing, Recalled, NEW r \in Reqs, Tagging(r)
    PROVE  Fine(r)
<1>0. op[r].pc = "tag" /\ UNCHANGED names /\ TypeOK /\ TypeOK' /\ VolumesInOrder
  BY DEF Tagging, At, hostVars, IInv, Leading
<1>1. /\ Shape(op[r]) /\ op[r].name \in DockerNames /\ op[r].kind \in {"create", "import"} /\ Fits(r)
      /\ op[r].an \in ArrayNames /\ op[r].next = "done"
  BY <1>0, Running DEF Shape, Sane
<1> PICK n \in DockerNames, a \in ArrayNames, c \in ArrayNames : n = op[r].name /\ a = op[r].an /\ c = arrayName[n]
  BY <1>1, ArrayNamesIn
<1>2. /\ a \in Own(n) \union Imports /\ c \in Own(n) /\ c \notin Imports
      /\ op[r].kind = "create" => a \in Own(n) \/ Its(a, n)
      /\ op[r].kind = "import" => a \in Imports
      /\ vol[a].tag \in DockerNames \union {None} /\ None \notin DockerNames
      /\ vol[c].tag \in {None, n}
  <2>1. /\ op[r].kind = "create" => a \in Own(n) \/ Its(a, n)
        /\ op[r].kind = "import" => a \in Imports
    BY <1>0, <1>1 DEF Fits, Refs, Shape
  <2>2. vol[a].tag \in DockerNames \union {None} /\ vol[c].tag \in DockerNames \union {None} /\ None \notin DockerNames
    BY <1>0, Types, ArrayNamesIn
  <2>3. c \in Own(n) /\ c \notin Imports
    BY DEF Own, NamesApart
  <2>4. vol[c].tag \in {None, n}
    BY <1>0, <2>2, <2>3 DEF VolumesInOrder, NamesApart
  <2> QED BY <1>1, <2>1, <2>2, <2>3, <2>4 DEF Its, Own
<1>3. ASSUME Sure(r)
      PROVE  /\ op[r].kind = "create" => a \in Own(n) /\ Live(a) /\ Leads(n) \subseteq {a}
             /\ op[r].kind = "import" => LiveTagged(n) = {}
  BY <1>0, <1>1, <1>3 DEF Fits, Maker, Importer
<1>4. ASSUME Live(a), vol' = [vol EXCEPT ![a].tag = n], Goto(r, "remember") \/ End(r, "error")
      PROVE  Fine(r)
  <2>1. vol'[a].tag = n /\ vol'[a].state = "live" /\ \A b \in ArrayNames \ {a} : vol'[b] = vol[b]
    BY <1>0, <1>4 DEF TypeOK, Live
  <2>2. op'[r].pc \in {"remember", "done"}
    BY <1>4, GotoFields, EndFields
  <2>3. vol' = vol => Considerate({n})
    BY <1>0, StillVolumes
  <2>4. ASSUME vol' # vol PROVE Considerate({n})
    <3>1. vol[a].tag \notin {None, n} => {n, vol[a].tag} \subseteq muddled'
      <4>1. ASSUME vol[a].tag \notin {None, n} PROVE Stolen(n) /\ Stolen(vol[a].tag)
        BY <4>1, <1>2, <2>1 DEF Stolen
      <4> QED BY <4>1, <1>2 DEF Recorded, Muddles
    <3>2. ASSUME n \notin muddled' PROVE Leads(n) \subseteq {a}
      <4>1. Sure(r) /\ ~Shadowed(n)
        BY <3>2, <2>2, <2>4, <1>0, <1>1, Sound DEF Recorded, Muddles, Changes
      <4>2. CASE op[r].kind = "create"
        BY <4>1, <4>2, <1>3
      <4>3. CASE op[r].kind = "import"
        <5>1. LiveTagged(n) = {}
          BY <4>1, <4>3, <1>3
        <5>2. ~(Live(c) /\ vol[c].tag = None)
          BY <4>1, <4>3, <2>1, <1>0 DEF Shadowed, At
        <5>3. ~Live(c)
          BY <5>1, <5>2, <1>2 DEF LiveTagged, Tagged, Present, Live
        <5> QED BY <5>1, <5>3 DEF Leads, LiveTagged, Tagged, Present, Live
      <4> QED BY <4>2, <4>3, <1>1
    <3>3. Considerate({n})
      BY <1>0, <1>2, <1>4, <2>1, <3>1, <3>2, TagConsiderate
    <3> QED BY <3>3
  <2>5. Considerate({n})
    BY <2>3, <2>4
  <2>6. Cares(r) /\ CacheInOrder'
    BY <1>0, <1>1, <2>5, Moving DEF Changes
  <2>7. CASE End(r, "error")
    BY <2>6, <2>7, EndFits DEF Fine
  <2>8. CASE Goto(r, "remember")
    <3>1. /\ op'[r].kind = op[r].kind /\ op'[r].name = n /\ op'[r].ask = op[r].ask
          /\ op'[r].pc = "remember" /\ op'[r].pairs = op[r].pairs /\ op'[r].an = a /\ op'[r].next = "done"
      BY <1>1, <2>8, GotoFields
    <3>2. Its(a, n)'
      BY <1>2, <2>1 DEF Its, Own
    <3>3. Relies(r) /\ op[r].kind = "import" => LiveTagged(n)' \subseteq {a}
      BY <1>3, <2>1 DEF LiveTagged, Tagged, Present, Live, Relies
    <3>4. Fits(r)'
      BY <1>1, <2>1, <3>1, <3>2, <3>3, TaggedFits
    <3> QED BY <2>6, <3>4 DEF Fine
  <2> QED BY <1>4, <2>7, <2>8
<1>5. ASSUME UNCHANGED vol, IF op[r].kind = "create" THEN Goto(r, "remember") ELSE End(r, "error")
      PROVE  Fine(r)
  <2>1. CASE op[r].kind # "create"
    BY <1>0, <1>5, <2>1, EndFine
  <2>2. CASE op[r].kind = "create"
    <3>1. /\ op'[r].kind = "create" /\ op'[r].name = n /\ op'[r].ask = op[r].ask
          /\ op'[r].pc = "remember" /\ op'[r].pairs = op[r].pairs /\ op'[r].an = a /\ op'[r].next = "done"
      BY <1>1, <1>5, <2>2, GotoFields
    <3>2. vol[a].tag = n \/ a = c \/ n \in muddled'
      <4>1. a # c /\ vol'[a].tag # n => Untagged(n)
        BY <1>0, <2>2, <3>1 DEF Untagged, At
      <4> QED BY <4>1, <1>5 DEF Recorded, Muddles
    <3>3. Its(a, n)'
      <4>1. Its(a, n) => Its(a, n)'
        BY <1>5, StillMeans
      <4>2. a \in Own(n) => Its(a, n)'
        BY <3>2, <1>5 DEF Its, Own
      <4> QED BY <4>1, <4>2, <1>2, <2>2
    <3>4. Relies(r) => vol'[a].state = "live" /\ (vol'[a].tag = n \/ a = arrayName[n])
      BY <1>3, <1>5, <2>2, <3>2 DEF Relies, Live
    <3>5. Fits(r)'
      BY <1>1, <2>2, <3>1, <3>3, <3>4, TaggedFits
    <3> QED BY <1>0, <1>5, <3>5, Still DEF Fine
  <2> QED BY <2>1, <2>2
<1> QED BY <1>4, <1>5 DEF Tagging

\* The cache gets what a change of its name led to.
LEMMA RememberFine ==
    ASSUME IInv, IInv', Leading, Growing, Recalled, NEW r \in Reqs, Remember(r)
    PROVE  Fine(r)
<1>0. op[r].pc = "remember" /\ UNCHANGED vol /\ vol' = vol
  BY DEF Remember, At
<1>1. /\ Shape(op[r]) /\ op[r].name \in DockerNames /\ op[r].kind \in {"create", "import"} /\ Fits(r)
      /\ op[r].an \in ArrayNames /\ h(r) \in Hosts
  BY <1>0, Running DEF Shape, Sane
<1> PICK n \in DockerNames, a \in ArrayNames : n = op[r].name /\ a = op[r].an
  BY <1>1
<1>2. a # None
  BY ArrayNamesIn
<1>3. /\ op'[r].kind = op[r].kind /\ op'[r].name = n /\ op'[r].ask = op[r].ask
      /\ op'[r].pc = "known" /\ op'[r].next = "done" /\ op'[r].pairs = {} /\ op'[r].an = a
  BY <1>1, <1>2, KnownNextFields DEF Remember
<1>4. Its(a, n)
  BY <1>0, <1>1 DEF Fits, Refs
<1>5. Sure(r) => n \in seen'[r].there
  BY <1>0, <1>1, <1>3 DEF Fits, Maker, Importer, Recalled
<1>6. CacheInOrder'
  BY <1>0, <1>1, <1>4, CacheSet DEF Remember
<1>7. Refs(r)'
  BY <1>3 DEF Refs, Heading
<1>8. CASE op[r].kind = "create"
  <2>1. Relies(r) => Maker(r)'
    BY <1>3, <1>5, <1>8 DEF Maker, Heading, Saved, Relies
  <2>2. Fits(r)'
    BY <1>1, <1>3, <1>7, <1>8, <2>1, MakerFits
  <2> QED BY <1>0, <1>6, <2>2, StillCares DEF Fine
<1>9. CASE op[r].kind = "import"
  <2>1. LiveTagged(n)' = LiveTagged(n)
    BY <1>0, StillMeans
  <2>2. Relies(r) => Importer(r)'
    BY <1>0, <1>1, <1>3, <1>5, <1>9, <2>1 DEF Importer, Fits, Relies
  <2>3. Fits(r)'
    BY <1>1, <1>3, <1>7, <1>9, <2>2, ImporterFits
  <2> QED BY <1>0, <1>6, <2>3, StillCares DEF Fine
<1> QED BY <1>1, <1>8, <1>9

\* Remove has a new name for its volume, or goes on without.
LEMMA ParkFine ==
    ASSUME IInv, Leading, Growing, Recalled, NEW r \in Reqs, Park(r)
    PROVE  Fine(r)
<1>0. op[r].pc = "park" /\ UNCHANGED <<vol, names>> /\ vol' = vol
  BY DEF Park, At, hostVars
<1>1. /\ Shape(op[r]) /\ op[r].name \in DockerNames /\ op[r].kind = "remove" /\ Fits(r)
      /\ op[r] \in Requests /\ op \in [Reqs -> Requests]
  BY <1>0, Running DEF Shape
<1> PICK n \in DockerNames : n = op[r].name
  BY <1>1
<1>2. (Sure(r) => Leads(n) \subseteq {arrayName[n]}) /\ op[r].an = arrayName[n]
  BY <1>0, <1>1 DEF Fits, Refs, Maker
<1>3. Leads(n)' = Leads(n)
  BY <1>0, StillMeans
<1>4. ASSUME NEW s \in Spares[n], Unused(s), op' = [op EXCEPT ![r].spare = s, ![r].pc = "rename"]
      PROVE  Fine(r)
  <2>1. /\ op'[r].kind = "remove" /\ op'[r].name = n /\ op'[r].ask = op[r].ask /\ op'[r].pc = "rename"
        /\ op'[r].pairs = op[r].pairs /\ op'[r].an = op[r].an /\ op'[r].spare = s
    BY <1>1, <1>4 DEF Requests
  <2>2. Unused(s)'
    BY <1>0, <1>4, StillMeans, ArrayNamesIn
  <2>3. Relies(r) => Maker(r)'
    BY <1>2, <1>3, <2>1, <2>2 DEF Maker, Heading, Saved, Unused, Relies
  <2>4. Refs(r)'
    BY <1>2, <2>1 DEF Refs, Heading
  <2>5. Fits(r)'
    BY <1>1, <2>1, <2>3, <2>4, MakerFits
  <2> QED BY <1>0, <2>5, Still DEF Fine
<1>5. ASSUME op' = [op EXCEPT ![r].pc = "destroy"]
      PROVE  Fine(r)
  <2>1. /\ op'[r].kind = "remove" /\ op'[r].name = n /\ op'[r].ask = op[r].ask /\ op'[r].pc = "destroy"
        /\ op'[r].pairs = op[r].pairs /\ op'[r].an = op[r].an
    BY <1>1, <1>5 DEF Requests
  <2>2. Relies(r) => Maker(r)'
    BY <1>2, <1>3, <2>1 DEF Maker, Heading, Saved, Relies
  <2>3. Refs(r)'
    BY <1>2, <2>1 DEF Refs, Heading, Own
  <2>4. Fits(r)'
    BY <1>1, <2>1, <2>2, <2>3, MakerFits
  <2> QED BY <1>0, <2>4, Still DEF Fine
<1> QED BY <1>4, <1>5 DEF Park

\* Remove moves its volume to the new name, and follows it unless it is misled.
LEMMA RenameFine ==
    ASSUME IInv, IInv', Leading, NamesApart, Recorded, Growing, Recalled, NEW r \in Reqs, Rename(r)
    PROVE  Fine(r)
<1>0. op[r].pc = "rename" /\ UNCHANGED names /\ TypeOK /\ TypeOK' /\ VolumesInOrder
  BY DEF Rename, At, hostVars, IInv, Leading
<1>1. /\ Shape(op[r]) /\ op[r].name \in DockerNames /\ op[r].kind = "remove" /\ Fits(r)
      /\ op[r] \in Requests /\ op \in [Reqs -> Requests] /\ op[r].an \in ArrayNames
      /\ op[r].spare \in ArrayNames
  BY <1>0, Running DEF Shape, Sane
<1> PICK n \in DockerNames, c \in ArrayNames, s \in ArrayNames :
         n = op[r].name /\ c = op[r].an /\ s = op[r].spare
  BY <1>1
<1>2. /\ c = arrayName[n] /\ s \in Spares[n]
      /\ Sure(r) => Unused(s) /\ Leads(n) \subseteq {c}
  BY <1>0, <1>1 DEF Fits, Refs, Maker
<1>3. ASSUME NEW a \in {c, s}, op'[r].kind = "remove", op'[r].name = n, op'[r].ask = op[r].ask,
             op'[r].pc = "destroy", op'[r].pairs = op[r].pairs, op'[r].an = a,
             Relies(r) => Leads(n)' \subseteq {a}
      PROVE  Fits(r)'
  <2>1. Relies(r) => Maker(r)'
    BY <1>3 DEF Maker, Heading, Saved
  <2>2. Refs(r)'
    BY <1>2, <1>3 DEF Refs, Heading, Own
  <2> QED BY <1>1, <1>3, <2>1, <2>2, MakerFits
<1>4. ASSUME Live(c), ~Present(s), vol' = [vol EXCEPT ![s] = vol[c], ![c] = NoVolume],
             op'[r].kind = "remove", op'[r].name = n, op'[r].pc = "destroy"
      PROVE  /\ Cares(r) /\ CacheInOrder' /\ vol' # vol
             /\ n \notin muddled' => Leads(n)' \subseteq {s}
  <2>1. vol'[c].state = "none" /\ vol[c].state = "live"
    BY <1>0, <1>2, <1>4 DEF TypeOK, NoVolume, Live, NamesApart
  <2>2. BeingDestroyed(n)'
    BY <1>4 DEF BeingDestroyed, At
  <2>3. n \notin muddled' => Sure(r)
    BY <1>0, <1>1, <1>4, <2>1, Sound DEF Changes
  <2>4. Considerate({n}) /\ (n \notin muddled' => Leads(n)' \subseteq {s})
    BY <1>0, <1>2, <1>4, <2>2, <2>3, RenameConsiderate
  <2>5. Cares(r) /\ CacheInOrder'
    BY <1>0, <1>1, <2>4, Moving DEF Changes
  <2> QED BY <2>1, <2>4, <2>5
<1>5. ASSUME Live(c), ~Present(s), vol' = [vol EXCEPT ![s] = vol[c], ![c] = NoVolume],
             op' = [op EXCEPT ![r].an = s, ![r].spare = None, ![r].pc = "destroy"]
      PROVE  Fine(r)
  <2>1. /\ op'[r].kind = "remove" /\ op'[r].name = n /\ op'[r].ask = op[r].ask /\ op'[r].pc = "destroy"
        /\ op'[r].pairs = op[r].pairs /\ op'[r].an = s
    BY <1>1, <1>5 DEF Requests
  <2>2. Cares(r) /\ CacheInOrder' /\ (Relies(r) => Leads(n)' \subseteq {s})
    BY <1>4, <1>5, <2>1 DEF Relies
  <2>3. Fits(r)'
    BY <1>3, <2>1, <2>2
  <2> QED BY <2>2, <2>3 DEF Fine
<1>6. ASSUME Live(c), ~Present(s), vol' = [vol EXCEPT ![s] = vol[c], ![c] = NoVolume],
             op' = [op EXCEPT ![r].spare = None, ![r].pc = "destroy"]
      PROVE  Fine(r)
  <2>1. /\ op'[r].kind = "remove" /\ op'[r].name = n /\ op'[r].ask = op[r].ask /\ op'[r].pc = "destroy"
        /\ op'[r].pairs = op[r].pairs /\ op'[r].an = c
    BY <1>1, <1>6 DEF Requests
  <2>2. Cares(r) /\ CacheInOrder' /\ vol' # vol
    BY <1>4, <1>6, <2>1
  <2>3. Misleads(r)
    BY <1>0, <2>1, <2>2 DEF Misleads, At
  <2>4. r \in misled'
    BY <2>1, <2>3 DEF Recorded
  <2>5. Fits(r)'
    BY <1>3, <2>1, <2>4 DEF Relies
  <2> QED BY <2>2, <2>5 DEF Fine
<1>7. ASSUME UNCHANGED vol, op' = [op EXCEPT ![r].spare = None, ![r].pc = "destroy"]
      PROVE  Fine(r)
  <2>1. /\ op'[r].kind = "remove" /\ op'[r].name = n /\ op'[r].ask = op[r].ask /\ op'[r].pc = "destroy"
        /\ op'[r].pairs = op[r].pairs /\ op'[r].an = c
    BY <1>1, <1>7 DEF Requests
  <2>2. Leads(n)' = Leads(n)
    BY <1>7, StillMeans
  <2>3. Relies(r) => Leads(n)' \subseteq {c}
    BY <1>2, <2>2 DEF Relies
  <2>4. Fits(r)'
    BY <1>3, <2>1, <2>3
  <2> QED BY <1>0, <1>7, <2>4, Still DEF Fine
<1> QED BY <1>5, <1>6, <1>7 DEF Rename

\* What comes after the volume is destroyed.
LEMMA GoneFine ==
    ASSUME IInv, Leading, SeenNow', Growing, Recalled, NEW r \in Reqs, NEW step \in {"eradicate", "forget"},
           Goto(r, step) \/ End(r, "error"),
           op[r].pc # "done", op[r].kind = "remove", NEW n \in DockerNames, n = op[r].name,
           NEW a \in ArrayNames, a = op[r].an, a \in Own(n) \/ Its(a, n),
           Considerate({n}), Relies(r) => Leads(n)' = {}, UNCHANGED names
    PROVE  Fine(r)
<1>1. Shape(op[r])
  BY Running
<1>2. Cares(r) /\ CacheInOrder'
  BY Moving DEF Changes
<1>3. CASE End(r, "error")
  BY <1>2, <1>3, EndFits DEF Fine
<1>4. CASE Goto(r, step)
  <2>1. /\ op'[r].kind = "remove" /\ op'[r].name = n /\ op'[r].ask = op[r].ask /\ op'[r].pc = step
        /\ op'[r].pairs = op[r].pairs /\ op'[r].an = a
    BY <1>4, GotoFields
  <2>2. Relies(r) => n \in seen'[r].absent
    BY <2>1, ChangeSeen
  <2>3. a \in Own(n) \/ Its(a, n)'
    BY DEF Considerate, ItsKept
  <2>4. Relies(r) => Maker(r)'
    BY <2>1, <2>2 DEF Maker, Heading, Saved
  <2>5. Refs(r)'
    BY <2>1, <2>3 DEF Refs, Heading, Own
  <2>6. Fits(r)'
    BY <1>1, <2>1, <2>4, <2>5, MakerFits
  <2> QED BY <1>2, <2>6 DEF Fine
<1> QED BY <1>3, <1>4

\* The volume the name led to is destroyed.
LEMMA DestroyFine ==
    ASSUME IInv, IInv', Leading, NamesApart, Recorded, SeenNow', Growing, Recalled, NEW r \in Reqs, Destroy(r)
    PROVE  Fine(r)
<1>0. op[r].pc = "destroy" /\ UNCHANGED names /\ TypeOK /\ TypeOK' /\ VolumesInOrder
  BY DEF Destroy, At, hostVars, IInv, Leading
<1>1. /\ Shape(op[r]) /\ op[r].name \in DockerNames /\ op[r].kind = "remove" /\ Fits(r)
      /\ op[r].an \in ArrayNames
  BY <1>0, Running DEF Shape, Sane
<1> PICK n \in DockerNames, a \in ArrayNames : n = op[r].name /\ a = op[r].an
  BY <1>1
<1>2. (Sure(r) => Leads(n) \subseteq {a}) /\ (a \in Own(n) \/ Its(a, n))
  BY <1>0, <1>1 DEF Fits, Refs, Maker
<1>3. BeingDestroyed(n)
  BY <1>0 DEF BeingDestroyed, At
<1>4. PICK step \in {"eradicate", "forget"} : Goto(r, step) \/ End(r, "error")
  BY DEF Destroy
<1>5. op'[r].pc \in {"eradicate", "forget", "done"}
  BY <1>4, GotoFields, EndFields
<1>6. CASE vol' = vol
  <2>1. ~Live(a)
    <3>1. Live(a) => vol'[a].state = "destroyed" /\ vol[a].state = "live"
      BY <1>0 DEF Destroy, TypeOK, Live
    <3> QED BY <3>1, <1>6
  <2>2. Relies(r) => Leads(n)' = {}
    BY <2>1, <1>2, <1>6, StillMeans DEF Leads, Relies
  <2>3. Considerate({n})
    BY <1>0, <1>6, StillVolumes
  <2> QED BY <1>0, <1>1, <1>2, <1>4, <2>2, <2>3, GoneFine
<1>7. CASE vol' # vol
  <2>1. n \notin muddled' => Sure(r)
    BY <1>0, <1>1, <1>5, <1>7, Sound DEF Changes
  <2>2. Considerate({n}) /\ (n \notin muddled' => Leads(n)' = {})
    BY <1>0, <1>2, <1>3, <2>1, DestroyConsiderate DEF Destroy
  <2> QED BY <1>0, <1>1, <1>2, <1>4, <2>2, GoneFine DEF Relies
<1> QED BY <1>6, <1>7

\* The volume the name led to is eradicated.
LEMMA EradicateFine ==
    ASSUME IInv, IInv', Leading, NamesApart, Recorded, SeenNow', Growing, Recalled, NEW r \in Reqs, Eradicate(r)
    PROVE  Fine(r)
<1>0. op[r].pc = "eradicate" /\ UNCHANGED names /\ TypeOK /\ TypeOK' /\ VolumesInOrder
  BY DEF Eradicate, At, hostVars, IInv, Leading
<1>1. /\ Shape(op[r]) /\ op[r].name \in DockerNames /\ op[r].kind = "remove" /\ Fits(r)
      /\ op[r].an \in ArrayNames
  BY <1>0, Running DEF Shape, Sane
<1> PICK n \in DockerNames, a \in ArrayNames : n = op[r].name /\ a = op[r].an
  BY <1>1
<1>2. (Sure(r) => Leads(n) = {}) /\ (a \in Own(n) \/ Its(a, n))
  BY <1>0, <1>1 DEF Fits, Refs, Maker
<1>3. Goto(r, "forget") \/ End(r, "error")
  BY DEF Eradicate
<1>4. op'[r].pc \in {"forget", "done"}
  BY <1>3, GotoFields, EndFields
<1>5. CASE vol' = vol
  <2>1. Relies(r) => Leads(n)' = {}
    BY <1>2, <1>5, StillMeans DEF Relies
  <2>2. Considerate({n})
    BY <1>0, <1>5, StillVolumes
  <2> QED BY <1>0, <1>1, <1>2, <1>3, <2>1, <2>2, GoneFine
<1>6. CASE vol' # vol
  <2>1. n \notin muddled' => Sure(r)
    BY <1>0, <1>1, <1>4, <1>6, Sound DEF Changes
  <2>2. Considerate({n}) /\ (n \notin muddled' => Leads(n)' = {})
    BY <1>0, <1>2, <2>1, EradicateConsiderate DEF Eradicate
  <2> QED BY <1>0, <1>1, <1>2, <1>3, <2>2, GoneFine DEF Relies
<1> QED BY <1>5, <1>6

\* Remove forgets the name.
LEMMA ForgetFine ==
    ASSUME IInv, IInv', Leading, Growing, Recalled, NEW r \in Reqs, Forget(r)
    PROVE  Fine(r)
<1>0. op[r].pc = "forget" /\ UNCHANGED vol
  BY DEF Forget, At
<1>1. /\ Shape(op[r]) /\ op[r].name \in DockerNames /\ op[r].kind = "remove" /\ Fits(r) /\ h(r) \in Hosts
  BY <1>0, Running DEF Shape
<1> PICK n \in DockerNames : n = op[r].name
  BY <1>1
<1>2. /\ op'[r].kind = "remove" /\ op'[r].name = n /\ op'[r].ask = op[r].ask
      /\ op'[r].pc = "known" /\ op'[r].next = "done" /\ op'[r].pairs = {}
  BY <1>1, KnownNextFields DEF Forget
<1>3. Sure(r) => n \in seen'[r].absent
  BY <1>0, <1>1, <1>2 DEF Fits, Maker, Recalled
<1>4. names' = [names EXCEPT ![h(r)][n] = None]
  BY DEF Forget
<1>5. CacheInOrder'
  BY <1>0, <1>1, <1>4, CacheSet
<1>6. Relies(r) => Maker(r)'
  BY <1>2, <1>3 DEF Maker, Heading, Saved, Relies
<1>7. Refs(r)'
  BY <1>2 DEF Refs, Heading
<1>8. Fits(r)'
  BY <1>1, <1>2, <1>6, <1>7, MakerFits
<1> QED BY <1>0, <1>5, <1>8, StillCares DEF Fine

-----------------------------------------------------------------------------
(* List, and what a request notes. *)

\* List names what it read and was not destroyed.
LEMMA ListedFine ==
    ASSUME IInv, IInv', Leading, Growing, Recalled, NEW r \in Reqs, Listed(r)
    PROVE  Fine(r)
<1>0. op[r].pc = "answer" /\ UNCHANGED vol /\ op[r].kind = "list"
  BY DEF Listed, At
<1>1. /\ op[r] \in Requests /\ Shape(op[r]) /\ Fits(r) /\ op \in [Reqs -> Requests] /\ h(r) \in Hosts
      /\ \A p \in op[r].pairs : p[1] \in ArrayNames /\ p[2] \in DockerNames
  BY <1>0, Running
<1> PICK byName \in [DockerNames -> ArrayNames \union {None}] :
      /\ \A n \in DockerNames :
           IF \E a \in ArrayNames : <<a, n>> \in op[r].pairs
           THEN <<byName[n], n>> \in op[r].pairs ELSE byName[n] = None
      /\ names' = [names EXCEPT ![h(r)] =
                      [n \in DockerNames |-> IF byName[n] = None THEN @[n] ELSE byName[n]]]
      /\ op' = [op EXCEPT ![r].put = byName, ![r].pairs = {}, ![r].pc = "replace"]
  BY DEF Listed
<1>2. /\ op'[r].kind = "list" /\ op'[r].name = op[r].name /\ op'[r].ask = op[r].ask /\ op'[r].an = op[r].an
      /\ op'[r].put = byName /\ op'[r].pc = "replace" /\ op'[r].pairs = {} /\ op'[r].next = op[r].next
  BY <1>0, <1>1 DEF Requests
<1>3. op[r].pairs \subseteq ArrayNames \X DockerNames
  BY <1>1 DEF Requests
<1>4. \A n \in DockerNames :
        IF byName[n] = None THEN \A p \in op[r].pairs : p[2] # n ELSE <<byName[n], n>> \in op[r].pairs
  <2> SUFFICES ASSUME NEW n \in DockerNames, NEW p \in op[r].pairs, p[2] = n
               PROVE  <<byName[n], n>> \in op[r].pairs /\ byName[n] # None
    OBVIOUS
  <2>1. p = <<p[1], n>> /\ p[1] \in ArrayNames
    BY <1>3
  <2>2. <<byName[n], n>> \in op[r].pairs
    BY <2>1
  <2> QED BY <2>2, <1>3, ArrayNamesIn
<1>5. \A x \in Hosts, n \in DockerNames :
        names'[x][n] = IF x = h(r) /\ byName[n] # None THEN byName[n] ELSE names[x][n]
  BY <1>1 DEF IInv, TypeOK
<1>6. CacheInOrder'
  <2> SUFFICES ASSUME NEW x \in Hosts, NEW n \in DockerNames, NEW a \in ArrayNames, names'[x][n] = a
               PROVE  Its(a, n)'
    <3>1. \A x \in Hosts, n \in DockerNames : names'[x][n] \in ArrayNames \union {None}
      BY <1>5, Types DEF IInv
    <3> QED BY <3>1 DEF CacheInOrder, Its
  <2>1. Its(a, n)
    <3>1. CASE a = names[x][n]
      BY <3>1, ArrayNamesIn DEF Leading, CacheInOrder
    <3>2. CASE <<a, n>> \in op[r].pairs
      BY <3>2, <1>0, <1>1 DEF Fits, Refs
    <3> QED BY <3>1, <3>2, <1>4, <1>5
  <2> QED BY <2>1, <1>0, StillMeans
<1>7. Shape(op'[r])
  BY <1>1, <1>2, <1>0 DEF Shape, Saved
<1>8. Refs(r)' /\ Maker(r)' /\ Importer(r)' /\ Reader(r)'
  BY <1>2 DEF Refs, Heading, Maker, Importer, Reader
<1>9. Lister(r)'
  <2> SUFFICES ASSUME NEW n \in DockerNames, n \notin muddled'
               PROVE  n \in IF byName[n] = None THEN seen'[r].absent ELSE seen'[r].there
    BY <1>2 DEF Lister
  <2>1. /\ seen[r].there \subseteq seen'[r].there /\ seen[r].absent \subseteq seen'[r].absent
        /\ n \notin muddled
    BY <1>2 DEF Recalled, Growing
  <2>2. CASE byName[n] = None
    BY <2>1, <2>2, <1>0, <1>1, <1>4 DEF Fits, Lister
  <2>3. CASE byName[n] # None
    <3> PICK p \in op[r].pairs : p = <<byName[n], n>>
      BY <2>3, <1>4
    <3>1. p[2] = n
      OBVIOUS
    <3> QED BY <3>1, <2>1, <2>3, <1>0, <1>1 DEF Fits, Lister
  <2> QED BY <2>2, <2>3
<1>10. Fits(r)'
  BY <1>0, <1>2, <1>7, <1>8, <1>9, FitsNext
<1> QED BY <1>0, <1>6, <1>10, StillCares DEF Fine

\* A request that goes its way changes nothing others need.
LEMMA WalkFine ==
    ASSUME IInv, IInv', Leading, Growing, Recalled, NEW r \in Reqs, UNCHANGED <<vol, names>>, Walks(r)
    PROVE  Fine(r)
BY Still, WalkFits DEF Fine

\* The rest of a request, once the known names are right.
LEMMA ContinueFine ==
    ASSUME IInv, IInv', Leading, Growing, Recalled, NEW r \in Reqs, op[r].pc \in {"replace", "known", "write"},
           UNCHANGED <<vol, names>>, Continue(r)
    PROVE  Fine(r)
<1>1. CASE End(r, "ok")
  BY <1>1, EndFine
<1>2. CASE /\ op[r].next # "done"
           /\ op' = [op EXCEPT ![r].pc = op[r].next, ![r].put = NoNames, ![r].next = "done"]
  <2>1. op[r] \in Requests /\ op \in [Reqs -> Requests] /\ Shape(op[r]) /\ op[r].next \in {"lock", "fetch"}
        /\ Sane(op[r])
    BY <1>2, Running DEF Requests
  <2> PICK next \in {"lock", "fetch"} : next = op[r].next
    BY <2>1
  <2> DEFINE o == [op[r] EXCEPT !.pc = next, !.put = NoNames, !.next = "done"]
  <2>2. op'[r] = o
    BY <1>2, <2>1
  <2>3. /\ o.kind = op[r].kind /\ o.name = op[r].name /\ o.an = op[r].an /\ o.how = op[r].how
        /\ o.ask = op[r].ask /\ o.pairs = op[r].pairs /\ o.pc = next /\ o.next = "done"
    BY <2>1 DEF Requests
  <2> HIDE DEF o
  <2>4. op[r].kind # "list" /\ op[r].pc # "replace"
    BY <2>1, <1>2 DEF Shape
  <2>5. Walks(r)
    BY <2>2, <2>3, <2>4, <1>2 DEF Walks, Heading, Saved
  <2> QED BY <2>5, WalkFine
<1> QED BY <1>1, <1>2 DEF Continue

\* A request that goes on to save what is known.
LEMMA SaveFine ==
    ASSUME IInv, IInv', Leading, Growing, Recalled, NEW r \in Reqs, NEW step \in {"save", "write"}, Goto(r, step),
           op[r].pc \in {"replace", "known", "save"}, UNCHANGED <<vol, names>>
    PROVE  Fine(r)
<1>1. Shape(op[r])
  BY Running
<1>2. Walks(r)
  BY <1>1, GotoFields DEF Walks, Heading, Saved, Shape
<1> QED BY <1>2, WalkFine

\* What is known is noted and saved.
LEMMA NoteFine ==
    ASSUME IInv, IInv', Leading, Growing, Recalled, NEW r \in Reqs,
           ReplaceKnown(r) \/ SetKnown(r) \/ SaveBegin(r) \/ SaveEnd(r)
    PROVE  Fine(r)
<1>1. CASE ReplaceKnown(r)
  BY <1>1, ContinueFine, SaveFine DEF ReplaceKnown, At
<1>2. CASE SetKnown(r)
  BY <1>2, ContinueFine, SaveFine DEF SetKnown, At
<1>3. CASE SaveBegin(r)
  BY <1>3, SaveFine DEF SaveBegin, At
<1>4. CASE SaveEnd(r)
  BY <1>4, ContinueFine DEF SaveEnd, At
<1> QED BY <1>1, <1>2, <1>3, <1>4

\* A lock is taken.
LEMMA LockFine ==
    ASSUME IInv, IInv', Leading, Growing, Recalled, NEW r \in Reqs, Lock(r)
    PROVE  Fine(r)
<1>0. op[r].pc \in {"lock", "relock"} /\ UNCHANGED <<vol, names>>
  BY DEF Lock, hostVars
<1>1. op[r] \in Requests /\ op \in [Reqs -> Requests] /\ Shape(op[r])
  BY <1>0, Running
<1> DEFINE o == [op[r] EXCEPT !.held = op[r].an, !.pc = IF op[r].pc = "lock" THEN "fetch" ELSE "create"]
<1>2. op'[r] = o
  BY <1>1 DEF Lock
<1>3. /\ o.kind = op[r].kind /\ o.name = op[r].name /\ o.an = op[r].an /\ o.how = op[r].how
      /\ o.ask = op[r].ask /\ o.pairs = op[r].pairs /\ o.next = op[r].next
      /\ o.pc = IF op[r].pc = "lock" THEN "fetch" ELSE "create"
  BY <1>1 DEF Requests
<1> HIDE DEF o
<1>4. Walks(r)
  BY <1>0, <1>1, <1>2, <1>3 DEF Walks, Heading, Saved, Shape
<1> QED BY <1>0, <1>4, WalkFine

\* A request gives up, or a call of it fails.
LEMMA FailFine ==
    ASSUME IInv, Leading, Growing, NEW r \in Reqs, GiveUp(r) \/ CallFails(r)
    PROVE  Fine(r)
<1>1. PICK result : End(r, result) /\ UNCHANGED <<vol, names>>
  BY DEF GiveUp, CallFails, hostVars
<1> QED BY <1>1, EndFine

\* A request that comes in needs nothing.
LEMMA BeginFine ==
    ASSUME IInv, Leading, Growing, NEW r \in Reqs, Begin(r)
    PROVE  Fine(r) /\ \A q \in Reqs \ {r} : op'[q] = op[q]
<1>0. op[r].pc = "done" /\ UNCHANGED <<vol, names>> /\ op \in [Reqs -> Requests]
  BY ReqOf DEF Begin, At, hostVars
<1> PICK k \in Kinds[r], n \in DockerNames, a \in Imports \union {None} :
      (k = "import") = (a # None) /\ op' = [op EXCEPT ![r] = Asked(k, n, a)]
  BY DEF Begin
<1>1. k \in {"create", "import", "remove", "get", "list", "mount"}
  BY NamesAssumption
<1> DEFINE o == Asked(k, n, a)
<1>2. op'[r] = o /\ \A q \in Reqs \ {r} : op'[q] = op[q]
  BY <1>0
<1>3. /\ o.kind = k /\ o.name = n /\ o.an = a /\ o.next = "done" /\ o.pairs = {} /\ o.how = "fresh"
      /\ o.pc = CASE k = "list" -> "tags" [] k = "import" -> "lock" [] OTHER -> "resolve"
      /\ o.ask = IF k = "list" THEN "all" ELSE "one"
  BY DEF Asked, NoRequest
<1> HIDE DEF o
<1>4. /\ o.pc = IF k = "list" THEN "tags" ELSE IF k = "import" THEN "lock" ELSE "resolve"
      /\ o.pc \in {"tags", "lock", "resolve"}
  BY <1>3
<1>5. k = "import" => a \in Imports
  OBVIOUS
<1>6. Shape(o)
  BY <1>1, <1>3, <1>4, <1>5 DEF Shape, Saved
<1>7. Refs(r)' /\ Maker(r)' /\ Reader(r)' /\ Lister(r)' /\ Importer(r)'
  BY <1>2, <1>3, <1>4 DEF Refs, Heading, Maker, Saved, Reader, Lister, Importer
<1>8. Fits(r)'
  BY <1>2, <1>6, <1>7 DEF Fits, Shape
<1> QED BY <1>0, <1>2, <1>8, Still DEF Fine

-----------------------------------------------------------------------------
(* Every step. *)

\* Most steps change no request but one.
LEMMA OneMoves ==
    ASSUME IInv, NEW r \in Reqs,
           Find(r) \/ Change(r) \/ Note(r) \/ Lock(r) \/ SaveBegin(r) \/ GiveUp(r) \/ CallFails(r)
    PROVE  \A q \in Reqs \ {r} : op'[q] = op[q]
<1>1. op \in [Reqs -> Requests]
  BY DEF IInv, TypeOK
<1>2. CASE Lock(r) \/ SaveBegin(r)
  BY <1>1, <1>2 DEF Lock, SaveBegin, Goto
<1>3. CASE SaveEnd(r)
  BY <1>1, <1>3 DEF SaveEnd, Continue, End
<1>4. CASE ~(Lock(r) \/ SaveBegin(r) \/ SaveEnd(r))
  <2>1. PICK o : Quiet(r, o)
    BY <1>4, FindQuiet, ChangeQuiet, NoteQuiet, FailQuiet DEF Note
  <2> QED BY <1>1, <2>1 DEF Quiet, Moves
<1> QED BY <1>2, <1>3, <1>4

\* The steps that find a volume.
LEMMA FindFine ==
    ASSUME IInv, IInv', Leading, Recorded, SeenNow', Growing, Recalled, NEW r \in Reqs, Find(r)
    PROVE  Fine(r)
BY ResolveCachedFine, ResolveMissFine, ReadTagsFine, ReadDestroyedFine, LookedFine, FetchStaleFine,
   ForgetStaleFine, FetchForGetFine, FetchForMountFine, FetchForCreateFine, FetchForImportFine,
   FetchForRemoveFine DEF Find

\* The steps that change one.
LEMMA ChangeFine ==
    ASSUME IInv, IInv', Leading, NamesApart, Recorded, SeenNow', Growing, Recalled, NEW r \in Reqs, Change(r)
    PROVE  Fine(r)
BY FreshNameFine, CreateVolumeFine, AdoptLookedFine, AdoptListedFine, TaggingFine, RememberFine,
   ParkFine, RenameFine, DestroyFine, EradicateFine, ForgetFine DEF Change

\* A step of a request.
LEMMA OneStep ==
    ASSUME IInv, IInv', Leading, NamesApart, Recorded, NEW r \in Reqs,
           \/ Begin(r) \/ Find(r) \/ Change(r) \/ Note(r)
           \/ Lock(r) \/ SaveBegin(r) \/ GiveUp(r) \/ CallFails(r)
    PROVE  Leading'
<1>1. SeenNow' /\ Recalled /\ Growing
  BY SeenStep
<1>2. \A q \in Reqs \ {r} : op'[q] = op[q]
  BY <1>1, BeginFine, OneMoves
<1>3. Fine(r)
  BY <1>1, BeginFine, FindFine, ChangeFine, ListedFine, NoteFine, LockFine, FailFine DEF Note
<1> QED BY <1>2, <1>3, Advance

\* A restart ends a host's requests and fills its cache with what has one volume.
LEMMA RestartLeads ==
    ASSUME IInv, IInv', Leading, Recorded, NEW x \in Hosts, Restart(x)
    PROVE  Leading'
<1>1. SeenNow' /\ Recalled /\ Growing /\ VolumesInOrder /\ UNCHANGED vol
  BY SeenStep DEF Leading, Restart
<1>2. \A q \in Reqs : op'[q] = IF h(q) = x THEN NoRequest ELSE op[q]
  BY DEF Restart
<1> PICK found \in [DockerNames -> ArrayNames \union {None}] :
      /\ \A n \in DockerNames : found[n] = None \/ LiveTagged(n) = {found[n]}
      /\ names' = [names EXCEPT ![x] = found]
  BY DEF Restart
<1>3. \A y \in Hosts, n \in DockerNames : names'[y][n] = IF y = x THEN found[n] ELSE names[y][n]
  BY DEF IInv, TypeOK
<1>4. Considerate({})
  BY <1>1, StillVolumes
<1>5. ASSUME NEW q \in Reqs PROVE Fits(q)'
  <2>1. CASE h(q) = x
    BY <1>2, <2>1, IdleFits DEF NoRequest
  <2>2. CASE h(q) # x
    <3>1. Spared(q, {})
      BY <1>2, <1>4, <2>2 DEF Spared
    <3> QED BY <1>1, <3>1, OthersFit
  <2> QED BY <2>1, <2>2
<1>6. CacheInOrder'
  <2> SUFFICES ASSUME NEW y \in Hosts, NEW n \in DockerNames, NEW a \in ArrayNames, names'[y][n] = a
               PROVE  Its(a, n)
    <3>1. \A y \in Hosts, n \in DockerNames : names'[y][n] \in ArrayNames \union {None}
      BY <1>3, Types DEF IInv
    <3>2. \A a \in ArrayNames, n \in DockerNames : Its(a, n) => Its(a, n)'
      BY <1>1, StillMeans
    <3> QED BY <3>1, <3>2 DEF CacheInOrder, Its
  <2>1. CASE y # x
    BY <2>1, <1>3, ArrayNamesIn DEF Leading, CacheInOrder
  <2>2. CASE y = x
    <3>1. LiveTagged(n) = {a}
      BY <2>2, <1>3, ArrayNamesIn
    <3>2. a \in Tagged(n)
      BY <3>1 DEF LiveTagged
    <3> QED BY <3>2, <1>1, TaggedPair
  <2> QED BY <2>1, <2>2
<1>7. VolumesInOrder'
  BY <1>4 DEF Considerate
<1>8. Sole'
  BY <1>5, SoleStep DEF Fits, Shape
<1> QED BY <1>1, <1>5, <1>6, <1>7, <1>8 DEF Leading

\* A volume destroyed by other means.
LEMMA OutsideLeads ==
    ASSUME IInv, IInv', Leading, Recorded, NEW a \in ArrayNames, DestroyedOutside(a)
    PROVE  Leading'
<1>1. SeenNow' /\ Recalled /\ Growing /\ VolumesInOrder /\ UNCHANGED <<op, names>>
  BY SeenStep DEF Leading, DestroyedOutside, hostVars
<1>2. Considerate({})
  BY <1>1, OutsideConsiderate DEF DestroyedOutside, IInv
<1>3. ASSUME NEW q \in Reqs PROVE Fits(q)'
  <2>1. Spared(q, {})
    BY <1>1, <1>2 DEF Spared
  <2> QED BY <1>1, <2>1, OthersFit
<1>4. CacheInOrder'
  <2> SUFFICES ASSUME NEW x \in Hosts, NEW n \in DockerNames, NEW b \in ArrayNames, names[x][n] = b
               PROVE  Its(b, n)'
    <3>1. \A x \in Hosts, n \in DockerNames : names'[x][n] = names[x][n] /\ names[x][n] \in ArrayNames \union {None}
      BY <1>1, Types DEF IInv
    <3> QED BY <3>1 DEF CacheInOrder, Its
  <2> QED BY <1>2, ArrayNamesIn DEF Leading, CacheInOrder, Considerate, ItsKept
<1>5. VolumesInOrder'
  BY <1>2 DEF Considerate
<1>6. Sole'
  BY <1>3, SoleStep DEF Fits, Shape
<1> QED BY <1>1, <1>3, <1>4, <1>5, <1>6 DEF Leading

\* Every step of Names keeps the invariant.
LEMMA LeadStep ==
    ASSUME NamesApart, IInv, Leading, [Next]_vars
    PROVE  Leading'
<1>0. IInv'
  BY Step
<1>1. CASE Next
  BY <1>0, <1>1, OneStep, RestartLeads, OutsideLeads DEF Next
<1>2. CASE UNCHANGED vars
  <2>1. UNCHANGED <<vol, names, op, seen, misled, muddled>>
    BY <1>2 DEF vars, hostVars, history
  <2>2. VolumesInOrder' /\ CacheInOrder' /\ Sole' /\ SeenNow'
    <3>1. VolumesInOrder'
      BY <2>1 DEF Leading, VolumesInOrder, Leads, Own, Live
    <3>2. CacheInOrder' /\ Sole'
      BY <2>1 DEF Leading, CacheInOrder, Sole, Its
    <3>3. SeenNow'
      BY <2>1 DEF Leading, SeenNow, About, There, Absent, BeingDestroyed, LiveTagged, Tagged, Present, Live, At
    <3> QED BY <3>1, <3>2, <3>3
  <2>3. Recalled /\ Growing
    BY <2>1 DEF Recalled, Growing, Erased, Tagged, Present
  <2>4. Considerate({})
    BY <2>1, <2>3, StillVolumes DEF Leading
  <2>5. ASSUME NEW q \in Reqs PROVE Fits(q)'
    <3>1. Spared(q, {})
      BY <2>1, <2>4 DEF Spared
    <3> QED BY <1>0, <2>2, <2>3, <3>1, OthersFit
  <2> QED BY <2>2, <2>5 DEF Leading
<1> QED BY <1>1, <1>2

\* It holds at the start.
LEMMA LeadInit ==
    ASSUME Init
    PROVE  Leading
<1>1. \A r \in Reqs : /\ op[r].kind = "none" /\ op[r].pc = "done" /\ op[r].pairs = {}
                      /\ op[r].next = "done" /\ op[r].ask = "one"
  BY DEF Init, NoRequest
<1>2. \A a \in ArrayNames : /\ vol[a].tag = None
                            /\ vol[a].state = IF a \in Imports THEN "live" ELSE "none"
  BY DEF Init, NoVolume
<1>3. VolumesInOrder
  <2>1. \A n \in DockerNames : Leads(n) \subseteq {arrayName[n]}
    BY <1>2, ArrayNamesIn DEF Leads, Live
  <2> QED BY <1>2, <2>1 DEF VolumesInOrder
<1>4. CacheInOrder
  BY DEF Init, CacheInOrder, NoNames
<1>5. Sole /\ SeenNow
  BY <1>1 DEF Sole, SeenNow, At, Changes
<1>6. \A r \in Reqs : Fits(r)
  BY <1>1 DEF Fits, Shape, Refs, Heading, Saved, Maker, Importer, Reader, Lister
<1> QED BY <1>3, <1>4, <1>5, <1>6 DEF Leading

-----------------------------------------------------------------------------
(* The theorems. *)

\* While the names' array names keep apart, what the requests need of the volumes,
\* the caches and their own history is true in every state, of the names that are
\* not muddled and the requests that are not misled.
THEOREM LeadingHolds ==
    ASSUME NamesApart
    PROVE  Spec => []Leading
<1>1. Init => Leading
  BY LeadInit
<1>2. IInv /\ Leading /\ [Next]_vars => Leading'
  BY LeadStep
<1> QED BY <1>1, <1>2, InvariantHolds, PTL DEF Spec

\* A name that is not muddled leads to one live volume: no Create makes a second one
\* and no import gives the name to a volume while it leads to another (Create, Adopt),
\* whatever fails and whoever else is at work.
THEOREM LeadsToOne ==
    ASSUME NamesApart
    PROVE  Spec => []NameLeadsToOneVolume
<1>1. Leading => NameLeadsToOneVolume
  <2> SUFFICES ASSUME VolumesInOrder, NEW n \in DockerNames, n \notin muddled
               PROVE  Cardinality(LiveTagged(n)) <= 1
    BY DEF Leading, NameLeadsToOneVolume
  <2>1. \A a, b \in LiveTagged(n) : a = b
    BY DEF VolumesInOrder, Leads, LiveTagged, Tagged, Present, Live
  <2>2. CASE LiveTagged(n) = {}
    BY <2>2, FS_EmptySet
  <2>3. CASE LiveTagged(n) # {}
    <3>1. PICK a : LiveTagged(n) = {a}
      BY <2>1, <2>3
    <3>2. Cardinality({a}) = 1
      BY FS_Singleton
    <3> QED BY <3>1, <3>2
  <2> QED BY <2>2, <2>3
<1> QED BY <1>1, LeadingHolds, PTL

\* What a request has done when Docker is told that the volume is there, or not.
LEMMA AnswerFrom ==
    ASSUME IInv, Leading, [Next]_vars, NEW r \in Reqs, ~At(r, "done"), op'[r].pc = "done"
    PROVE  /\ op'[r].result = "missing" =>
                /\ op[r].pc = "fetch" /\ ~Present(op[r].an) /\ op[r].how # "cached"
           /\ op'[r].result = "ok" =>
                \/ op[r].pc = "fetch" /\ op[r].kind \in {"create", "mount"}
                   /\ (op[r].kind = "create" => Live(op[r].an))
                \/ op[r].pc \in {"replace", "known", "write"} /\ op[r].next = "done"
<1> DEFINE Claim ==
           /\ op'[r].result = "missing" =>
                /\ op[r].pc = "fetch" /\ ~Present(op[r].an) /\ op[r].how # "cached"
           /\ op'[r].result = "ok" =>
                \/ op[r].pc = "fetch" /\ op[r].kind \in {"create", "mount"}
                   /\ (op[r].kind = "create" => Live(op[r].an))
                \/ op[r].pc \in {"replace", "known", "write"} /\ op[r].next = "done"
<1> SUFFICES Claim
  OBVIOUS
<1> HIDE DEF Claim
<1>0. /\ op[r] \in Requests /\ op \in [Reqs -> Requests] /\ op[r].pc # "done" /\ h(r) \in Hosts
  BY ReqOf DEF At
<1>1. \A result : End(r, result) => op'[r].result = result
  BY <1>0 DEF End, NoRequest
<1>2. \A step : Goto(r, step) \/ Onward(r, step) => op'[r].pc = step
  BY <1>0 DEF Goto, Onward, Requests
<1>3. \A a, next : KnownNext(r, a, next) => op'[r].pc = "known"
  BY <1>0 DEF KnownNext, Requests
<1>4. \A result : End(r, result) /\ result \notin {"ok", "missing"} => Claim
  BY <1>1 DEF Claim
<1>5. OutageAnswer(r) \notin {"ok", "missing"}
  BY DEF OutageAnswer
<1>6. CASE Find(r)
  <2>1. ASSUME ResolveCached(r) \/ ResolveMiss(r) \/ ReadTags(r) \/ ReadDestroyed(r) \/ FetchStale(r)
               \/ ForgetStale(r)
        PROVE  FALSE
    BY <1>0, <1>2, <2>1 DEF ResolveCached, Resolved, ResolveMiss, ReadTags, ReadDestroyed, FetchStale,
                       ForgetStale, Requests
  <2>2. CASE Looked(r)
    <3>1. Resolved(r) # "done"
      BY DEF Resolved
    <3>2. op' = [op EXCEPT ![r].an = arrayName[op[r].name], ![r].pc = Resolved(r)] => FALSE
      BY <1>0, <3>1 DEF Requests
    <3> QED BY <1>3, <1>4, <1>5, <2>2, <3>2 DEF Looked
  <2>3. CASE FetchForGet(r)
    <3>1. Present(op[r].an) \/ op[r].how # "cached"
      BY <2>3 DEF FetchForGet, Fetched, Present, Live
    <3> QED BY <1>1, <1>3, <2>3, <3>1 DEF FetchForGet, Fetched, At, Claim
  <2>4. CASE FetchForMount(r)
    <3>1. Present(op[r].an) \/ op[r].how # "cached"
      BY <2>4 DEF FetchForMount, Fetched, Present, Live
    <3> QED BY <1>1, <2>4, <3>1 DEF FetchForMount, Fetched, At, Claim
  <2>5. CASE FetchForCreate(r)
    BY <1>1, <1>2, <2>5 DEF FetchForCreate, Fetched, At, Claim
  <2>6. CASE FetchForImport(r) \/ FetchForRemove(r)
    BY <1>2, <1>4, <2>6 DEF FetchForImport, FetchForRemove
  <2> QED BY <1>6, <2>1, <2>2, <2>3, <2>4, <2>5, <2>6 DEF Find, Claim
<1>7. CASE Change(r)
  <2>1. ASSUME Remember(r) \/ Park(r) \/ Rename(r) \/ Forget(r) PROVE FALSE
    <3>1. ~Remember(r) /\ ~Forget(r)
      BY <1>2, <1>3 DEF Remember, Forget
    <3>2. ~Park(r)
      <4>1. \A s : op' # [op EXCEPT ![r].spare = s, ![r].pc = "rename"]
        BY <1>0 DEF Requests
      <4>2. op' # [op EXCEPT ![r].pc = "destroy"]
        BY <1>0 DEF Requests
      <4> QED BY <4>1, <4>2 DEF Park
    <3>3. ~Rename(r)
      BY <1>0 DEF Rename, Requests
    <3> QED BY <2>1, <3>1, <3>2, <3>3
  <2>2. CASE FreshName(r)
    <3>1. \A s : op' = [op EXCEPT ![r].an = s, ![r].held = None, ![r].pc = "relock"] => FALSE
      BY <1>0 DEF Requests
    <3> QED BY <1>4, <2>2, <3>1 DEF FreshName
  <2>3. CASE AdoptLooked(r)
    <3>1. op' = [op EXCEPT ![r].ask = "all", ![r].pairs = {}, ![r].pc = "tags"] => FALSE
      BY <1>0 DEF Requests
    <3> QED BY <1>4, <2>3, <3>1 DEF AdoptLooked
  <2>4. CASE AdoptListed(r)
    <3> DEFINE tags == {p[2] : p \in {q \in op[r].pairs : q[1] = op[r].an}}
    <3>1. op' = [op EXCEPT ![r].pairs = {}, ![r].ask = "one",
                           ![r].pc = IF tags = {} THEN "tag" ELSE "remember"] => FALSE
      <4> HIDE DEF tags
      <4> QED BY <1>0 DEF Requests
    <3> QED BY <1>4, <2>4, <3>1 DEF AdoptListed
  <2>5. CASE CreateVolume(r) \/ Tagging(r) \/ Destroy(r) \/ Eradicate(r)
    BY <1>2, <1>4, <2>5 DEF CreateVolume, Tagging, Destroy, Eradicate
  <2> QED BY <1>7, <2>1, <2>2, <2>3, <2>4, <2>5 DEF Change, Claim
<1>8. ASSUME op[r].pc \in {"replace", "known", "write"}, Continue(r) PROVE Claim
  <2>1. op[r].next # "done" =>
          op' # [op EXCEPT ![r].pc = op[r].next, ![r].put = NoNames, ![r].next = "done"]
    BY <1>0 DEF Requests
  <2> QED BY <1>1, <1>8, <2>1 DEF Continue, Claim
<1>9. CASE Note(r)
  <2>1. ASSUME Listed(r) PROVE FALSE
    BY <1>0, <2>1 DEF Listed, Requests
  <2>2. CASE ReplaceKnown(r)
    BY <1>2, <1>8, <2>2 DEF ReplaceKnown, At
  <2>3. CASE SetKnown(r)
    BY <1>2, <1>8, <2>3 DEF SetKnown, At
  <2>4. CASE SaveEnd(r)
    BY <1>8, <2>4 DEF SaveEnd, At
  <2> QED BY <1>9, <2>1, <2>2, <2>3, <2>4 DEF Note
<1>10. ASSUME Begin(r) \/ Lock(r) \/ SaveBegin(r) PROVE FALSE
  BY <1>0, <1>2, <1>10 DEF Begin, Lock, SaveBegin, At, Requests
<1>11. CASE GiveUp(r) \/ CallFails(r)
  BY <1>4, <1>5, <1>11 DEF GiveUp, CallFails
<1>12. ASSUME NEW q \in Reqs \ {r},
              \/ Begin(q) \/ Find(q) \/ Change(q) \/ Note(q)
              \/ Lock(q) \/ SaveBegin(q) \/ GiveUp(q) \/ CallFails(q)
       PROVE  FALSE
  <2>1. op'[r] = op[r]
    BY <1>0, <1>12, OneMoves DEF Begin
  <2> QED BY <1>0, <2>1
<1>13. ASSUME NEW x \in Hosts, Restart(x) PROVE Claim
  <2>1. op'[r] \in {NoRequest, op[r]}
    BY <1>13 DEF Restart
  <2> QED BY <1>0, <2>1 DEF Claim, NoRequest
<1>14. ASSUME UNCHANGED op PROVE FALSE
  BY <1>0, <1>14
<1> QED BY <1>6, <1>7, <1>9, <1>10, <1>11, <1>12, <1>13, <1>14 DEF Next, vars, DestroyedOutside

\* Get and Mount say that there is no volume only if the name led to none at some
\* moment of the request (getLive, Get, Mount): neither a cache that is out of date
\* nor a move of the name's volume makes them say so, as long as their second look
\* does not find an old answer that was put back and the name is not muddled.
THEOREM MissingIsAbsent ==
    ASSUME NamesApart
    PROVE  Spec => MissingOnlyIfAbsent
<1>1. IInv /\ Leading /\ [Next]_vars =>
        [\A r \in Reqs \ misled, k \in {"get", "mount"} :
            Answers(r, k, "missing") => op[r].name \in seen[r].absent \union muddled]_vars
  <2> SUFFICES ASSUME IInv, Leading, [Next]_vars, NEW r \in Reqs, r \notin misled,
                      op[r].kind \in {"get", "mount"}, Answers(r, op[r].kind, "missing"),
                      op[r].name \notin muddled
               PROVE  op[r].name \in seen[r].absent
    BY DEF Answers
  <2>1. op[r].pc = "fetch" /\ ~Present(op[r].an) /\ op[r].how # "cached"
    BY AnswerFrom DEF Answers
  <2> QED BY <2>1 DEF Leading, Fits, Sure, Reader, Heading
<1> QED BY <1>1, InvariantHolds, LeadingHolds, PTL DEF Spec, MissingOnlyIfAbsent

\* A Remove that succeeded leaves no live volume with the name's tag (Remove), unless
\* it was misled, by a lost rename or an old answer, or the name is muddled.
THEOREM RemovedIsAbsent ==
    ASSUME NamesApart
    PROVE  Spec => RemovedIsGone
<1>1. IInv /\ Leading /\ [Next]_vars =>
        [\A r \in Reqs \ misled :
            Answers(r, "remove", "ok") => op[r].name \in seen[r].absent \union muddled]_vars
  <2> SUFFICES ASSUME IInv, Leading, [Next]_vars, NEW r \in Reqs, r \notin misled,
                      Answers(r, "remove", "ok"), op[r].name \notin muddled
               PROVE  op[r].name \in seen[r].absent
    OBVIOUS
  <2>1. op[r].kind = "remove" /\ op[r].pc \in {"replace", "known", "write"} /\ op[r].next = "done"
    BY AnswerFrom DEF Answers
  <2>2. op[r].pc # "replace"
    BY <2>1 DEF Leading, Fits, Shape
  <2> QED BY <2>1, <2>2 DEF Leading, Fits, Sure, Maker, Saved
<1> QED BY <1>1, InvariantHolds, LeadingHolds, PTL DEF Spec, RemovedIsGone

\* A Create or import that succeeded had a live volume of its name at some moment of
\* the request (Create, importVolume), unless it was misled or the name is muddled.
THEOREM ServedWasThere ==
    ASSUME NamesApart
    PROVE  Spec => ServedIsThere
<1>1. IInv /\ Leading /\ [Next]_vars =>
        [\A r \in Reqs \ misled, k \in {"create", "import"} :
            Answers(r, k, "ok") => op[r].name \in seen[r].there \union muddled]_vars
  <2> SUFFICES ASSUME IInv, Leading, [Next]_vars, NEW r \in Reqs, r \notin misled,
                      op[r].kind \in {"create", "import"}, Answers(r, op[r].kind, "ok"),
                      op[r].name \notin muddled
               PROVE  op[r].name \in seen[r].there
    BY DEF Answers
  <2>1. \/ op[r].pc = "fetch" /\ op[r].kind = "create" /\ Live(op[r].an)
        \/ op[r].pc \in {"replace", "known", "write"} /\ op[r].next = "done"
    BY AnswerFrom DEF Answers
  <2>2. Fits(r) /\ op[r].name \in DockerNames /\ Sane(op[r]) /\ ~At(r, "done") /\ Sure(r)
    BY ReqOf DEF Leading, Answers, Sane, At, Sure
  <2> PICK n \in DockerNames : n = op[r].name
    BY <2>2
  <2>3. CASE op[r].pc = "fetch" /\ op[r].kind = "create" /\ Live(op[r].an)
    <3> PICK a \in ArrayNames : a = op[r].an
      BY <2>2, <2>3 DEF Sane
    <3>1. Its(a, n)
      BY <2>2, <2>3 DEF Fits, Refs, Heading
    <3>2. There(r, n)
      BY <2>2, <2>3, <3>1 DEF Its, There, LiveTagged, Tagged, Present, Live, Sure
    <3> QED BY <2>2, <2>3, <3>2 DEF Leading, SeenNow, About
  <2>4. CASE op[r].pc \in {"replace", "known", "write"} /\ op[r].next = "done"
    <3>1. Saved(op[r])
      BY <2>2, <2>4 DEF Fits, Shape, Saved
    <3> QED BY <2>2, <3>1 DEF Fits, Maker, Importer
  <2> QED BY <2>1, <2>3, <2>4
<1> QED BY <1>1, InvariantHolds, LeadingHolds, PTL DEF Spec, ServedIsThere

\* List names each volume that had its tag and was live all the while, and none
\* that never was, although it asks the array twice (List), of the names that are
\* not muddled.
THEOREM ListIsTrue ==
    ASSUME NamesApart
    PROVE  Spec => ListTellsAll
<1>1. IInv /\ Leading /\ [Next]_vars =>
        [\A r \in Reqs, n \in DockerNames \ muddled :
            Answers(r, "list", "ok") =>
                n \in IF op[r].put[n] = None THEN seen[r].absent ELSE seen[r].there]_vars
  <2> SUFFICES ASSUME IInv, Leading, [Next]_vars, NEW r \in Reqs, NEW n \in DockerNames, n \notin muddled,
                      Answers(r, "list", "ok")
               PROVE  n \in IF op[r].put[n] = None THEN seen[r].absent ELSE seen[r].there
    OBVIOUS
  <2>1. op[r].kind = "list" /\ op[r].pc \in {"replace", "known", "write"}
    BY AnswerFrom DEF Answers
  <2>2. op[r].pc # "known"
    BY <2>1 DEF Leading, Fits, Shape
  <2> QED BY <2>1, <2>2 DEF Leading, Fits, Lister
<1> QED BY <1>1, InvariantHolds, LeadingHolds, PTL DEF Spec, ListTellsAll
=============================================================================
