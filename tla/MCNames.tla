------------------------------ MODULE MCNames ------------------------------
(* Instances of Names for TLC. *)
EXTENDS Names, TLC

CONSTANTS h1, h2, r1, r2, n1, c1, s1, i1

SameHost == r1 :> h1 @@ r2 :> h1
Alone == r1 :> h1
OneEach == r1 :> h1 @@ r2 :> h2
Computed == n1 :> c1
Fresh == n1 :> {s1}

\* One slot changes volumes while the other reads; or both change them.
Readers == r1 :> {"create", "import", "remove"} @@ r2 :> {"list", "mount"}
Changers == r1 :> {"create", "import", "remove"} @@ r2 :> {"create", "remove", "get"}
OneByOne == r1 :> {"create", "remove"}

Parks == [x \in Hosts |-> FALSE]
OneEradicates == [x \in Hosts |-> x = h2]

\* What goes wrong on one host, and between hosts.
LocalFaults == {"giveup", "restart", "outside"}
ArrayFaults == {"error", "tag", "lost", "lostRename", "outside"}

\* The only name is muddled for good: nothing more is promised of it.
SomethingPromised == muddled # DockerNames

\* What a request does next does not depend on what Docker was told before.
Progress == [r \in Reqs |-> [op[r] EXCEPT !.result = NoRequest.result]]

\* Between hosts, with no restart, nothing reads the file, and what was there is
\* asked of a Create or import only.
WasThere(r) == IF op[r].kind \in {"create", "import"} THEN seen[r].there ELSE {}
HostsView ==
    <<vol, names, known, saver, slot, misled, muddled, Progress,
      [r \in Reqs |-> <<WasThere(r), seen[r].absent>>]>>
=============================================================================
