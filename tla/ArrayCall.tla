----------------------------- MODULE ArrayCall -----------------------------
(***************************************************************************)
(* What the callers of the array's client may rely on, whatever happens to *)
(* their requests on the way: the contract of Client.do.                   *)
(*                                                                         *)
(* A call asks the array to do something.  The array may do it, more than  *)
(* once and even after the caller was answered, except that a POST, which  *)
(* creates an object, is done at most once, and never when the caller was  *)
(* told that the array refused it.  "ok" is only said of what was done.    *)
(***************************************************************************)
EXTENDS Naturals

CONSTANTS
    Calls,
    Posts   \* the calls whose method is POST

VARIABLES
    told,   \* what the caller knows
    done    \* how often the array did what the call asks for

vars == <<told, done>>

Told == {"idle", "asked", "ok", "refused", "unknown"}

Init ==
    /\ told = [c \in Calls |-> "idle"]
    /\ done = [c \in Calls |-> 0]

Ask(c) ==
    /\ told[c] = "idle"
    /\ told' = [told EXCEPT ![c] = "asked"]
    /\ UNCHANGED done

Do(c) ==
    /\ told[c] # "idle"
    /\ c \in Posts => done[c] = 0 /\ told[c] # "refused"
    /\ done' = [done EXCEPT ![c] = @ + 1]
    /\ UNCHANGED told

Answer(c, answer) ==
    /\ told[c] = "asked"
    /\ answer = "ok" => done[c] > 0
    /\ answer = "refused" /\ c \in Posts => done[c] = 0
    /\ told' = [told EXCEPT ![c] = answer]
    /\ UNCHANGED done

Next ==
    \E c \in Calls :
        \/ Ask(c) \/ Do(c)
        \/ \E answer \in {"ok", "refused", "unknown"} : Answer(c, answer)

Spec == Init /\ [][Next]_vars
=============================================================================
