----------------------------- MODULE RemoteCall -----------------------------
(***************************************************************************)
(* What a service may rely on when it calls another one with               *)
(* client.send(pattern, data): each call is computed at most once, after   *)
(* it was asked; the caller learns at most one answer, which was computed; *)
(* and a call can be lost without the caller being told, even at once.     *)
(***************************************************************************)

CONSTANT Call       \* the calls that may be made

VARIABLE stage      \* how far each call has come

Stage == {"idle", "asked", "computed", "answered", "lost"}

TypeOK == stage \in [Call -> Stage]

Init == stage = [c \in Call |-> "idle"]

Step(c, from, to) ==
    /\ stage[c] = from
    /\ stage' = [stage EXCEPT ![c] = to]

(* Processes and the broker lose several calls at once.                    *)
Lose(S) ==
    /\ \A c \in S : stage[c] \in {"asked", "computed"}
    /\ stage' = [c \in Call |-> IF c \in S THEN "lost" ELSE stage[c]]

Next ==
    \/ \E c \in Call :
        \/ Step(c, "idle", "asked") \/ Step(c, "idle", "lost")
        \/ Step(c, "asked", "computed")
        \/ Step(c, "computed", "answered")
    \/ \E S \in SUBSET Call : Lose(S)

Spec == Init /\ [][Next]_stage
=============================================================================
