---------------------------- MODULE RequestReply ----------------------------
(***************************************************************************)
(* Request and reply over RabbitMQ, as the services use it: ClientProxy.   *)
(* send puts a message on the durable queue of the service called, with a  *)
(* correlation id and the caller's direct reply address; the service       *)
(* answers to that address.                                                *)
(*                                                                         *)
(* No service sets noAck on the queue it reads (auth main.ts:28 has it     *)
(* commented out), so the broker forgets a message when it hands it over,  *)
(* prefetch has no effect and a service works on any number of messages at *)
(* a time.  The client has no timeout.  A reply address lives as long as   *)
(* the connection it was opened on, messages in a durable queue outlive    *)
(* the service that reads it.  Whether the client library re-sends what    *)
(* the broker had not confirmed when it went down is left out.             *)
(*                                                                         *)
(* A client reads its reply address under the same options.  The broker    *)
(* refuses a reader that wants to acknowledge (noAck: false) there, the    *)
(* client's connect() never ends, and its call is never sent: it is Deaf.  *)
(***************************************************************************)

CONSTANTS
    Process,    \* the services
    Call,       \* the calls they may make, each made once
    Deaf,       \* those of a client whose reply address cannot be read
    From, To    \* the service that makes a call, the one that is called

VARIABLES
    up,         \* the services that run
    place,      \* where the message of each call is, or its reply
    caller,     \* what each caller knows
    disturbed   \* history: calls whose server or broker went down meanwhile

busVars == <<up, place, caller, disturbed>>
-----------------------------------------------------------------------------
Place  == {"unsent", "queue", "server", "reply", "over"}
Caller == {"idle", "waiting", "answered", "gone"}

BusTypeOK ==
    /\ up \subseteq Process
    /\ place \in [Call -> Place]
    /\ caller \in [Call -> Caller]
    /\ disturbed \subseteq Call

BusInit ==
    /\ up        = Process
    /\ place     = [c \in Call |-> "unsent"]
    /\ caller    = [c \in Call |-> "idle"]
    /\ disturbed = {}

InFlight(c) == place[c] \in {"queue", "server", "reply"}

Waiting(c) == caller[c] = "waiting"

(* Nothing will ever tell the caller.                                      *)
Stranded(c) == Waiting(c) /\ place[c] = "over"
-----------------------------------------------------------------------------
Send(c) ==
    /\ caller[c] = "idle"
    /\ From[c] \in up
    /\ place'  = [place EXCEPT ![c] = IF c \in Deaf THEN "over" ELSE "queue"]
    /\ caller' = [caller EXCEPT ![c] = "waiting"]
    /\ UNCHANGED <<up, disturbed>>

Deliver(c) ==
    /\ place[c] = "queue"
    /\ To[c] \in up
    /\ place' = [place EXCEPT ![c] = "server"]
    /\ UNCHANGED <<up, caller, disturbed>>

(* The handler's answer, or its error, goes to the reply address, and to   *)
(* nobody if the caller's connection is gone.  The correlation id leads a  *)
(* reply to its call.                                                      *)
Serve(c) ==
    /\ place[c] = "server"
    /\ place' = [place EXCEPT ![c] = IF Waiting(c) THEN "reply" ELSE "over"]
    /\ UNCHANGED <<up, caller, disturbed>>

Receive(c) ==
    /\ place[c] = "reply"
    /\ place'  = [place EXCEPT ![c] = "over"]
    /\ caller' = [caller EXCEPT ![c] = "answered"]
    /\ UNCHANGED <<up, disturbed>>

(* The messages a service works on and the replies on their way to it go   *)
(* down with it; messages queued for it stay.                              *)
LostWith(p) ==
    {c \in Call : \/ place[c] = "server" /\ To[c] = p
                  \/ place[c] = "reply" /\ From[c] = p}

Crash(p) ==
    /\ p \in up
    /\ up'        = up \ {p}
    /\ place'     = [c \in Call |-> IF c \in LostWith(p) THEN "over" ELSE place[c]]
    /\ caller'    = [c \in Call |-> IF Waiting(c) /\ From[c] = p THEN "gone" ELSE caller[c]]
    /\ disturbed' = disturbed \cup {c \in Call : Waiting(c) /\ To[c] = p}

Restart(p) ==
    /\ p \notin up
    /\ up' = up \cup {p}
    /\ UNCHANGED <<place, caller, disturbed>>

(* All reply addresses die with the broker's connections, so even a        *)
(* message that was kept is answered to nobody.  (BrokerRestartMistaken:   *)
(* with acknowledgements a message could be handed over again.)            *)
BrokerRestartMistaken ==
    /\ \E c \in Call : InFlight(c)
    /\ place' = [c \in Call |-> IF InFlight(c) THEN "queue" ELSE place[c]]
    /\ UNCHANGED <<up, caller, disturbed>>

BrokerRestart ==
    /\ \E c \in Call : InFlight(c)
    /\ place'     = [c \in Call |-> IF InFlight(c) THEN "over" ELSE place[c]]
    /\ disturbed' = disturbed \cup {c \in Call : Waiting(c)}
    /\ UNCHANGED <<up, caller>>
-----------------------------------------------------------------------------
Fault == (\E p \in Process : Crash(p)) \/ BrokerRestart

BusNext ==
    \/ \E c \in Call : Send(c) \/ Deliver(c) \/ Serve(c) \/ Receive(c)
    \/ \E p \in Process : Restart(p)
    \/ Fault

BusSpec == BusInit /\ [][BusNext]_busVars
-----------------------------------------------------------------------------
(* What is known of every call: replies exist for waiting callers only,    *)
(* what was not sent is nowhere, a caller that left is not running on, and *)
(* one that nobody will ever answer was disturbed or is deaf.              *)
BusInv ==
    /\ BusTypeOK
    /\ \A c \in Call :
        /\ Stranded(c) => c \in disturbed \cup Deaf
        /\ place[c] = "unsent" <=> caller[c] = "idle"
        /\ place[c] = "reply" => Waiting(c)
        /\ caller[c] = "answered" => place[c] = "over"

(* The refinement mapping onto RemoteCall.                                 *)
StageOf(c) ==
    CASE caller[c] = "idle"     -> "idle"
      [] caller[c] = "answered" -> "answered"
      [] caller[c] = "gone"     -> "lost"
      [] OTHER -> CASE place[c] \in {"queue", "server"} -> "asked"
                    [] place[c] = "reply" -> "computed"
                    [] OTHER -> "lost"

Calls == INSTANCE RemoteCall WITH stage <- [c \in Call |-> StageOf(c)]

CallsSpec == Calls!Spec
=============================================================================
