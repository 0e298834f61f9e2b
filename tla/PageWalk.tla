------------------------------ MODULE PageWalk ------------------------------
(***************************************************************************)
(* A client pages through a list (GET receipt/list/yearAndMonth, its admin *)
(* variant, GET users/list) while the collection changes.  Each page is a  *)
(* query of its own, cut with skip and limit and without a sort: MongoDB   *)
(* returns documents in the order they were inserted.                      *)
(*                                                                         *)
(* A document is the number of its insertion.  Its month stands for all    *)
(* that decides whether the query finds it: an upload chooses it, an       *)
(* update may move it, and one without receiptDate moves it to the current *)
(* month.  Members are documents that nobody updates.                      *)
(***************************************************************************)
EXTENDS Integers, FiniteSets

CONSTANTS
    Walk,       \* the walks of clients through a list
    Month,      \* the months receipts are dated
    MaxDoc,     \* bound: the documents ever inserted
    MaxLimit    \* bound: the limit a client asks for

ASSUME BoundAssumption == MaxDoc \in Nat /\ MaxLimit \in Nat

VARIABLES
    now,        \* the current month
    count,      \* how many documents were inserted
    stored,     \* the documents in the collection
    month,      \* the month each document is dated
    phase,      \* of each walk: "idle", "walking" or "done"
    asked,      \* its month, first page and limit
    page,       \* the page it reads next
    seen,       \* the documents shown so far
    repeated,   \* those shown more than once
    stayed,     \* history: found by the query ever since the walk began
    departed,   \* history: no longer found, at some time of the walk
    movedIn     \* history: found again or for the first time by an update

collection == <<now, count, stored, month>>
client     == <<phase, asked, page, seen, repeated>>
history    == <<stayed, departed, movedIn>>
vars       == <<collection, client, history>>
-----------------------------------------------------------------------------
Doc == 1..MaxDoc

Ask == [month : Month, first : {0, 1}, limit : 0..MaxLimit]

Walking(w) == phase[w] = "walking"

Found(S, m, k) == {d \in S : m[d] = k}

View(w) == Found(stored, month, asked[w].month)

Start(k) == [month |-> k, first |-> 1, limit |-> 0]

TypeOK ==
    /\ now \in Month
    /\ count \in 0..MaxDoc
    /\ stored \subseteq 1..count
    /\ month \in [Doc -> Month]
    /\ phase \in [Walk -> {"idle", "walking", "done"}]
    /\ asked \in [Walk -> Ask]
    /\ page \in [Walk -> Nat]
    /\ seen \in [Walk -> SUBSET (1..count)]
    /\ repeated \in [Walk -> SUBSET Doc]
    /\ stayed \in [Walk -> SUBSET Doc]
    /\ departed \in [Walk -> SUBSET Doc]
    /\ movedIn \in [Walk -> SUBSET Doc]

Init ==
    /\ now      \in Month
    /\ count    = 0
    /\ stored   = {}
    /\ month    = [d \in Doc |-> now]
    /\ phase    = [w \in Walk |-> "idle"]
    /\ asked    = [w \in Walk |-> Start(now)]
    /\ page     = [w \in Walk |-> 1]
    /\ seen     = [w \in Walk |-> {}]
    /\ repeated = [w \in Walk |-> {}]
    /\ stayed   = [w \in Walk |-> {}]
    /\ departed = [w \in Walk |-> {}]
    /\ movedIn  = [w \in Walk |-> {}]
-----------------------------------------------------------------------------
(* The collection becomes S, dated m; M are the documents an update        *)
(* touched.  The walks that go on remember what it did to their view.      *)
Change(S, m, M) ==
    LET After(w) == Found(S, m, asked[w].month) IN
    /\ stored'   = S
    /\ month'    = m
    /\ stayed'   = [w \in Walk |-> IF Walking(w) THEN stayed[w] \cap After(w)
                                   ELSE stayed[w]]
    /\ departed' = [w \in Walk |-> IF Walking(w) THEN departed[w] \cup (View(w) \ After(w))
                                   ELSE departed[w]]
    /\ movedIn'  = [w \in Walk |-> IF Walking(w)
                                   THEN movedIn[w] \cup (M \cap (After(w) \ View(w)))
                                   ELSE movedIn[w]]
    /\ UNCHANGED client

(* An upload, or the registration of a member.                             *)
Insert(k) ==
    /\ count < MaxDoc
    /\ count' = count + 1
    /\ Change(stored \cup {count + 1}, [month EXCEPT ![count + 1] = k], {})
    /\ UNCHANGED now

Remove(d) ==
    /\ d \in stored
    /\ Change(stored \ {d}, month, {})
    /\ UNCHANGED <<now, count>>

Redate(d, k) ==
    /\ d \in stored
    /\ Change(stored, [month EXCEPT ![d] = k], {d})
    /\ UNCHANGED <<now, count>>

(* moment(undefined) is now.                                               *)
RedateToNow(d) == Redate(d, now)

Tick ==
    /\ now' \in Month
    /\ UNCHANGED <<count, stored, month, client, history>>
-----------------------------------------------------------------------------
(* Math.max(1, n) on page and limit; page 0 and page 1 are the same page.  *)
Clamp(n) == IF n < 1 THEN 1 ELSE n

SkipMistaken(p, l) == Clamp(p) * Clamp(l)

Skip(p, l) == (Clamp(p) - 1) * Clamp(l)

(* How many documents of V come before d.                                  *)
BeforeMistaken(V, d) == Cardinality({e \in V : e > d})

Before(V, d) == Cardinality({e \in V : e < d})

Page(V, p, l) ==
    {d \in V : Skip(p, l) <= Before(V, d) /\ Before(V, d) < Skip(p, l) + Clamp(l)}

Begin(w, ask) ==
    /\ phase[w] = "idle"
    /\ phase'  = [phase EXCEPT ![w] = "walking"]
    /\ asked'  = [asked EXCEPT ![w] = ask]
    /\ page'   = [page EXCEPT ![w] = ask.first]
    /\ stayed' = [stayed EXCEPT ![w] = Found(stored, month, ask.month)]
    /\ UNCHANGED <<collection, seen, repeated, departed, movedIn>>

(* The client asks for the next page until one is not full.                *)
ReadPage(w) ==
    LET shown == Page(View(w), page[w], asked[w].limit) IN
    /\ Walking(w)
    /\ seen'     = [seen EXCEPT ![w] = @ \cup shown]
    /\ repeated' = [repeated EXCEPT ![w] = @ \cup (shown \cap seen[w])]
    /\ page'     = [page EXCEPT ![w] = @ + 1]
    /\ phase'    = IF Cardinality(shown) < Clamp(asked[w].limit)
                   THEN [phase EXCEPT ![w] = "done"] ELSE phase
    /\ UNCHANGED <<collection, asked, history>>
-----------------------------------------------------------------------------
Next ==
    \/ \E k \in Month : Insert(k)
    \/ \E d \in Doc : Remove(d) \/ RedateToNow(d) \/ \E k \in Month : Redate(d, k)
    \/ Tick
    \/ \E w \in Walk : ReadPage(w) \/ \E ask \in Ask : Begin(w, ask)

Spec == Init /\ [][Next]_vars
-----------------------------------------------------------------------------
(* A document that the query would have found at every moment of a walk,   *)
(* and that no page showed, was skipped because one before it was deleted  *)
(* or dated elsewhere meanwhile (receipt.repository.ts:113): uploads,      *)
(* page 0, a limit of 0 and other changes lose nothing.                    *)
MissedNeedsDeparture ==
    \A w \in Walk : phase[w] = "done" =>
        \A d \in stayed[w] \ seen[w] : \E e \in departed[w] : e < d

(* A document shown on two pages was shown by page 0 and again by page 1,  *)
(* or one before it was moved into the list by an update (receipt.         *)
(* service.ts:227-233): neither uploads nor deletions repeat a document.   *)
RepeatedNeedsMove ==
    \A w \in Walk : \A d \in repeated[w] :
        asked[w].first = 0 \/ \E e \in movedIn[w] : e < d

(* What makes the two inductive: where an unread document, and one that    *)
(* was read, lie relative to the next page.                                *)
UnreadAhead ==
    \A w \in Walk : Walking(w) =>
        \A d \in stayed[w] \ seen[w] :
            \/ \E e \in departed[w] : e < d
            \/ Before(View(w), d) >= Skip(page[w], asked[w].limit)

ReadBehind ==
    \A w \in Walk : Walking(w) /\ asked[w].first = 1 =>
        /\ page[w] >= 1
        /\ \A d \in seen[w] :
            \/ \E e \in movedIn[w] : e < d
            \/ Before(View(w), d) < Skip(page[w], asked[w].limit)

StayedFound == \A w \in Walk : Walking(w) => stayed[w] \subseteq View(w)

FreshWalk == \A w \in Walk : phase[w] = "idle" => seen[w] = {} /\ repeated[w] = {}

IndInv ==
    /\ TypeOK /\ FreshWalk /\ StayedFound /\ UnreadAhead /\ ReadBehind
    /\ MissedNeedsDeparture /\ RepeatedNeedsMove
=============================================================================
