---------------------------- MODULE LighterOrders ----------------------------
(***************************************************************************)
(* exchanges/lighter: place_market_order, the nonce it signs with, the     *)
(* pool of presigned orders and the user websocket the orders leave by.    *)
(*                                                                         *)
(* The venue accepts an order only under the nonce it expects next.  The   *)
(* client keeps a copy of that number, signs with it, and advances it when *)
(* an order was accepted; the pool signs one order per side ahead of time  *)
(* and hands its client id out before the order is placed.  The strategy   *)
(* has one call under way at a time; up to three refreshes of the pool may *)
(* be queued besides.                                                      *)
(*                                                                         *)
(* An asyncio.Lock is the queue of the tasks that asked for it, its holder *)
(* first.  What a task does while it need not wait is one step.            *)
(*                                                                         *)
(* A definition whose name starts with Mut is a plausible mistake in the   *)
(* definition after it.  Nothing uses it.                                  *)
(***************************************************************************)
EXTENDS Integers, Sequences

CONSTANTS
    None,        \* Python's None
    MaxCalls,    \* bound: calls of place_market_order
    MaxSigns,    \* bound: no drift or timed refresh once so many orders were presigned
    MaxQueue     \* bound: ... nor while so many refreshes are queued

ASSUME LighterAssumption ==
    /\ {MaxCalls, MaxSigns, MaxQueue} \subseteq Nat
    /\ None \notin Int

Sides == {"BUY", "SELL"}
Tasks == {"post-fire", "drift", "time"}
Slot == [coi : Nat, nonce : Nat]

VARIABLES
    \* the venue and the connection
    server_nonce,   \* the nonce the venue expects next
    accepted,       \* the calls whose orders it accepted, in that order
    wire,           \* orders on their way to it
    replies,        \* its answers on their way back
    ws,             \* _ws: "open", "closed" (not noticed yet), or None
    \* the client
    next_nonce,     \* _next_nonce
    nonce_lock,     \* _nonce_lock, as the queue described above
    \* the pool
    slots,          \* [Sides -> Slot \cup {None}]
    pool_lock,      \* _pool_lock, as a queue
    coi_counter,    \* the pool's own client ids: 1, 2, ...
    counter,        \* the fallback generator's: -1, -2, ...; the seeds keep them apart
    \* the call under way, and what became of the earlier ones
    call,           \* how far place_market_order has got
    side, slot,     \* its side, and the nonce of the slot it took
    coi,            \* its client id; between calls the last one handed out
    results         \* what the earlier calls returned

venueVars == <<server_nonce, accepted, wire, replies, ws>>
poolVars == <<slots, pool_lock, coi_counter>>
callVars == <<call, side, coi, slot>>
vars == <<venueVars, next_nonce, nonce_lock, poolVars, counter, callVars, results>>

\* `answer` is whether the connection the order left by still stands.
Txs == [id : Nat, nonce : Nat, answer : BOOLEAN]
Replies == [id : Nat, verdict : {"ok", "stale", "refused"}]
\* "none" is a call that failed before anything was sent, "unknown" one that failed with
\* the order possibly at the venue.
Results == {"ok", "stale", "refused", "none", "unknown"}

TypeOK ==
    /\ server_nonce \in Nat
    /\ accepted \in Seq(Nat)
    /\ wire \subseteq Txs
    /\ replies \subseteq Replies
    /\ ws \in {"open", "closed", None}
    /\ next_nonce \in Nat \cup {None}
    /\ nonce_lock \in Seq({"order", "refresh"})
    /\ slots \in [Sides -> Slot \cup {None}]
    /\ pool_lock \in Seq(Tasks)
    /\ coi_counter \in Nat
    /\ counter \in Nat
    /\ call \in {"idle", "minted", "placed", "sent"}
    /\ side \in Sides \cup {None}
    /\ coi \in Int \cup {None}
    /\ slot \in Nat \cup {None}
    /\ results \in Seq(Results)

-----------------------------------------------------------------------------
Id == Len(results) + 1    \* the call under way
Holds(lock, task) == lock # <<>> /\ Head(lock) = task
Queued(lock, task) == \E i \in 1 .. Len(lock) : lock[i] = task
Empty == [s \in Sides |-> None]

\* _sign_slot for both sides, under one nonce and two new client ids.
Signed(nonce) ==
    [s \in Sides |-> [coi |-> IF s = "BUY" THEN coi_counter + 1 ELSE coi_counter + 2,
                      nonce |-> nonce]]

\* connect() has fetched the nonce and opened the stream; the first refresh may have
\* found no quote yet.
Init ==
    /\ server_nonce = 0
    /\ accepted = <<>>
    /\ wire = {}
    /\ replies = {}
    /\ ws = "open"
    /\ next_nonce = 0
    /\ nonce_lock = <<>>
    /\ slots \in {Empty, [s \in Sides |-> [coi |-> IF s = "BUY" THEN 1 ELSE 2,
                                           nonce |-> 0]]}
    /\ pool_lock = <<>>
    /\ coi_counter = 2
    /\ counter = 1
    /\ call = "idle"
    /\ side = None
    /\ coi = None
    /\ slot = None
    /\ results = <<>>

-----------------------------------------------------------------------------
(* The call: a client id, a place in the queue, a signature, an answer.    *)

\* PreSignedPoolClientIdGenerator.next: the staged id, or the fallback's.
Mint(s) ==
    /\ call = "idle"
    /\ Len(results) < MaxCalls
    /\ side' = s
    /\ IF slots[s] # None
       THEN coi' = slots[s].coi /\ UNCHANGED counter
       ELSE coi' = -counter /\ counter' = counter + 1

\* execute(): the id is minted now, the order is placed by a task that starts later.
MintEntry(s) ==
    /\ Mint(s)
    /\ call' = "minted"
    /\ UNCHANGED <<venueVars, next_nonce, nonce_lock, poolVars, slot, results>>

\* A reduce-only rebalance mints and places in one go, and never takes from the pool.
PlaceReduceOnly(s) ==
    /\ Mint(s)
    /\ call' = "placed"
    /\ nonce_lock' = Append(nonce_lock, "order")
    /\ UNCHANGED <<venueVars, next_nonce, poolVars, slot, results>>

\* pop_for_fire, and the nonce lock asked for in the same breath: the slot is taken if
\* it carries the client id, both slots fall, and a refresh is spawned unless the last
\* one still runs.
PlaceEntry ==
    /\ call = "minted"
    /\ call' = "placed"
    /\ nonce_lock' = Append(nonce_lock, "order")
    /\ IF slots[side] # None /\ slots[side].coi = coi
       THEN /\ slot' = slots[side].nonce
            /\ slots' = Empty
            /\ pool_lock' = IF Queued(pool_lock, "post-fire") THEN pool_lock
                            ELSE Append(pool_lock, "post-fire")
       ELSE UNCHANGED <<slot, slots, pool_lock>>
    /\ UNCHANGED <<venueVars, next_nonce, coi_counter, counter, side, coi, results>>

EndCall(result) ==
    /\ results' = Append(results, result)
    /\ nonce_lock' = Tail(nonce_lock)
    /\ call' = "idle"
    /\ side' = None
    /\ slot' = None
    /\ UNCHANGED <<poolVars, counter, coi>>

\* The placed order's turn: it signs with `nonce`, its slot's or the client's.
Placed == call = "placed" /\ Holds(nonce_lock, "order")
Cold == slot = None
Nonce == IF Cold THEN next_nonce ELSE slot

\* A cold order needs the nonce and the client has none: REST knows.
FetchNonce ==
    /\ Placed /\ Nonce = None
    /\ next_nonce' = server_nonce
    /\ UNCHANGED <<venueVars, nonce_lock, poolVars, counter, callVars, results>>

\* The call ends before anything is sent: the fetch raises, the signer refuses, the
\* stream is closed.  The nonce is kept.
NothingSent ==
    /\ Placed
    /\ Cold \/ ws = "closed"
    /\ EndCall("none")
    /\ UNCHANGED <<venueVars, next_nonce>>

\* Means "unknown" and writes -1.
MutNoConnection ==
    /\ Placed /\ Nonce # None
    /\ ws = None
    /\ EndCall("none")
    /\ next_nonce' = -1
    /\ UNCHANGED venueVars

\* send_tx waits for a connection in vain.
NoConnection ==
    /\ Placed /\ Nonce # None
    /\ ws = None
    /\ EndCall("none")
    /\ next_nonce' = None
    /\ UNCHANGED venueVars

\* What is on the wire when the connection goes.
Unanswered == {[tx EXCEPT !.answer = FALSE] : tx \in wire}

Tx(answer) == [id |-> Id, nonce |-> Nonce, answer |-> answer]

Send ==
    /\ Placed /\ Nonce # None
    /\ ws = "open"
    /\ wire' = wire \cup {Tx(TRUE)}
    /\ call' = "sent"
    /\ UNCHANGED <<server_nonce, accepted, replies, ws, next_nonce, nonce_lock, poolVars,
                   counter, side, coi, slot, results>>

\* The connection dies under the send: ConnectionClosed is neither of the exceptions
\* place_market_order catches, so the nonce is kept although the order may be out.
SendRaises ==
    /\ Placed /\ Nonce # None
    /\ ws = "open"
    /\ ws' = "closed"
    /\ wire' = Unanswered \cup {Tx(FALSE)}
    /\ replies' = {}
    /\ EndCall("unknown")
    /\ UNCHANGED <<server_nonce, accepted, next_nonce>>

\* Any answer is taken for this call's.
MutReply(r) ==
    /\ r \in replies
    /\ replies' = replies \ {r}
    /\ IF call = "sent"
       THEN /\ EndCall(r.verdict)
            /\ next_nonce' = IF r.verdict = "ok" THEN Nonce + 1 ELSE None
       ELSE UNCHANGED <<next_nonce, nonce_lock, poolVars, counter, callVars, results>>
    /\ UNCHANGED <<server_nonce, accepted, wire, ws>>

\* Advances past a rejected order too.
MutReplyAdvances(r) ==
    /\ r \in replies
    /\ replies' = replies \ {r}
    /\ IF call = "sent" /\ r.id = Id
       THEN /\ EndCall(r.verdict)
            /\ next_nonce' = Nonce + 1
       ELSE UNCHANGED <<next_nonce, nonce_lock, poolVars, counter, callVars, results>>
    /\ UNCHANGED <<server_nonce, accepted, wire, ws>>

\* Keeps its nonce when an order is rejected.
MutReplyKeeps(r) ==
    /\ r \in replies
    /\ replies' = replies \ {r}
    /\ IF call = "sent" /\ r.id = Id
       THEN /\ EndCall(r.verdict)
            /\ next_nonce' = IF r.verdict = "ok" THEN Nonce + 1 ELSE next_nonce
       ELSE UNCHANGED <<next_nonce, nonce_lock, poolVars, counter, callVars, results>>
    /\ UNCHANGED <<server_nonce, accepted, wire, ws>>

\* An answer arrives.  Nobody waits for the answer to a call that timed out.
Reply(r) ==
    /\ r \in replies
    /\ replies' = replies \ {r}
    /\ IF call = "sent" /\ r.id = Id
       THEN /\ EndCall(r.verdict)
            /\ next_nonce' = IF r.verdict = "ok" THEN Nonce + 1 ELSE None
       ELSE UNCHANGED <<next_nonce, nonce_lock, poolVars, counter, callVars, results>>
    /\ UNCHANGED <<server_nonce, accepted, wire, ws>>

\* Waits for an answer without a timeout.
MutTimesOut == FALSE

\* No answer in time; the order may still be on its way.
TimesOut ==
    /\ call = "sent"
    /\ EndCall("unknown")
    /\ next_nonce' = None
    /\ UNCHANGED venueVars

-----------------------------------------------------------------------------
(* The pool.                                                               *)

\* The live price left the presigned one behind, or a slot is old or empty.
TriggerRefresh(task) ==
    /\ ~Queued(pool_lock, task)
    /\ coi_counter < MaxSigns /\ Len(pool_lock) < MaxQueue
    /\ task = "drift" => slots # Empty
    /\ pool_lock' = Append(pool_lock, task)
    /\ UNCHANGED <<venueVars, next_nonce, nonce_lock, slots, coi_counter, counter,
                   callVars, results>>

\* _refresh_both once it has the pool: the nonce is known and free, so it signs at once;
\* an error of the signer empties both slots.
SignBoth(nonce) ==
    /\ slots' \in {Signed(nonce), Empty}
    /\ coi_counter' = coi_counter + 2
    /\ pool_lock' = Tail(pool_lock)

RefreshAtOnce ==
    /\ pool_lock # <<>>
    /\ nonce_lock = <<>>
    /\ next_nonce # None
    /\ SignBoth(next_nonce)
    /\ UNCHANGED <<venueVars, next_nonce, nonce_lock, counter, callVars, results>>

\* It has to wait for the nonce, or to fetch it.
RefreshWaits ==
    /\ pool_lock # <<>>
    /\ ~Queued(nonce_lock, "refresh")
    /\ nonce_lock # <<>> \/ next_nonce = None
    /\ nonce_lock' = Append(nonce_lock, "refresh")
    /\ UNCHANGED <<venueVars, next_nonce, poolVars, counter, callVars, results>>

RefreshSigns ==
    /\ Holds(nonce_lock, "refresh")
    /\ nonce_lock' = Tail(nonce_lock)
    /\ next_nonce' = IF next_nonce = None THEN server_nonce ELSE next_nonce
    /\ SignBoth(next_nonce')
    /\ UNCHANGED <<venueVars, counter, callVars, results>>

\* No quote, or the fetch raises: the slots stay as they are.
RefreshSkips ==
    /\ pool_lock # <<>>
    /\ \/ /\ ~Queued(nonce_lock, "refresh")
          /\ UNCHANGED nonce_lock
       \/ /\ Holds(nonce_lock, "refresh")
          /\ next_nonce = None
          /\ nonce_lock' = Tail(nonce_lock)
    /\ pool_lock' = Tail(pool_lock)
    /\ UNCHANGED <<venueVars, next_nonce, slots, coi_counter, counter, callVars, results>>

-----------------------------------------------------------------------------
(* The venue and the connection.                                           *)

Answer(tx, verdict) ==
    /\ wire' = wire \ {tx}
    /\ replies' = IF tx.answer
                  THEN replies \cup {[id |-> tx.id, verdict |-> verdict]} ELSE replies
    /\ UNCHANGED <<ws, next_nonce, nonce_lock, poolVars, counter, callVars, results>>

VenueAccepts(tx) ==
    /\ tx.nonce = server_nonce
    /\ server_nonce' = server_nonce + 1
    /\ accepted' = Append(accepted, tx.id)
    /\ Answer(tx, "ok")

\* A wrong nonce, or a business error (margin, price), which may use up the nonce.
VenueRefuses(tx) ==
    /\ IF tx.nonce = server_nonce
       THEN /\ server_nonce' \in {server_nonce, server_nonce + 1}
            /\ Answer(tx, "refused")
       ELSE /\ UNCHANGED server_nonce
            /\ Answer(tx, "stale")
    /\ UNCHANGED accepted

\* What left by a connection that is gone may arrive late or never, and unanswered.
ConnectionDies ==
    /\ ws = "open"
    /\ ws' = "closed"
    /\ wire' = Unanswered
    /\ replies' = {}
    /\ UNCHANGED <<server_nonce, accepted, next_nonce, nonce_lock, poolVars, counter,
                   callVars, results>>

\* _run: after an error it forgets the socket and backs off, after a clean close it
\* reconnects with the old one still in place.
RunNotices ==
    /\ ws = "closed"
    /\ ws' = None
    /\ UNCHANGED <<server_nonce, accepted, wire, replies, next_nonce, nonce_lock,
                   poolVars, counter, callVars, results>>

RunConnects ==
    /\ ws # "open"
    /\ ws' = "open"
    /\ UNCHANGED <<server_nonce, accepted, wire, replies, next_nonce, nonce_lock,
                   poolVars, counter, callVars, results>>

Call ==
    \/ PlaceEntry \/ FetchNonce \/ NothingSent \/ NoConnection \/ Send \/ SendRaises
    \/ TimesOut

Refresh == RefreshAtOnce \/ RefreshWaits \/ RefreshSigns \/ RefreshSkips

Next ==
    \/ \E s \in Sides : MintEntry(s) \/ PlaceReduceOnly(s)
    \/ Call
    \/ \E r \in replies : Reply(r)
    \/ \E task \in {"drift", "time"} : TriggerRefresh(task)
    \/ Refresh
    \/ \E tx \in wire : VenueAccepts(tx) \/ VenueRefuses(tx)
    \/ ConnectionDies \/ RunNotices \/ RunConnects

Spec == Init /\ [][Next]_vars

\* The event loop runs what is ready, and every await of the two tasks has an end: the
\* REST call and the send have timeouts.  Nothing is asked of the venue.
Fairness == WF_vars(Call) /\ WF_vars(Refresh)

FairSpec == Spec /\ Fairness

-----------------------------------------------------------------------------
\* The client never signs with a nonce the venue has not reached, presigned or not:
\* such an order would wait at the venue, or be refused however often it is re-signed.
NonceNeverAhead ==
    /\ next_nonce # None => next_nonce <= server_nonce
    /\ \A s \in Sides : slots[s] # None => slots[s].nonce <= server_nonce
    /\ slot # None => slot <= server_nonce
    /\ \A tx \in wire : tx.nonce <= server_nonce

\* Orders are accepted in the order of their calls: one whose answer was lost cannot
\* come back after a later one went through ("the tx may or may not have reached the
\* server", place_market_order).
AcceptedInOrder ==
    \A i, j \in 1 .. Len(accepted) : i < j => accepted[i] < accepted[j]

WasAccepted(id) == \E i \in 1 .. Len(accepted) : accepted[i] = id

\* What a call reports stays true: a success was accepted, and an order reported as
\* rejected or not sent never is, also not later.
VerdictHolds ==
    \A id \in 1 .. Len(results) :
        /\ results[id] = "ok" => WasAccepted(id)
        /\ results[id] \in {"stale", "refused", "none"} => ~WasAccepted(id)

AnswersKnown == \A id \in 1 .. Len(results) : results[id] # "unknown"

\* As long as no answer was lost, an order signed cold carries the expected nonce: the
\* invalidation after every rejection is enough.
ColdIsFresh ==
    AnswersKnown =>
        \A tx \in wire : tx.id = Id /\ Cold => tx.nonce = server_nonce

\* ... and a presigned order with an outdated nonce costs one call, never two in a row.
StaleCostsOne ==
    AnswersKnown =>
        \A id \in 1 .. Len(results) - 1 :
            ~ (results[id] = "stale" /\ results[id + 1] = "stale")

\* Every call ends, whatever refreshes are queued and however the connection fails.
CallEnds == call # "idle" ~> call = "idle"

-----------------------------------------------------------------------------
(* What a comment promises beyond that.                                    *)

\* _rebalance_one_leg on the id it takes from the generator: "so the reconcile order is
\* guaranteed unique across the run".
ClientIdsUnique ==
    [][ call = "idle" /\ call' # "idle" => coi' # coi ]_vars

=============================================================================
