------------------------ MODULE LighterOrders_proofs ------------------------
(* Theorems about LighterOrders, for every bound.                          *)
EXTENDS LighterOrders, TLAPS

-----------------------------------------------------------------------------
(* Sequences and locks.                                                    *)

\* Appending keeps what was there and adds one element.
LEMMA Appended ==
    ASSUME NEW S, NEW s \in Seq(S), NEW e \in S
    PROVE  /\ Append(s, e) \in Seq(S)
           /\ Append(s, e) # <<>>
           /\ Len(Append(s, e)) = Len(s) + 1
           /\ \A i \in 1 .. Len(s) : Append(s, e)[i] = s[i]
           /\ Append(s, e)[Len(s) + 1] = e
           /\ Len(s) \in Nat
  OBVIOUS

\* What is left of a queue when its head goes.
LEMMA Tailed ==
    ASSUME NEW S, NEW s \in Seq(S), s # <<>>
    PROVE  /\ Tail(s) \in Seq(S)
           /\ Len(Tail(s)) = Len(s) - 1
           /\ \A i \in 1 .. Len(s) - 1 : Tail(s)[i] = s[i + 1]
           /\ Len(s) \in Nat \ {0}
           /\ Head(s) = s[1]
  OBVIOUS

\* A task is in a queue once.
Distinct(lock) == \A i, j \in 1 .. Len(lock) : i # j => lock[i] # lock[j]

\* A task that asks for a lock is queued behind those that did before.
LEMMA Asks ==
    ASSUME NEW S, NEW lock \in Seq(S), Distinct(lock), NEW task \in S,
           ~ Queued(lock, task)
    PROVE  /\ Distinct(Append(lock, task))
           /\ \A other : Queued(Append(lock, task), other) <=>
                            Queued(lock, other) \/ other = task
           /\ \A other : Holds(lock, other) => Holds(Append(lock, task), other)
           /\ Append(lock, task) \in Seq(S)
<1> DEFINE new == Append(lock, task)
<1>1. /\ new \in Seq(S) /\ new # <<>> /\ Len(new) = Len(lock) + 1 /\ Len(lock) \in Nat
      /\ \A i \in 1 .. Len(lock) : new[i] = lock[i]
      /\ new[Len(lock) + 1] = task
  BY Appended
<1>2. lock # <<>> => Len(lock) \in Nat \ {0} /\ Head(lock) = lock[1]
  BY Tailed
<1>3. Head(new) = new[1]
  BY <1>1, Tailed
<1> HIDE DEF new
<1>4. Distinct(new)
  BY <1>1 DEF Distinct, Queued
<1>5. ASSUME NEW other
      PROVE  Queued(new, other) <=> Queued(lock, other) \/ other = task
  BY <1>1 DEF Queued
<1>6. ASSUME NEW other, Holds(lock, other)
      PROVE  Holds(new, other)
  BY <1>1, <1>2, <1>3, <1>6 DEF Holds
<1> QED
  BY <1>1, <1>4, <1>5, <1>6 DEF new

\* The holder lets a lock go.
LEMMA Releases ==
    ASSUME NEW S, NEW lock \in Seq(S), Distinct(lock), NEW task, Holds(lock, task)
    PROVE  /\ Distinct(Tail(lock))
           /\ \A other : Queued(Tail(lock), other) <=> Queued(lock, other) /\ other # task
           /\ Tail(lock) \in Seq(S)
<1> DEFINE new == Tail(lock)
<1>1. /\ new \in Seq(S) /\ Len(new) = Len(lock) - 1 /\ Len(lock) \in Nat \ {0}
      /\ \A i \in 1 .. Len(lock) - 1 : new[i] = lock[i + 1]
      /\ lock[1] = task
  BY Tailed DEF Holds
<1> HIDE DEF new
<1>2. Distinct(new)
  BY <1>1 DEF Distinct
<1>3. ASSUME NEW other
      PROVE  Queued(new, other) <=> Queued(lock, other) /\ other # task
  <2>1. ASSUME Queued(new, other) PROVE Queued(lock, other) /\ other # task
    <3>1. PICK i \in 1 .. Len(new) : new[i] = other
      BY <2>1 DEF Queued
    <3>2. i + 1 \in 1 .. Len(lock) /\ lock[i + 1] = other /\ i + 1 # 1
      BY <1>1, <3>1
    <3> QED
      BY <1>1, <3>2 DEF Queued, Distinct
  <2>2. ASSUME Queued(lock, other), other # task PROVE Queued(new, other)
    <3>1. PICK i \in 1 .. Len(lock) : lock[i] = other
      BY <2>2 DEF Queued
    <3>2. i - 1 \in 1 .. Len(new) /\ new[i - 1] = other
      BY <1>1, <2>2, <3>1
    <3> QED
      BY <3>2 DEF Queued
  <2> QED
    BY <2>1, <2>2
<1> QED
  BY <1>1, <1>2, <1>3 DEF new

\* A lock somebody holds is asked for; one nobody asks for is free.
LEMMA HolderQueued ==
    ASSUME NEW S, NEW lock \in Seq(S)
    PROVE  /\ \A task : Holds(lock, task) => Queued(lock, task)
           /\ lock = <<>> => \A task : ~ Queued(lock, task)
  BY Tailed DEF Holds, Queued

-----------------------------------------------------------------------------
(* Types and locks.                                                        *)

\* The nonce lock is asked for by the call from its placing to its end, and by the
\* refresh that holds the pool; an order under way holds it.
LockInv ==
    /\ Distinct(nonce_lock)
    /\ Queued(nonce_lock, "order") <=> call \in {"placed", "sent"}
    /\ call = "sent" => Holds(nonce_lock, "order")
    /\ Queued(nonce_lock, "refresh") => pool_lock # <<>>

\* What the call knows by when.
CallInv ==
    /\ call # "idle" => side \in Sides /\ coi \in Int
    /\ call \in {"idle", "minted"} => slot = None
    /\ call = "sent" => Nonce # None

TypeInv == TypeOK /\ LockInv /\ CallInv

\* Both sides get a slot of the right type.
LEMMA SignedType ==
    ASSUME TypeOK, NEW nonce \in Nat
    PROVE  Signed(nonce) \in [Sides -> Slot \cup {None}]
  BY DEF TypeOK, Signed, Slot

\* Refreshing the pool keeps its types.
LEMMA SignBothType ==
    ASSUME TypeOK, pool_lock # <<>>, NEW nonce \in Nat, SignBoth(nonce)
    PROVE  /\ slots' \in [Sides -> Slot \cup {None}]
           /\ pool_lock' \in Seq(Tasks)
           /\ coi_counter' \in Nat
<1>1. Empty \in [Sides -> Slot \cup {None}]
  BY DEF Empty
<1>2. pool_lock \in Seq(Tasks)
  BY DEF TypeOK
<1>3. Tail(pool_lock) \in Seq(Tasks)
  BY <1>2, Tailed
<1> QED
  BY <1>1, <1>3, SignedType DEF SignBoth, TypeOK

\* What is sent has the type of an order, ...
LEMMA TxType ==
    ASSUME TypeOK, Nonce # None, NEW answer \in BOOLEAN
    PROVE  Tx(answer) \in Txs /\ Id \in Nat /\ Nonce \in Nat
<1>1. Id \in Nat
  BY DEF Id, TypeOK
<1>2. Nonce \in Nat
  BY DEF Nonce, Cold, TypeOK
<1> QED
  BY <1>1, <1>2 DEF Tx, Txs

\* ... also when its connection is gone.
LEMMA UnansweredType == ASSUME TypeOK PROVE Unanswered \subseteq Txs
<1>1. ASSUME NEW tx \in wire PROVE [tx EXCEPT !.answer = FALSE] \in Txs
  BY DEF TypeOK, Txs
<1> QED
  BY <1>1 DEF Unanswered

\* The end of a call keeps types and locks.
LEMMA EndCallType ==
    ASSUME TypeInv, Holds(nonce_lock, "order"), NEW result \in Results, EndCall(result)
    PROVE  /\ results' \in Seq(Results)
           /\ nonce_lock' \in Seq({"order", "refresh"})
           /\ call' = "idle" /\ side' = None /\ slot' = None
           /\ UNCHANGED <<slots, pool_lock, coi_counter, counter, coi>>
           /\ LockInv' /\ CallInv'
<1> USE DEF TypeInv, TypeOK
<1>1. results' \in Seq(Results)
  BY Appended DEF EndCall
<1>2. /\ Distinct(nonce_lock')
      /\ \A other : Queued(nonce_lock', other) <=> Queued(nonce_lock, other) /\ other # "order"
      /\ nonce_lock' \in Seq({"order", "refresh"})
  <2>1. nonce_lock \in Seq({"order", "refresh"}) /\ Distinct(nonce_lock)
    BY DEF LockInv
  <2> QED
    BY <2>1, Releases DEF EndCall
<1>3. LockInv' /\ CallInv'
  BY <1>2 DEF LockInv, CallInv, EndCall, poolVars
<1> QED
  BY <1>1, <1>2, <1>3 DEF EndCall, poolVars

\* The client starts well typed, with free locks.
LEMMA TypeInit == ASSUME Init PROVE TypeInv
<1> USE LighterAssumption DEF Init
<1>1. TypeOK
  BY DEF TypeOK, Sides, Slot, Empty, Txs, Replies
<1>2. LockInv /\ CallInv
  BY DEF LockInv, CallInv, Distinct, Queued
<1> QED
  BY <1>1, <1>2 DEF TypeInv

\* Types and locks through the call's own steps.
LEMMA CallType == ASSUME TypeInv, Call PROVE TypeInv'
<1> USE LighterAssumption DEF TypeInv, TypeOK
<1>0. /\ nonce_lock \in Seq({"order", "refresh"})
      /\ Distinct(nonce_lock)
  BY DEF LockInv
<1>1. CASE PlaceEntry
  <2>1. ~ Queued(nonce_lock, "order")
    BY <1>1 DEF PlaceEntry, LockInv
  <2>2. /\ Distinct(nonce_lock')
        /\ \A other : Queued(nonce_lock', other) <=>
                         Queued(nonce_lock, other) \/ other = "order"
        /\ nonce_lock' \in Seq({"order", "refresh"})
    BY <1>0, <1>1, <2>1, Asks DEF PlaceEntry
  <2>3. /\ slot' \in Nat \cup {None}
        /\ slots' \in [Sides -> Slot \cup {None}]
        /\ pool_lock' \in Seq(Tasks)
        /\ pool_lock # <<>> => pool_lock' # <<>>
    <3>1. CASE slots[side] # None /\ slots[side].coi = coi
      <4>1. side \in Sides
        BY <1>1 DEF PlaceEntry, CallInv
      <4>2. "post-fire" \in Tasks /\ pool_lock \in Seq(Tasks)
        BY DEF Tasks
      <4>3. Append(pool_lock, "post-fire") \in Seq(Tasks)
            /\ Append(pool_lock, "post-fire") # <<>>
        BY <4>2, Appended
      <4> QED
        BY <1>1, <3>1, <4>1, <4>2, <4>3 DEF PlaceEntry, Slot, Empty
    <3>2. CASE ~ (slots[side] # None /\ slots[side].coi = coi)
      BY <1>1, <3>2 DEF PlaceEntry
    <3> QED
      BY <3>1, <3>2
  <2>4. LockInv'
    BY <1>1, <2>2, <2>3 DEF LockInv, PlaceEntry
  <2>5. CallInv'
    BY <1>1 DEF CallInv, PlaceEntry
  <2> QED
    BY <1>1, <2>2, <2>3, <2>4, <2>5 DEF PlaceEntry, venueVars
<1>2. CASE FetchNonce
  BY <1>2 DEF FetchNonce, Placed, LockInv, CallInv, venueVars, poolVars, callVars
<1>3. CASE NothingSent
  BY <1>3, EndCallType DEF NothingSent, Placed, venueVars, Results
<1>4. CASE NoConnection
  BY <1>4, EndCallType DEF NoConnection, Placed, venueVars, Results, CallInv, Nonce, Cold
<1>5. CASE Send
  <2>1. wire' \subseteq Txs
    BY <1>5, TxType DEF Send
  <2>2. TypeOK'
    BY <1>5, <2>1 DEF Send, poolVars
  <2>3. LockInv' /\ CallInv'
    BY <1>5 DEF Send, Placed, LockInv, CallInv, poolVars, Nonce, Cold
  <2> QED
    BY <2>2, <2>3
<1>6. CASE SendRaises
  <2>1. wire' \subseteq Txs
    BY <1>6, TxType, UnansweredType DEF SendRaises
  <2> QED
    BY <1>6, <2>1, EndCallType DEF SendRaises, Placed, Results
<1>7. CASE TimesOut
  <2>1. Holds(nonce_lock, "order") /\ "unknown" \in Results
    BY <1>7 DEF TimesOut, LockInv, Results
  <2>2. EndCall("unknown")
    BY <1>7 DEF TimesOut
  <2> HIDE DEF TypeInv
  <2>3. /\ results' \in Seq(Results)
        /\ nonce_lock' \in Seq({"order", "refresh"})
        /\ call' = "idle" /\ side' = None /\ slot' = None
        /\ UNCHANGED <<slots, pool_lock, coi_counter, counter, coi>>
        /\ LockInv' /\ CallInv'
    BY <2>1, <2>2, EndCallType
  <2> QED
    BY <1>7, <2>3 DEF TypeInv, TimesOut, venueVars
<1> QED
  BY <1>1, <1>2, <1>3, <1>4, <1>5, <1>6, <1>7 DEF Call

\* An id of the pool or of the fallback: a number either way.
LEMMA MintType ==
    ASSUME TypeOK, NEW s \in Sides, Mint(s)
    PROVE  coi' \in Int /\ counter' \in Nat /\ side' = s
<1>1. CASE slots[s] # None
  BY <1>1 DEF Mint, TypeOK, Slot
<1>2. CASE slots[s] = None
  BY <1>2 DEF Mint, TypeOK
<1> QED
  BY <1>1, <1>2

\* Types and locks through the start of a call ...
LEMMA StartType ==
    ASSUME TypeInv, NEW s \in Sides, MintEntry(s) \/ PlaceReduceOnly(s)
    PROVE  TypeInv'
<1> USE DEF TypeInv
<1>1. call = "idle" /\ coi' \in Int /\ counter' \in Nat /\ side' = s
  BY MintType DEF MintEntry, PlaceReduceOnly, Mint
<1>2. CASE MintEntry(s)
  BY <1>1, <1>2
  DEF TypeOK, LockInv, CallInv, MintEntry, venueVars, poolVars
<1>3. CASE PlaceReduceOnly(s)
  <2>1. /\ nonce_lock \in Seq({"order", "refresh"})
        /\ Distinct(nonce_lock)
        /\ ~ Queued(nonce_lock, "order")
    BY <1>1 DEF TypeOK, LockInv
  <2>2. /\ Distinct(nonce_lock')
        /\ \A other : Queued(nonce_lock', other) <=>
                         Queued(nonce_lock, other) \/ other = "order"
        /\ nonce_lock' \in Seq({"order", "refresh"})
    BY <1>3, <2>1, Asks DEF PlaceReduceOnly
  <2>3. LockInv' /\ CallInv'
    BY <1>1, <1>3, <2>2 DEF LockInv, CallInv, PlaceReduceOnly, poolVars
  <2> QED
    BY <1>1, <1>3, <2>2, <2>3 DEF TypeOK, PlaceReduceOnly, venueVars, poolVars
<1> QED
  BY <1>2, <1>3

\* ... through an answer ...
LEMMA ReplyType == ASSUME TypeInv, NEW r \in replies, Reply(r) PROVE TypeInv'
<1> USE DEF TypeInv
<1>1. replies' \subseteq Replies /\ r.verdict \in Results
  BY DEF Reply, TypeOK, Replies, Results
<1>2. CASE call = "sent" /\ r.id = Id
  <2>1. Holds(nonce_lock, "order") /\ EndCall(r.verdict) /\ Nonce \in Nat
    BY <1>2 DEF Reply, LockInv, CallInv, TypeOK, Nonce, Cold
  <2>2. next_nonce' \in Nat \cup {None}
    BY <1>2, <2>1 DEF Reply
  <2>3. /\ results' \in Seq(Results)
        /\ nonce_lock' \in Seq({"order", "refresh"})
        /\ call' = "idle" /\ side' = None /\ slot' = None
        /\ UNCHANGED <<slots, pool_lock, coi_counter, counter, coi>>
        /\ LockInv' /\ CallInv'
    BY <1>1, <2>1, EndCallType
  <2> QED
    BY <1>1, <2>2, <2>3 DEF Reply, TypeOK
<1>3. CASE ~ (call = "sent" /\ r.id = Id)
  BY <1>1, <1>3 DEF Reply, TypeOK, LockInv, CallInv, poolVars, callVars, Nonce, Cold
<1> QED
  BY <1>2, <1>3

\* ... through a refresh ...
LEMMA RefreshType ==
    ASSUME TypeInv, Refresh \/ (\E task \in {"drift", "time"} : TriggerRefresh(task))
    PROVE  TypeInv'
<1> USE DEF TypeInv
<1>0. /\ nonce_lock \in Seq({"order", "refresh"}) /\ Distinct(nonce_lock)
      /\ pool_lock \in Seq(Tasks)
  BY DEF TypeOK, LockInv
<1>1. ASSUME NEW task \in {"drift", "time"}, TriggerRefresh(task)
      PROVE  TypeInv'
  <2>1. task \in Tasks
    BY DEF Tasks
  <2>2. pool_lock' \in Seq(Tasks) /\ pool_lock' # <<>>
    BY <1>0, <1>1, <2>1, Appended DEF TriggerRefresh
  <2> QED
    BY <1>1, <2>2
    DEF TriggerRefresh, TypeOK, LockInv, CallInv, venueVars, callVars, Nonce, Cold
<1>2. CASE RefreshAtOnce
  <2>1. next_nonce \in Nat /\ pool_lock # <<>> /\ SignBoth(next_nonce)
    BY <1>2 DEF RefreshAtOnce, TypeOK
  <2>2. /\ slots' \in [Sides -> Slot \cup {None}]
        /\ pool_lock' \in Seq(Tasks)
        /\ coi_counter' \in Nat
    BY <2>1, SignBothType
  <2>3. ~ Queued(nonce_lock, "refresh")
    BY <1>0, <1>2, HolderQueued DEF RefreshAtOnce
  <2> QED
    BY <1>2, <2>2, <2>3
    DEF RefreshAtOnce, TypeOK, LockInv, CallInv, venueVars, callVars, Nonce, Cold
<1>3. CASE RefreshWaits
  <2>1. /\ Distinct(nonce_lock')
        /\ \A other : Queued(nonce_lock', other) <=>
                         Queued(nonce_lock, other) \/ other = "refresh"
        /\ \A other : Holds(nonce_lock, other) => Holds(nonce_lock', other)
        /\ nonce_lock' \in Seq({"order", "refresh"})
    BY <1>0, <1>3, Asks DEF RefreshWaits
  <2> QED
    BY <1>3, <2>1
    DEF RefreshWaits, TypeOK, LockInv, CallInv, venueVars, poolVars, callVars, Nonce, Cold
<1>4. CASE /\ RefreshSigns \/ RefreshSkips
           /\ Holds(nonce_lock, "refresh") /\ nonce_lock' = Tail(nonce_lock)
  <2>1. /\ Distinct(nonce_lock')
        /\ \A other : Queued(nonce_lock', other) <=>
                         Queued(nonce_lock, other) /\ other # "refresh"
        /\ nonce_lock' \in Seq({"order", "refresh"})
    BY <1>0, <1>4, Releases
  <2>2. Queued(nonce_lock, "refresh") /\ pool_lock # <<>> /\ call # "sent"
    BY <1>0, <1>4, HolderQueued DEF LockInv, Holds
  <2>3. CASE RefreshSigns
    <3>1. next_nonce' \in Nat
      BY <2>3 DEF RefreshSigns, TypeOK
    <3>2. /\ slots' \in [Sides -> Slot \cup {None}]
          /\ pool_lock' \in Seq(Tasks)
          /\ coi_counter' \in Nat
      BY <2>2, <2>3, <3>1, SignBothType DEF RefreshSigns
    <3> QED
      BY <2>1, <2>2, <2>3, <3>1, <3>2
      DEF RefreshSigns, TypeOK, LockInv, CallInv, venueVars, callVars
  <2>4. CASE RefreshSkips
    <3>1. pool_lock' \in Seq(Tasks)
      BY <1>0, <2>2, <2>4, Tailed DEF RefreshSkips
    <3> QED
      BY <2>1, <2>2, <2>4, <3>1
      DEF RefreshSkips, TypeOK, LockInv, CallInv, venueVars, callVars
  <2> QED
    BY <1>4, <2>3, <2>4
<1>5. CASE RefreshSkips /\ ~ Queued(nonce_lock, "refresh") /\ UNCHANGED nonce_lock
  <2>1. pool_lock' \in Seq(Tasks)
    BY <1>0, <1>5, Tailed DEF RefreshSkips
  <2> QED
    BY <1>5, <2>1
    DEF RefreshSkips, TypeOK, LockInv, CallInv, venueVars, callVars, Nonce, Cold
<1> QED
  BY <1>1, <1>2, <1>3, <1>4, <1>5 DEF Refresh, RefreshSigns, RefreshSkips

\* ... and while the venue and the connection do what they do.
LEMMA VenueType ==
    ASSUME TypeInv,
           \/ \E tx \in wire : VenueAccepts(tx) \/ VenueRefuses(tx)
           \/ ConnectionDies \/ RunNotices \/ RunConnects
    PROVE  TypeInv'
<1> USE DEF TypeInv
<1>1. /\ server_nonce' \in Nat
      /\ accepted' \in Seq(Nat)
      /\ wire' \subseteq Txs
      /\ replies' \subseteq Replies
      /\ ws' \in {"open", "closed", None}
  <2>1. ASSUME NEW tx \in wire, NEW verdict \in {"ok", "stale", "refused"},
               Answer(tx, verdict)
        PROVE  wire' \subseteq Txs /\ replies' \subseteq Replies /\ ws' = ws
    <3>1. tx.id \in Nat
      BY DEF TypeOK, Txs
    <3> QED
      BY <2>1, <3>1 DEF Answer, TypeOK, Replies
  <2>2. ASSUME NEW tx \in wire, VenueAccepts(tx)
        PROVE  <1>1!1 /\ <1>1!2 /\ <1>1!3 /\ <1>1!4 /\ <1>1!5
    <3>1. tx.id \in Nat
      BY DEF TypeOK, Txs
    <3>2. accepted' \in Seq(Nat)
      BY <2>2, <3>1, Appended DEF VenueAccepts, TypeOK
    <3> QED
      BY <2>1, <2>2, <3>2 DEF VenueAccepts, TypeOK
  <2>3. ASSUME NEW tx \in wire, VenueRefuses(tx)
        PROVE  <1>1!1 /\ <1>1!2 /\ <1>1!3 /\ <1>1!4 /\ <1>1!5
    BY <2>1, <2>3 DEF VenueRefuses, TypeOK
  <2>4. CASE ConnectionDies \/ RunNotices \/ RunConnects
    BY <2>4, UnansweredType DEF ConnectionDies, RunNotices, RunConnects, TypeOK
  <2> QED
    BY <2>2, <2>3, <2>4
<1>2. UNCHANGED <<next_nonce, nonce_lock, poolVars, counter, callVars, results>>
  BY DEF VenueAccepts, VenueRefuses, Answer, ConnectionDies, RunNotices, RunConnects
<1> QED
  BY <1>1, <1>2 DEF TypeOK, LockInv, CallInv, poolVars, callVars, Nonce, Cold

\* Types and locks are invariant.
LEMMA TypeInvariant == Spec => []TypeInv
<1>1. TypeInv /\ [Next]_vars => TypeInv'
  <2> SUFFICES ASSUME TypeInv, [Next]_vars PROVE TypeInv'
    OBVIOUS
  <2>1. CASE UNCHANGED vars
    BY <2>1
    DEF TypeInv, TypeOK, LockInv, CallInv, vars, venueVars, poolVars, callVars, Nonce, Cold
  <2> QED
    BY <2>1, CallType, StartType, ReplyType, RefreshType, VenueType DEF Next
<1> QED
  BY <1>1, TypeInit, PTL DEF Spec

\* Every reachable state of the client has the types of the fields it stands for; the
\* locks have one holder each.
THEOREM TypeCorrect == Spec => []TypeOK
  BY TypeInvariant, PTL DEF TypeInv

-----------------------------------------------------------------------------
(* Orders: what may still happen to those on the wire.                     *)

\* The orders `w` that may still reach the venue are those of calls without a verdict,
\* one each, not accepted yet; one the venue would accept is younger than all it has.
Outstanding(w) ==
    /\ \A tx \in w :
          /\ tx.id \in 1 .. Id
          /\ tx.id < Id => results[tx.id] = "unknown"
          /\ ~ WasAccepted(tx.id)
          /\ tx.nonce = server_nonce => \A i \in 1 .. Len(accepted) : accepted[i] < tx.id
    /\ \A tx1, tx2 \in w : tx1.id = tx2.id => tx1 = tx2

\* The call under way has an order on the wire only after its send, under its nonce.
WireInv ==
    /\ Outstanding(wire)
    /\ \A tx \in wire : tx.id = Id => call = "sent" /\ tx.nonce = Nonce

\* Nothing is accepted before it is sent.
AcceptedInv ==
    \A i \in 1 .. Len(accepted) :
        accepted[i] <= Id /\ (accepted[i] = Id => call = "sent")

\* An answer on its way tells the truth about an order that is decided.
ReplyInv ==
    \A r \in replies :
        /\ r.id \in 1 .. Id
        /\ r.id = Id => call = "sent"
        /\ r.verdict = "ok" => WasAccepted(r.id)
        /\ r.verdict # "ok" => ~ WasAccepted(r.id) /\ \A tx \in wire : tx.id # r.id
        /\ r.verdict = "ok" /\ r.id = Id => Nonce < server_nonce

OrderInv == /\ WireInv /\ AcceptedInv /\ ReplyInv
            /\ NonceNeverAhead /\ AcceptedInOrder /\ VerdictHolds

\* The start: nothing sent, the nonces agree.
LEMMA OrderInit == ASSUME Init PROVE OrderInv
<1> USE LighterAssumption DEF Init
<1>1. WireInv /\ AcceptedInv /\ ReplyInv
  BY DEF WireInv, Outstanding, AcceptedInv, ReplyInv
<1>2. NonceNeverAhead
  BY DEF NonceNeverAhead, Empty, Sides
<1>3. AcceptedInOrder /\ VerdictHolds
  BY DEF AcceptedInOrder, VerdictHolds
<1> QED
  BY <1>1, <1>2, <1>3 DEF OrderInv

\* A step that leaves the venue, the verdicts and the order under way alone.
LEMMA Aside ==
    ASSUME OrderInv,
           UNCHANGED <<server_nonce, accepted, wire, replies, results>>,
           call' = "sent" <=> call = "sent",
           call = "sent" => Nonce' = Nonce
    PROVE  WireInv' /\ AcceptedInv' /\ ReplyInv' /\ AcceptedInOrder' /\ VerdictHolds'
<1>1. Id' = Id /\ \A id : WasAccepted(id)' <=> WasAccepted(id)
  BY DEF Id, WasAccepted
<1>2. WireInv'
  BY <1>1 DEF OrderInv, WireInv, Outstanding
<1>3. AcceptedInv' /\ ReplyInv'
  BY <1>1 DEF OrderInv, AcceptedInv, ReplyInv
<1>4. AcceptedInOrder' /\ VerdictHolds'
  BY <1>1 DEF OrderInv, AcceptedInOrder, VerdictHolds
<1> QED
  BY <1>2, <1>3, <1>4

\* The end of a call whose result fits what happened to its order.
LEMMA Ends ==
    ASSUME TypeInv, OrderInv, NEW result \in Results, EndCall(result),
           UNCHANGED <<server_nonce, accepted>>,
           result = "ok" => WasAccepted(Id),
           result \in {"stale", "refused", "none"} => ~ WasAccepted(Id),
           Outstanding(wire'),
           result # "unknown" => \A tx \in wire' : tx.id # Id,
           \A r \in replies' :
              r \in replies /\ (r.verdict # "ok" => \A tx \in wire' : tx.id # r.id)
    PROVE  WireInv' /\ AcceptedInv' /\ ReplyInv' /\ AcceptedInOrder' /\ VerdictHolds'
<1>1. /\ \A id : WasAccepted(id)' <=> WasAccepted(id)
      /\ call' = "idle"
  BY DEF WasAccepted, EndCall
<1>2. /\ Id \in Nat /\ Id' = Id + 1 /\ Id = Len(results) + 1 /\ Len(results') = Id
      /\ \A id \in 1 .. Len(results) : results'[id] = results[id]
      /\ results'[Id] = result
  BY Appended DEF Id, EndCall, TypeInv, TypeOK
<1>3. WireInv'
  <2>1. ASSUME NEW tx \in wire'
        PROVE  /\ tx.id \in 1 .. Id'
               /\ tx.id # Id'
               /\ tx.id < Id' => results'[tx.id] = "unknown"
               /\ ~ WasAccepted(tx.id)'
               /\ tx.nonce = server_nonce' =>
                     \A i \in 1 .. Len(accepted') : accepted'[i] < tx.id
    <3>1. tx.id \in 1 .. Id /\ (tx.id < Id => results[tx.id] = "unknown")
      BY DEF Outstanding
    <3>2. CASE tx.id = Id
      <4>1. result = "unknown"
        BY <3>2
      <4> QED
        BY <1>1, <1>2, <3>1, <3>2, <4>1 DEF Outstanding
    <3>3. CASE tx.id < Id
      BY <1>1, <1>2, <3>1, <3>3 DEF Outstanding
    <3> QED
      BY <1>2, <3>1, <3>2, <3>3
  <2> QED
    BY <2>1 DEF WireInv, Outstanding
<1>4. AcceptedInv'
  <2>1. \A i \in 1 .. Len(accepted) : accepted[i] \in Nat
    BY DEF TypeInv, TypeOK
  <2> QED
    BY <1>1, <1>2, <2>1 DEF AcceptedInv, OrderInv
<1>5. ReplyInv' /\ AcceptedInOrder'
  BY <1>1, <1>2 DEF OrderInv, ReplyInv, AcceptedInOrder
<1>6. VerdictHolds'
  <2>1. ASSUME NEW id \in 1 .. Len(results')
        PROVE  /\ results'[id] = "ok" => WasAccepted(id)'
               /\ results'[id] \in {"stale", "refused", "none"} => ~ WasAccepted(id)'
    <3>1. id = Id \/ id \in 1 .. Len(results)
      BY <1>2, <2>1, SMTT(20) DEF TypeInv, TypeOK
    <3> QED
      BY <1>1, <1>2, <3>1 DEF OrderInv, VerdictHolds
  <2> QED
    BY <2>1 DEF VerdictHolds
<1> QED
  BY <1>3, <1>4, <1>5, <1>6

\* When its connection goes an order keeps its id and its nonce.
LEMMA UnansweredKept ==
    ASSUME TypeOK, NEW tx \in Unanswered
    PROVE  \E old \in wire : tx = [old EXCEPT !.answer = FALSE] /\ tx.id = old.id
                             /\ tx.nonce = old.nonce
<1>1. PICK old \in wire : tx = [old EXCEPT !.answer = FALSE]
  BY DEF Unanswered
<1>2. old \in Txs
  BY DEF TypeOK
<1> QED
  BY <1>1, <1>2 DEF Txs

\* What may still be answered or accepted is no more than before.
LEMMA UnansweredOutstanding ==
    ASSUME TypeOK, Outstanding(wire)
    PROVE  Outstanding(Unanswered)
<1>1. \A tx \in Unanswered : \E old \in wire :
         tx = [old EXCEPT !.answer = FALSE] /\ tx.id = old.id /\ tx.nonce = old.nonce
  BY UnansweredKept
<1>2. ASSUME NEW tx \in Unanswered
      PROVE  /\ tx.id \in 1 .. Id
             /\ tx.id < Id => results[tx.id] = "unknown"
             /\ ~ WasAccepted(tx.id)
             /\ tx.nonce = server_nonce => \A i \in 1 .. Len(accepted) : accepted[i] < tx.id
  <2>1. PICK old \in wire : tx.id = old.id /\ tx.nonce = old.nonce
    BY <1>1
  <2>2. /\ old.id \in 1 .. Id
        /\ old.id < Id => results[old.id] = "unknown"
        /\ ~ WasAccepted(old.id)
        /\ old.nonce = server_nonce => \A i \in 1 .. Len(accepted) : accepted[i] < old.id
    BY DEF Outstanding
  <2> QED
    BY <2>1, <2>2
<1>3. ASSUME NEW tx1 \in Unanswered, NEW tx2 \in Unanswered, tx1.id = tx2.id
      PROVE  tx1 = tx2
  <2>1. PICK old1 \in wire : tx1 = [old1 EXCEPT !.answer = FALSE] /\ tx1.id = old1.id
    BY <1>1
  <2>2. PICK old2 \in wire : tx2 = [old2 EXCEPT !.answer = FALSE] /\ tx2.id = old2.id
    BY <1>1
  <2>3. old1 = old2
    BY <1>3, <2>1, <2>2 DEF Outstanding
  <2> QED
    BY <2>1, <2>2, <2>3
<1> QED
  BY <1>2, <1>3 DEF Outstanding

\* The order of the call under way joins the others.
LEMMA SendsOutstanding ==
    ASSUME TypeInv, OrderInv, call = "placed", Nonce # None, NEW answer \in BOOLEAN,
           NEW w, Outstanding(w), \A tx \in w : tx.id # Id
    PROVE  Outstanding(w \cup {Tx(answer)})
<1>1. Tx(answer).id = Id /\ Tx(answer).nonce = Nonce /\ Id \in Nat /\ Id \in 1 .. Id
  BY DEF Tx, Id, TypeInv, TypeOK
<1>2. \A i \in 1 .. Len(accepted) : accepted[i] \in Nat /\ accepted[i] < Id
  BY DEF OrderInv, AcceptedInv, TypeInv, TypeOK, Id
<1>3. ~ WasAccepted(Id)
  BY <1>1, <1>2 DEF WasAccepted
<1>4. ASSUME NEW tx \in w \cup {Tx(answer)}
      PROVE  /\ tx.id \in 1 .. Id
             /\ tx.id < Id => results[tx.id] = "unknown"
             /\ ~ WasAccepted(tx.id)
             /\ tx.nonce = server_nonce => \A i \in 1 .. Len(accepted) : accepted[i] < tx.id
  <2>1. CASE tx \in w
    BY <2>1 DEF Outstanding
  <2>2. CASE tx = Tx(answer)
    BY <1>1, <1>2, <1>3, <2>2
  <2> QED
    BY <2>1, <2>2
<1>5. ASSUME NEW tx1 \in w \cup {Tx(answer)}, NEW tx2 \in w \cup {Tx(answer)},
             tx1.id = tx2.id
      PROVE  tx1 = tx2
  BY <1>1, <1>5 DEF Outstanding
<1> QED
  BY <1>4, <1>5 DEF Outstanding

\* Starting a call, placing an order and refreshing the pool change what will be sent,
\* never what was.
LEMMA AsideStep ==
    ASSUME TypeInv, OrderInv,
           \/ \E s \in Sides : MintEntry(s) \/ PlaceReduceOnly(s)
           \/ PlaceEntry \/ FetchNonce
           \/ \E task \in {"drift", "time"} : TriggerRefresh(task)
           \/ Refresh
           \/ RunNotices \/ RunConnects
    PROVE  OrderInv'
<1>1. /\ UNCHANGED <<server_nonce, accepted, wire, replies, results>>
      /\ call' = "sent" <=> call = "sent"
  BY DEF MintEntry, PlaceReduceOnly, PlaceEntry, FetchNonce, TriggerRefresh, Refresh,
         RefreshAtOnce, RefreshWaits, RefreshSigns, RefreshSkips, RunNotices, RunConnects,
         Mint, Placed, venueVars, callVars
<1>2. call = "sent" => Nonce' = Nonce
  BY DEF MintEntry, PlaceReduceOnly, PlaceEntry, FetchNonce, TriggerRefresh, Refresh,
         RefreshAtOnce, RefreshWaits, RefreshSigns, RefreshSkips, RunNotices, RunConnects,
         Mint, Placed, callVars, Nonce, Cold, TypeInv, LockInv, Holds
<1>3. NonceNeverAhead'
  <2> USE DEF TypeInv, TypeOK
  <2>1. CASE UNCHANGED <<next_nonce, slots, slot>>
    BY <1>1, <2>1 DEF OrderInv, NonceNeverAhead
  <2>2. CASE PlaceEntry
    <3>1. side \in Sides
      BY <2>2 DEF PlaceEntry, CallInv
    <3>2. slot' # None => slot' <= server_nonce
      BY <2>2, <3>1 DEF PlaceEntry, OrderInv, NonceNeverAhead
    <3>3. \A s \in Sides : slots'[s] # None => slots'[s].nonce <= server_nonce
      BY <2>2 DEF PlaceEntry, OrderInv, NonceNeverAhead, Empty
    <3> QED
      BY <1>1, <2>2, <3>2, <3>3 DEF PlaceEntry, OrderInv, NonceNeverAhead
  <2>3. CASE FetchNonce
    BY <1>1, <2>3 DEF FetchNonce, OrderInv, NonceNeverAhead, poolVars, callVars
  <2>4. ASSUME NEW nonce \in Nat, nonce <= server_nonce, SignBoth(nonce),
               next_nonce' = nonce, UNCHANGED slot
        PROVE  NonceNeverAhead'
    <3>1. \A s \in Sides : slots'[s] # None => slots'[s].nonce <= server_nonce
      BY <2>4 DEF SignBoth, Signed, Empty
    <3> QED
      BY <1>1, <2>4, <3>1 DEF OrderInv, NonceNeverAhead
  <2>5. CASE RefreshAtOnce
    BY <2>4, <2>5 DEF RefreshAtOnce, OrderInv, NonceNeverAhead, callVars
  <2>6. CASE RefreshSigns
    BY <2>4, <2>6 DEF RefreshSigns, OrderInv, NonceNeverAhead, callVars
  <2> QED
    BY <2>1, <2>2, <2>3, <2>5, <2>6
    DEF MintEntry, PlaceReduceOnly, TriggerRefresh, Refresh, RefreshWaits, RefreshSkips,
        RunNotices, RunConnects, poolVars, callVars
<1>4. WireInv' /\ AcceptedInv' /\ ReplyInv' /\ AcceptedInOrder' /\ VerdictHolds'
  BY <1>1, <1>2, Aside
<1> QED
  BY <1>3, <1>4 DEF OrderInv

\* An order leaves.
LEMMA SendStep == ASSUME TypeInv, OrderInv, Send PROVE OrderInv'
<1>1. /\ call = "placed" /\ call' = "sent" /\ Nonce # None
      /\ wire' = wire \cup {Tx(TRUE)}
      /\ UNCHANGED <<server_nonce, accepted, replies, results, next_nonce, slots, slot>>
  BY DEF Send, Placed, poolVars
<1>2. /\ Tx(TRUE).id = Id /\ Tx(TRUE).nonce = Nonce
      /\ Id \in Nat /\ Nonce \in Nat /\ Id' = Id /\ Nonce' = Nonce
      /\ \A id : WasAccepted(id)' <=> WasAccepted(id)
  BY <1>1, TxType DEF Tx, TypeInv, Id, Nonce, Cold, WasAccepted
<1>3. \A tx \in wire : tx.id # Id
  BY <1>1 DEF OrderInv, WireInv
<1>4. Outstanding(wire \cup {Tx(TRUE)})
  BY <1>1, <1>3, SendsOutstanding DEF OrderInv, WireInv
<1>5. WireInv'
  <2>1. Outstanding(wire)'
    BY <1>1, <1>2, <1>4 DEF Outstanding
  <2>2. \A tx \in wire' : tx.id = Id' => call' = "sent" /\ tx.nonce = Nonce'
    BY <1>1, <1>2, <1>3
  <2> QED
    BY <2>1, <2>2 DEF WireInv
<1>6. AcceptedInv'
  BY <1>1, <1>2 DEF OrderInv, AcceptedInv
<1>7. \A r \in replies : r.id # Id
  BY <1>1 DEF OrderInv, ReplyInv
<1>8. ReplyInv'
  BY <1>1, <1>2, <1>7 DEF OrderInv, ReplyInv
<1>9. NonceNeverAhead'
  <2>1. Nonce <= server_nonce
    BY <1>1 DEF OrderInv, NonceNeverAhead, Nonce, Cold
  <2> QED
    BY <1>1, <1>2, <2>1 DEF OrderInv, NonceNeverAhead
<1>10. AcceptedInOrder' /\ VerdictHolds'
  BY <1>1, <1>2 DEF OrderInv, AcceptedInOrder, VerdictHolds
<1> QED
  BY <1>5, <1>6, <1>8, <1>9, <1>10 DEF OrderInv

\* No order of a placed call is on the wire, and none is accepted.
LEMMA PlacedUnsent ==
    ASSUME TypeInv, OrderInv, call = "placed"
    PROVE  ~ WasAccepted(Id) /\ \A tx \in wire : tx.id # Id
  BY DEF OrderInv, AcceptedInv, WireInv, WasAccepted

\* A call ends without an answer.
LEMMA EndsUnanswered ==
    ASSUME TypeInv, OrderInv, NothingSent \/ NoConnection \/ SendRaises \/ TimesOut
    PROVE  OrderInv'
<1> USE DEF TypeInv
<1>1. UNCHANGED <<server_nonce, accepted, slots>> /\ slot' = None
  BY DEF NothingSent, NoConnection, SendRaises, TimesOut, EndCall, venueVars, poolVars
<1>2. NonceNeverAhead'
  <2>1. next_nonce' \in {next_nonce, None}
    BY DEF NothingSent, NoConnection, SendRaises, TimesOut
  <2>2. \A tx \in wire' : tx.nonce <= server_nonce
    <3>1. CASE wire' = wire
      BY <3>1 DEF OrderInv, NonceNeverAhead
    <3>2. CASE SendRaises
      <4>1. \A tx \in Unanswered : tx.nonce <= server_nonce
        BY UnansweredKept DEF OrderInv, NonceNeverAhead
      <4>2. Tx(FALSE).nonce <= server_nonce
        BY <3>2 DEF SendRaises, Tx, OrderInv, NonceNeverAhead, Nonce, Cold
      <4> QED
        BY <3>2, <4>1, <4>2 DEF SendRaises
    <3> QED
      BY <3>1, <3>2 DEF NothingSent, NoConnection, TimesOut, venueVars
  <2> QED
    BY <1>1, <2>1, <2>2 DEF OrderInv, NonceNeverAhead
<1>3. WireInv' /\ AcceptedInv' /\ ReplyInv' /\ AcceptedInOrder' /\ VerdictHolds'
  <2>1. CASE NothingSent \/ NoConnection
    <3>1. EndCall("none") /\ "none" \in Results /\ call = "placed"
      BY <2>1 DEF NothingSent, NoConnection, Placed, Results
    <3>2. wire' = wire /\ replies' = replies
      BY <2>1 DEF NothingSent, NoConnection, venueVars
    <3>3. \A r \in replies : r.verdict # "ok" => \A tx \in wire : tx.id # r.id
      BY DEF OrderInv, ReplyInv
    <3> QED
      BY <1>1, <3>1, <3>2, <3>3, PlacedUnsent, Ends DEF OrderInv, WireInv
  <2>2. CASE SendRaises
    <3>1. EndCall("unknown") /\ "unknown" \in Results /\ call = "placed" /\ Nonce # None
      BY <2>2 DEF SendRaises, Placed, Results
    <3>2. replies' = {} /\ wire' = Unanswered \cup {Tx(FALSE)}
      BY <2>2 DEF SendRaises
    <3>3. \A tx \in Unanswered : tx.id # Id
      BY <3>1, PlacedUnsent, UnansweredKept
    <3>4. Outstanding(Unanswered \cup {Tx(FALSE)})
      BY <3>1, <3>3, UnansweredOutstanding, SendsOutstanding DEF OrderInv, WireInv
    <3>5. Outstanding(wire')
      BY <3>2, <3>4
    <3> QED
      BY <1>1, <3>1, <3>2, <3>5, Ends
  <2>3. CASE TimesOut
    <3>1. EndCall("unknown") /\ "unknown" \in Results /\ wire' = wire /\ replies' = replies
      BY <2>3 DEF TimesOut, Results, venueVars
    <3>2. \A r \in replies : r.verdict # "ok" => \A tx \in wire : tx.id # r.id
      BY DEF OrderInv, ReplyInv
    <3> QED
      BY <1>1, <3>1, <3>2, Ends DEF OrderInv, WireInv
  <2> QED
    BY <2>1, <2>2, <2>3
<1> QED
  BY <1>2, <1>3 DEF OrderInv

\* An answer arrives.
LEMMA ReplyStep == ASSUME TypeInv, OrderInv, NEW r \in replies, Reply(r) PROVE OrderInv'
<1>1. UNCHANGED <<server_nonce, accepted, wire>> /\ replies' \subseteq replies
  BY DEF Reply
<1>2. /\ r.verdict = "ok" => WasAccepted(r.id)
      /\ r.verdict # "ok" => ~ WasAccepted(r.id) /\ \A tx \in wire : tx.id # r.id
      /\ r.verdict = "ok" /\ r.id = Id => Nonce < server_nonce
      /\ r.verdict \in {"ok", "stale", "refused"}
  BY DEF OrderInv, ReplyInv, TypeInv, TypeOK, Replies
<1>3. CASE call = "sent" /\ r.id = Id
  <2>1. EndCall(r.verdict) /\ r.verdict \in Results /\ slot' = None /\ UNCHANGED slots
    BY <1>2, <1>3 DEF Reply, EndCall, Results, poolVars
  <2>2. \A tx \in wire : tx.id # Id
    <3>1. \A tx \in wire : ~ WasAccepted(tx.id)
      BY DEF OrderInv, WireInv, Outstanding
    <3> QED
      BY <1>2, <1>3, <3>1
  <2>3. \A other \in replies : other.verdict # "ok" => \A tx \in wire : tx.id # other.id
    BY DEF OrderInv, ReplyInv
  <2>4. WireInv' /\ AcceptedInv' /\ ReplyInv' /\ AcceptedInOrder' /\ VerdictHolds'
    BY <1>1, <1>2, <1>3, <2>1, <2>2, <2>3, Ends DEF OrderInv, WireInv
  <2>5. NonceNeverAhead'
    <3>1. Nonce \in Nat /\ server_nonce \in Nat
      BY <1>3 DEF TypeInv, TypeOK, CallInv, Nonce, Cold
    <3>2. next_nonce' # None => next_nonce' <= server_nonce
      BY <1>2, <1>3, <3>1 DEF Reply
    <3> QED
      BY <1>1, <2>1, <3>2 DEF OrderInv, NonceNeverAhead
  <2> QED
    BY <2>4, <2>5 DEF OrderInv
<1>4. CASE ~ (call = "sent" /\ r.id = Id)
  <2>1. UNCHANGED <<next_nonce, slots, slot, call, results>>
    BY <1>4 DEF Reply, poolVars, callVars
  <2>2. Id' = Id /\ Nonce' = Nonce /\ \A id : WasAccepted(id)' <=> WasAccepted(id)
    BY <1>1, <2>1 DEF Id, Nonce, Cold, WasAccepted
  <2>3. WireInv' /\ AcceptedInv' /\ AcceptedInOrder' /\ VerdictHolds' /\ NonceNeverAhead'
    BY <1>1, <2>1, <2>2
    DEF OrderInv, WireInv, Outstanding, AcceptedInv, AcceptedInOrder, VerdictHolds,
        NonceNeverAhead
  <2>4. ReplyInv'
    BY <1>1, <2>1, <2>2 DEF OrderInv, ReplyInv
  <2> QED
    BY <2>3, <2>4 DEF OrderInv
<1> QED
  BY <1>3, <1>4

\* The venue decides an order.
LEMMA VenueStep ==
    ASSUME TypeInv, OrderInv, NEW tx \in wire, VenueAccepts(tx) \/ VenueRefuses(tx)
    PROVE  OrderInv'
<1> USE DEF TypeInv
<1>1. /\ UNCHANGED <<next_nonce, slots, slot, call, results>>
      /\ wire' = wire \ {tx}
      /\ Id' = Id /\ Nonce' = Nonce
  BY DEF VenueAccepts, VenueRefuses, Answer, poolVars, callVars, Id, Nonce, Cold
<1>2. /\ tx \in Txs /\ tx.id \in 1 .. Id /\ tx.nonce \in Nat /\ server_nonce \in Nat
      /\ \A other \in wire : other.nonce <= server_nonce /\ other.nonce \in Nat
      /\ \A other \in wire : other.id = tx.id => other = tx
      /\ ~ WasAccepted(tx.id)
  BY DEF OrderInv, WireInv, Outstanding, NonceNeverAhead, TypeOK, Txs
<1>3. server_nonce' \in {server_nonce, server_nonce + 1}
  BY DEF VenueAccepts, VenueRefuses
<1>4. NonceNeverAhead'
  BY <1>1, <1>2, <1>3 DEF OrderInv, NonceNeverAhead, TypeOK, Slot
<1>5. CASE VenueAccepts(tx)
  <2>1. /\ tx.nonce = server_nonce /\ server_nonce' = server_nonce + 1
        /\ accepted' = Append(accepted, tx.id)
        /\ accepted \in Seq(Nat) /\ tx.id \in Nat
    BY <1>2, <1>5 DEF VenueAccepts, TypeOK, Txs
  <2>2. /\ Len(accepted) \in Nat /\ Len(accepted') = Len(accepted) + 1
        /\ \A i \in 1 .. Len(accepted) : accepted'[i] = accepted[i]
        /\ accepted'[Len(accepted) + 1] = tx.id
    BY <2>1, Appended
  <2>3. \A id : WasAccepted(id)' <=> WasAccepted(id) \/ id = tx.id
    BY <2>2 DEF WasAccepted
  <2>4. \A other \in wire' : other.nonce < server_nonce' /\ other.id # tx.id
    BY <1>1, <1>2, <2>1
  <2>5. WireInv'
    BY <1>1, <2>3, <2>4, <1>2, <2>1 DEF OrderInv, WireInv, Outstanding
  <2>6. tx.id = Id => call = "sent"
    BY DEF OrderInv, WireInv
  <2>7. AcceptedInv'
    <3>1. ASSUME NEW i \in 1 .. Len(accepted')
          PROVE  accepted'[i] <= Id /\ (accepted'[i] = Id => call = "sent")
      <4>1. i \in 1 .. Len(accepted) \/ i = Len(accepted) + 1
        BY <2>2
      <4> QED
        BY <1>2, <2>2, <2>6, <4>1 DEF OrderInv, AcceptedInv
    <3> QED
      BY <1>1, <3>1 DEF AcceptedInv
  <2>8. ReplyInv'
    <3>1. replies' \subseteq replies \cup {[id |-> tx.id, verdict |-> "ok"]}
      BY <1>5 DEF VenueAccepts, Answer
    <3>2. tx.id = Id => Nonce = server_nonce
      BY <2>1 DEF OrderInv, WireInv
    <3>3. ASSUME NEW r \in replies
          PROVE  /\ r.id \in 1 .. Id
                 /\ r.id = Id => call = "sent"
                 /\ r.verdict = "ok" => WasAccepted(r.id)'
                 /\ r.verdict # "ok" =>
                       ~ WasAccepted(r.id)' /\ \A other \in wire' : other.id # r.id
                 /\ r.verdict = "ok" /\ r.id = Id => Nonce < server_nonce'
      <4>1. r.verdict # "ok" => tx.id # r.id
        BY DEF OrderInv, ReplyInv
      <4>2. r.verdict = "ok" /\ r.id = Id => Nonce \in Nat
        BY DEF OrderInv, ReplyInv, CallInv, TypeOK, Nonce, Cold
      <4> QED
        BY <1>1, <1>2, <2>1, <2>3, <4>1, <4>2 DEF OrderInv, ReplyInv
    <3>4. ASSUME NEW r, r = [id |-> tx.id, verdict |-> "ok"]
          PROVE  /\ r.id \in 1 .. Id
                 /\ r.id = Id => call = "sent"
                 /\ r.verdict = "ok" /\ WasAccepted(r.id)'
                 /\ r.id = Id => Nonce < server_nonce'
      BY <1>2, <2>1, <2>3, <2>6, <3>2, <3>4
    <3> QED
      BY <1>1, <3>1, <3>3, <3>4 DEF ReplyInv
  <2>9. AcceptedInOrder'
    <3>1. \A i \in 1 .. Len(accepted) : accepted[i] < tx.id
      BY <2>1 DEF OrderInv, WireInv, Outstanding
    <3>2. ASSUME NEW i \in 1 .. Len(accepted'), NEW j \in 1 .. Len(accepted'), i < j
          PROVE  accepted'[i] < accepted'[j]
      <4>1. i \in 1 .. Len(accepted)
        BY <2>2, <3>2
      <4>2. j \in 1 .. Len(accepted) \/ j = Len(accepted) + 1
        BY <2>2
      <4> QED
        BY <2>2, <3>1, <3>2, <4>1, <4>2 DEF OrderInv, AcceptedInOrder
    <3> QED
      BY <3>2 DEF AcceptedInOrder
  <2>10. VerdictHolds'
    <3>1. \A id \in 1 .. Len(results) : id = tx.id => results[id] = "unknown"
      BY <1>2 DEF OrderInv, WireInv, Outstanding, Id, TypeOK
    <3> QED
      BY <1>1, <2>3, <3>1 DEF OrderInv, VerdictHolds
  <2> QED
    BY <1>4, <2>5, <2>7, <2>8, <2>9, <2>10 DEF OrderInv
<1>6. CASE VenueRefuses(tx)
  <2>1. UNCHANGED accepted /\ \A id : WasAccepted(id)' <=> WasAccepted(id)
    BY <1>6 DEF VenueRefuses, WasAccepted
  <2>2. \A other \in wire : other.nonce = server_nonce' => other.nonce = server_nonce
    BY <1>2, <1>3
  <2>3. WireInv'
    BY <1>1, <2>1, <2>2 DEF OrderInv, WireInv, Outstanding
  <2>4. AcceptedInv' /\ AcceptedInOrder' /\ VerdictHolds'
    BY <1>1, <2>1 DEF OrderInv, AcceptedInv, AcceptedInOrder, VerdictHolds
  <2>5. ReplyInv'
    <3>1. PICK verdict \in {"stale", "refused"} :
             replies' \subseteq replies \cup {[id |-> tx.id, verdict |-> verdict]}
      BY <1>6 DEF VenueRefuses, Answer
    <3>2. tx.id = Id => call = "sent"
      BY DEF OrderInv, WireInv
    <3>3. \A other \in wire' : other.id # tx.id
      BY <1>1, <1>2
    <3>4. ASSUME NEW r \in replies
          PROVE  r.verdict = "ok" /\ r.id = Id => Nonce < server_nonce'
      <4>1. r.verdict = "ok" /\ r.id = Id => Nonce \in Nat /\ Nonce < server_nonce
        BY DEF OrderInv, ReplyInv, CallInv, TypeOK, Nonce, Cold
      <4> QED
        BY <1>2, <1>3, <4>1
    <3>5. ASSUME NEW r \in replies'
          PROVE  /\ r.id \in 1 .. Id
                 /\ r.id = Id => call = "sent"
                 /\ r.verdict = "ok" => WasAccepted(r.id)
                 /\ r.verdict # "ok" =>
                       ~ WasAccepted(r.id) /\ \A other \in wire' : other.id # r.id
                 /\ r.verdict = "ok" /\ r.id = Id => Nonce < server_nonce'
      <4>1. CASE r \in replies
        BY <1>1, <3>4, <4>1 DEF OrderInv, ReplyInv
      <4>2. CASE r = [id |-> tx.id, verdict |-> verdict]
        BY <1>2, <3>2, <3>3, <4>2
      <4> QED
        BY <3>1, <4>1, <4>2
    <3> QED
      BY <1>1, <2>1, <3>5 DEF ReplyInv
  <2> QED
    BY <1>4, <2>3, <2>4, <2>5 DEF OrderInv
<1> QED
  BY <1>5, <1>6

\* The connection goes, and with it every answer.
LEMMA ConnectionStep == ASSUME TypeInv, OrderInv, ConnectionDies PROVE OrderInv'
<1>1. /\ UNCHANGED <<server_nonce, accepted, next_nonce, slots, slot, call, results>>
      /\ wire' = Unanswered /\ replies' = {}
      /\ Id' = Id /\ Nonce' = Nonce
      /\ \A id : WasAccepted(id)' <=> WasAccepted(id)
  BY DEF ConnectionDies, poolVars, callVars, Id, Nonce, Cold, WasAccepted
<1>2. \A tx \in Unanswered :
         \E old \in wire : tx.id = old.id /\ tx.nonce = old.nonce
  BY UnansweredKept DEF TypeInv
<1>3. Outstanding(Unanswered)
  BY UnansweredOutstanding DEF TypeInv, OrderInv, WireInv
<1>4. WireInv'
  <2>1. Outstanding(wire)'
    BY <1>1, <1>3 DEF Outstanding
  <2>2. \A tx \in Unanswered : tx.id = Id => call = "sent" /\ tx.nonce = Nonce
    BY <1>2 DEF OrderInv, WireInv
  <2> QED
    BY <1>1, <2>1, <2>2 DEF WireInv
<1>5. NonceNeverAhead'
  BY <1>1, <1>2 DEF OrderInv, NonceNeverAhead
<1>6. AcceptedInv' /\ ReplyInv' /\ AcceptedInOrder' /\ VerdictHolds'
  BY <1>1 DEF OrderInv, AcceptedInv, ReplyInv, AcceptedInOrder, VerdictHolds
<1> QED
  BY <1>4, <1>5, <1>6 DEF OrderInv

\* All of it is invariant.
LEMMA OrderInvariant == Spec => []OrderInv
<1>1. TypeInv /\ OrderInv /\ [Next]_vars => OrderInv'
  <2> SUFFICES ASSUME TypeInv, OrderInv, [Next]_vars PROVE OrderInv'
    OBVIOUS
  <2>1. CASE UNCHANGED vars
    <3>1. /\ UNCHANGED <<server_nonce, accepted, wire, replies, results>>
          /\ UNCHANGED <<call, next_nonce, slots, slot>>
          /\ Nonce' = Nonce
      BY <2>1 DEF vars, venueVars, poolVars, callVars, Nonce, Cold
    <3>2. NonceNeverAhead'
      BY <3>1 DEF OrderInv, NonceNeverAhead
    <3> QED
      BY <3>1, <3>2, Aside DEF OrderInv
  <2> QED
    BY <2>1, AsideStep, SendStep, EndsUnanswered, ReplyStep, VenueStep, ConnectionStep
    DEF Next, Call
<1> QED
  BY <1>1, OrderInit, TypeInvariant, PTL DEF Spec

\* No nonce the client holds, staged or sent, is ahead of the venue's.
THEOREM NonceIsNeverAhead == Spec => []NonceNeverAhead
  BY OrderInvariant, PTL DEF OrderInv

\* Orders are accepted in the order of their calls, whatever was lost, late or refused.
THEOREM OrdersKeepTheirOrder == Spec => []AcceptedInOrder
  BY OrderInvariant, PTL DEF OrderInv

\* A success was accepted, a rejection never is.
THEOREM VerdictsHold == Spec => []VerdictHolds
  BY OrderInvariant, PTL DEF OrderInv

-----------------------------------------------------------------------------
(* Nonces while every answer is known.                                     *)

\* The order of the call under way is sent and not decided yet.
Undecided == \E tx \in wire : tx.id = Id

SlotsCurrent == \A s \in Sides : slots[s] # None => slots[s].nonce = server_nonce

\* The client's nonce is the expected one unless the order under way has used it up; the
\* slots left by an order that may turn out to be stale carry it too.
NonceInv == AnswersKnown =>
    /\ next_nonce # None /\ (call # "sent" \/ Undecided) => next_nonce = server_nonce
    /\ slot # None /\ (call = "placed" \/ Undecided) => SlotsCurrent
    /\ \A r \in replies : r.id = Id /\ r.verdict = "ok" => server_nonce = Nonce + 1
    /\ \A r \in replies : r.id = Id /\ r.verdict = "stale" => slot # None /\ SlotsCurrent

LastStale == results # <<>> /\ results[Len(results)] = "stale"

\* After a stale order nothing is left that another one could be signed with.
LastInv == AnswersKnown /\ LastStale =>
    /\ call # "sent" => SlotsCurrent /\ (slot # None => slot = server_nonce)
    /\ \A tx \in wire : tx.id = Id => tx.nonce = server_nonce
    /\ \A r \in replies : r.id = Id => r.verdict # "stale"

FreshInv == NonceInv /\ LastInv /\ StaleCostsOne

\* While every answer is known only the call under way has an order out.
LEMMA OnlyOne ==
    ASSUME TypeInv, OrderInv, AnswersKnown
    PROVE  /\ \A tx \in wire : tx.id = Id /\ tx.nonce = Nonce /\ call = "sent"
           /\ \A tx1, tx2 \in wire : tx1 = tx2
           /\ \A r \in replies : r.id \in 1 .. Id /\ (r.id = Id => call = "sent")
           /\ Id \in Nat
<1>1. Id \in Nat /\ Id = Len(results) + 1
  BY DEF Id, TypeInv, TypeOK
<1>2. \A tx \in wire : tx.id = Id
  <2> SUFFICES ASSUME NEW tx \in wire, tx.id # Id PROVE FALSE
    OBVIOUS
  <2>1. tx.id \in 1 .. Id /\ results[tx.id] = "unknown"
    BY <1>1 DEF OrderInv, WireInv, Outstanding
  <2> QED BY <1>1, <2>1 DEF AnswersKnown
<1> QED BY <1>1, <1>2 DEF OrderInv, WireInv, Outstanding, ReplyInv

LEMMA FreshInit == ASSUME Init PROVE FreshInv
<1> USE LighterAssumption DEF Init
<1>1. NonceInv /\ LastInv
  BY DEF NonceInv, LastInv, LastStale, Undecided
<1>2. StaleCostsOne
  BY DEF StaleCostsOne
<1> QED BY <1>1, <1>2 DEF FreshInv

\* Starting a call, placing an order and refreshing the pool: between orders the nonce
\* they use is the expected one.
LEMMA FreshAside ==
    ASSUME TypeInv, OrderInv, FreshInv,
           \/ \E s \in Sides : MintEntry(s) \/ PlaceReduceOnly(s)
           \/ PlaceEntry \/ FetchNonce
           \/ \E task \in {"drift", "time"} : TriggerRefresh(task)
           \/ Refresh
           \/ RunNotices \/ RunConnects
    PROVE  FreshInv'
<1>1. /\ UNCHANGED <<server_nonce, wire, replies, results>>
      /\ call' = "sent" <=> call = "sent"
  BY DEF MintEntry, PlaceReduceOnly, PlaceEntry, FetchNonce, TriggerRefresh, Refresh,
         RefreshAtOnce, RefreshWaits, RefreshSigns, RefreshSkips, RunNotices, RunConnects,
         Mint, Placed, venueVars, callVars
<1>2. /\ Id' = Id /\ (AnswersKnown' <=> AnswersKnown) /\ (LastStale' <=> LastStale)
      /\ Undecided' <=> Undecided
  BY <1>1 DEF Id, AnswersKnown, LastStale, Undecided
<1>3. StaleCostsOne'
  BY <1>1 DEF FreshInv, StaleCostsOne, AnswersKnown
<1>4. CASE call = "sent"
  <2>1. UNCHANGED <<next_nonce, slots, slot>>
    BY <1>4 DEF MintEntry, PlaceReduceOnly, PlaceEntry, FetchNonce, TriggerRefresh, Refresh,
         RefreshAtOnce, RefreshWaits, RefreshSigns, RefreshSkips, RunNotices, RunConnects,
         Mint, Placed, TypeInv, LockInv, Holds, poolVars, callVars
  <2>2. Nonce' = Nonce /\ (SlotsCurrent' <=> SlotsCurrent)
    BY <1>1, <2>1 DEF Nonce, Cold, SlotsCurrent
  <2>3. NonceInv' /\ LastInv'
    BY <1>1, <1>2, <1>4, <2>1, <2>2 DEF FreshInv, NonceInv, LastInv
  <2> QED BY <1>3, <2>3 DEF FreshInv
<1>5. CASE call # "sent"
  <2> SUFFICES ASSUME AnswersKnown
               PROVE  /\ next_nonce' # None => next_nonce' = server_nonce
                      /\ slot' # None /\ call' = "placed" => SlotsCurrent'
                      /\ LastStale => SlotsCurrent' /\ (slot' # None => slot' = server_nonce)
    <3>1. AnswersKnown => ~Undecided /\ \A r \in replies : r.id # Id
      BY <1>5, OnlyOne DEF Undecided
    <3>2. AnswersKnown => \A tx \in wire : tx.id # Id
      BY <3>1 DEF Undecided
    <3>3. ASSUME AnswersKnown =>
                   /\ next_nonce' # None => next_nonce' = server_nonce
                   /\ slot' # None /\ call' = "placed" => SlotsCurrent'
                   /\ LastStale => SlotsCurrent' /\ (slot' # None => slot' = server_nonce)
          PROVE  NonceInv' /\ LastInv'
      BY <1>1, <1>2, <3>1, <3>2, <3>3 DEF NonceInv, LastInv
    <3> QED BY <1>3, <3>3 DEF FreshInv
  <2>1. /\ next_nonce # None => next_nonce = server_nonce
        /\ slot # None /\ call = "placed" => SlotsCurrent
        /\ LastStale => SlotsCurrent /\ (slot # None => slot = server_nonce)
        /\ slot # None => call = "placed"
        /\ call \in {"idle", "minted"} => slot = None
    BY <1>5 DEF FreshInv, NonceInv, LastInv, TypeInv, TypeOK, CallInv
  <2>2. CASE UNCHANGED <<next_nonce, slots, slot>>
    <3>1. SlotsCurrent' <=> SlotsCurrent
      BY <1>1, <2>2 DEF SlotsCurrent
    <3> QED BY <2>1, <2>2, <3>1
  <2>3. CASE PlaceEntry /\ slots' = Empty /\ slot' = slots[side].nonce /\ slots[side] # None
    <3>1. SlotsCurrent'
      BY <2>3 DEF SlotsCurrent, Empty
    <3>2. side \in Sides /\ UNCHANGED next_nonce
      BY <2>3 DEF PlaceEntry, TypeInv, CallInv
    <3> QED BY <2>1, <2>3, <3>1, <3>2 DEF SlotsCurrent
  <2>4. CASE FetchNonce
    <3>1. UNCHANGED <<slots, slot, call>> /\ next_nonce' = server_nonce
      BY <2>4 DEF FetchNonce, poolVars, callVars
    <3>2. SlotsCurrent' <=> SlotsCurrent
      BY <1>1, <3>1 DEF SlotsCurrent
    <3> QED BY <2>1, <3>1, <3>2
  <2>5. CASE RefreshAtOnce \/ RefreshSigns
    <3>1. /\ next_nonce' = server_nonce /\ SignBoth(server_nonce)
          /\ UNCHANGED <<slot, call>>
      BY <2>1, <2>5 DEF RefreshAtOnce, RefreshSigns, callVars
    <3>2. SlotsCurrent'
      BY <1>1, <3>1 DEF SignBoth, Signed, Empty, SlotsCurrent
    <3> QED BY <2>1, <3>1, <3>2
  <2> QED
    BY <2>1, <2>2, <2>3, <2>4, <2>5
    DEF MintEntry, PlaceReduceOnly, PlaceEntry, TriggerRefresh, Refresh, RefreshWaits,
        RefreshSkips, RunNotices, RunConnects, poolVars, callVars
<1> QED BY <1>4, <1>5

LEMMA FreshSend == ASSUME TypeInv, OrderInv, FreshInv, Send PROVE FreshInv'
<1>1. /\ call = "placed" /\ call' = "sent" /\ Nonce # None
      /\ wire' = wire \cup {Tx(TRUE)}
      /\ UNCHANGED <<server_nonce, replies, results, next_nonce, slots, slot>>
  BY DEF Send, Placed, poolVars
<1>2. /\ Tx(TRUE).nonce = Nonce
      /\ Id' = Id /\ (AnswersKnown' <=> AnswersKnown) /\ (LastStale' <=> LastStale)
      /\ SlotsCurrent' <=> SlotsCurrent
  BY <1>1 DEF Tx, Id, AnswersKnown, LastStale, SlotsCurrent
<1>3. StaleCostsOne'
  BY <1>1 DEF FreshInv, StaleCostsOne, AnswersKnown
<1>4. ASSUME AnswersKnown
      PROVE  /\ next_nonce # None => next_nonce = server_nonce
             /\ slot # None => SlotsCurrent
             /\ \A r \in replies : r.id # Id
             /\ LastStale => \A tx \in wire' : tx.nonce = server_nonce
  <2>1. wire = {} /\ \A r \in replies : r.id # Id
    BY <1>1, <1>4, OnlyOne
  <2>2. LastStale => Nonce = server_nonce
    BY <1>1, <1>4 DEF FreshInv, NonceInv, LastInv, Nonce, Cold
  <2> QED BY <1>1, <1>2, <1>4, <2>1, <2>2 DEF FreshInv, NonceInv
<1>5. NonceInv' /\ LastInv'
  BY <1>1, <1>2, <1>4 DEF NonceInv, LastInv
<1> QED BY <1>3, <1>5 DEF FreshInv

\* What one more result changes.
LEMMA OneMore ==
    ASSUME TypeInv, NEW result \in Results, results' = Append(results, result)
    PROVE  /\ Id \in Nat /\ Id' = Id + 1 /\ Len(results) = Id - 1 /\ Len(results') = Id
           /\ \A id \in 1 .. Id - 1 : results'[id] = results[id]
           /\ results'[Id] = result
           /\ AnswersKnown' <=> AnswersKnown /\ result # "unknown"
           /\ LastStale' <=> result = "stale"
<1>1. results \in Seq(Results)
  BY DEF TypeInv, TypeOK
<1>2. /\ Len(results) \in Nat /\ Len(results') = Len(results) + 1
      /\ results' # <<>>
      /\ \A id \in 1 .. Len(results) : results'[id] = results[id]
      /\ results'[Len(results) + 1] = result
  BY <1>1, Appended
<1>3. AnswersKnown' <=> AnswersKnown /\ result # "unknown"
  BY <1>2 DEF AnswersKnown
<1> QED BY <1>2, <1>3 DEF Id, LastStale

\* A call ends: nothing of it is left, and a stale end follows no stale one.
LEMMA FreshEnds ==
    ASSUME TypeInv, OrderInv, FreshInv, NEW result \in Results, EndCall(result),
           UNCHANGED server_nonce, replies' \subseteq replies,
           AnswersKnown /\ result # "unknown" =>
               wire' = {} /\ (next_nonce' # None => next_nonce' = server_nonce),
           AnswersKnown /\ result = "stale" => SlotsCurrent /\ ~LastStale
    PROVE  FreshInv'
<1>1. /\ results' = Append(results, result) /\ call' = "idle" /\ slot' = None
      /\ UNCHANGED <<slots>>
  BY DEF EndCall, poolVars
<1>2. /\ Id \in Nat /\ Id' = Id + 1 /\ Len(results) = Id - 1 /\ Len(results') = Id
      /\ \A id \in 1 .. Id - 1 : results'[id] = results[id]
      /\ results'[Id] = result
      /\ AnswersKnown' <=> AnswersKnown /\ result # "unknown"
      /\ LastStale' <=> result = "stale"
  BY <1>1, OneMore
<1>3. SlotsCurrent' <=> SlotsCurrent
  BY <1>1 DEF SlotsCurrent
<1>4. \A r \in replies' : r.id # Id'
  <2>1. \A r \in replies : r.id \in 1 .. Id
    BY DEF OrderInv, ReplyInv
  <2> QED BY <1>2, <2>1
<1>5. NonceInv' /\ LastInv'
  BY <1>1, <1>2, <1>3, <1>4 DEF NonceInv, LastInv
<1>6. StaleCostsOne'
  <2> SUFFICES ASSUME AnswersKnown', NEW id \in 1 .. Id - 1
               PROVE  ~ (results'[id] = "stale" /\ results'[id + 1] = "stale")
    BY <1>2 DEF StaleCostsOne
  <2>1. CASE id = Id - 1
    <3>1. results # <<>>
      BY <1>2, <2>1
    <3>2. results[id] = "stale" => LastStale
      BY <1>2, <2>1, <3>1 DEF LastStale
    <3> QED BY <1>2, <2>1, <3>2
  <2>2. CASE id # Id - 1
    <3>1. id \in 1 .. Len(results) - 1 /\ id + 1 \in 1 .. Id - 1
      BY <1>2, <2>2
    <3> QED BY <1>2, <3>1 DEF FreshInv, StaleCostsOne
  <2> QED BY <2>1, <2>2
<1> QED BY <1>5, <1>6 DEF FreshInv

\* Without an answer a call ends as it began, or nothing is known any more.
LEMMA FreshUnanswered ==
    ASSUME TypeInv, OrderInv, FreshInv, NothingSent \/ NoConnection \/ SendRaises \/ TimesOut
    PROVE  FreshInv'
<1>1. CASE NothingSent \/ NoConnection
  <2>1. /\ EndCall("none") /\ "none" \in Results /\ call = "placed"
        /\ UNCHANGED <<server_nonce, wire, replies>>
        /\ next_nonce' \in {next_nonce, None}
    BY <1>1 DEF NothingSent, NoConnection, Placed, Results, venueVars
  <2>2. AnswersKnown => wire' = {} /\ (next_nonce' # None => next_nonce' = server_nonce)
    BY <2>1, OnlyOne DEF FreshInv, NonceInv
  <2> QED BY <2>1, <2>2, FreshEnds
<1>2. CASE SendRaises \/ TimesOut
  <2>1. /\ EndCall("unknown") /\ "unknown" \in Results /\ UNCHANGED server_nonce
        /\ replies' \subseteq replies
    BY <1>2 DEF SendRaises, TimesOut, Results, venueVars
  <2> QED BY <2>1, FreshEnds
<1> QED BY <1>1, <1>2

LEMMA FreshReply ==
    ASSUME TypeInv, OrderInv, FreshInv, NEW r \in replies, Reply(r)
    PROVE  FreshInv'
<1>1. UNCHANGED <<server_nonce, wire>> /\ replies' \subseteq replies
  BY DEF Reply
<1>2. CASE call = "sent" /\ r.id = Id
  <2>1. /\ EndCall(r.verdict) /\ r.verdict \in Results
        /\ next_nonce' = IF r.verdict = "ok" THEN Nonce + 1 ELSE None
    <3>1. r.verdict \in Results
      BY DEF TypeInv, TypeOK, Replies, Results
    <3> QED BY <1>2, <3>1 DEF Reply
  <2>2. AnswersKnown => wire' = {}
    <3>1. \A tx \in wire : tx.id # Id
      BY <1>2 DEF OrderInv, ReplyInv, WireInv, Outstanding
    <3> QED BY <1>1, <3>1, OnlyOne
  <2>3. AnswersKnown => (next_nonce' # None => next_nonce' = server_nonce)
    BY <1>2, <2>1 DEF FreshInv, NonceInv
  <2>4. AnswersKnown /\ r.verdict = "stale" => SlotsCurrent /\ ~LastStale
    BY <1>2 DEF FreshInv, NonceInv, LastInv
  <2> QED BY <1>1, <2>1, <2>2, <2>3, <2>4, FreshEnds
<1>3. CASE ~ (call = "sent" /\ r.id = Id)
  <2>1. UNCHANGED <<next_nonce, slots, slot, call, results>>
    BY <1>3 DEF Reply, poolVars, callVars
  <2>2. /\ Id' = Id /\ Nonce' = Nonce /\ (AnswersKnown' <=> AnswersKnown)
        /\ (LastStale' <=> LastStale) /\ (Undecided' <=> Undecided)
        /\ (SlotsCurrent' <=> SlotsCurrent)
    BY <1>1, <2>1 DEF Id, Nonce, Cold, AnswersKnown, LastStale, Undecided, SlotsCurrent
  <2>3. StaleCostsOne'
    BY <2>1 DEF FreshInv, StaleCostsOne, AnswersKnown
  <2>4. NonceInv' /\ LastInv'
    BY <1>1, <2>1, <2>2 DEF FreshInv, NonceInv, LastInv
  <2> QED BY <2>3, <2>4 DEF FreshInv
<1> QED BY <1>2, <1>3

LEMMA FreshVenue ==
    ASSUME TypeInv, OrderInv, FreshInv, NEW tx \in wire, VenueAccepts(tx) \/ VenueRefuses(tx)
    PROVE  FreshInv'
<1>1. /\ UNCHANGED <<next_nonce, slots, slot, call, results>>
      /\ wire' = wire \ {tx}
      /\ Id' = Id /\ Nonce' = Nonce
      /\ (AnswersKnown' <=> AnswersKnown) /\ (LastStale' <=> LastStale)
  BY DEF VenueAccepts, VenueRefuses, Answer, poolVars, callVars, Id, Nonce, Cold,
         AnswersKnown, LastStale
<1>2. StaleCostsOne'
  BY <1>1 DEF FreshInv, StaleCostsOne, AnswersKnown
<1> SUFFICES ASSUME AnswersKnown PROVE NonceInv' /\ LastInv'
  BY <1>1, <1>2 DEF FreshInv, NonceInv, LastInv
<1>3. /\ tx.id = Id /\ tx.nonce = Nonce /\ call = "sent" /\ Undecided
      /\ wire' = {} /\ ~Undecided'
  BY <1>1, OnlyOne DEF Undecided
\* There is no other answer to this call.
<1>4. \A r \in replies : r.id = Id => r.verdict = "ok"
  BY <1>3 DEF OrderInv, ReplyInv
<1>5. \A r \in replies : r.id # Id
  <2>1. \A r \in replies : r.verdict = "ok" /\ r.id = Id => WasAccepted(Id)
    BY DEF OrderInv, ReplyInv
  <2>2. ~WasAccepted(Id)
    BY <1>3 DEF OrderInv, WireInv, Outstanding
  <2> QED BY <1>4, <2>1, <2>2
<1>6. CASE VenueAccepts(tx)
  <2>1. /\ tx.nonce = server_nonce /\ server_nonce' = server_nonce + 1
        /\ \A r \in replies' : r \in replies \/ r = [id |-> tx.id, verdict |-> "ok"]
    BY <1>6 DEF VenueAccepts, Answer
  <2>2. \A r \in replies' : r.id = Id => r.verdict = "ok" /\ server_nonce' = Nonce + 1
    BY <1>3, <1>5, <2>1
  <2> QED BY <1>1, <1>3, <2>2 DEF NonceInv, LastInv
<1>7. CASE VenueRefuses(tx) /\ tx.nonce = server_nonce
  <2>1. \A r \in replies' : r \in replies \/ r = [id |-> tx.id, verdict |-> "refused"]
    BY <1>7 DEF VenueRefuses, Answer
  <2>2. \A r \in replies' : r.id = Id => r.verdict = "refused"
    BY <1>3, <1>5, <2>1
  <2> QED BY <1>1, <1>3, <2>2 DEF NonceInv, LastInv
<1>8. CASE VenueRefuses(tx) /\ tx.nonce # server_nonce
  <2>1. /\ UNCHANGED server_nonce
        /\ \A r \in replies' : r \in replies \/ r = [id |-> tx.id, verdict |-> "stale"]
    BY <1>8 DEF VenueRefuses, Answer
  <2>2. \A r \in replies' : r.id = Id => r.verdict = "stale"
    BY <1>3, <1>5, <2>1
  <2>3. slot # None /\ SlotsCurrent /\ ~LastStale
    <3>1. Nonce # None
      BY <1>3 DEF TypeInv, CallInv
    <3> QED BY <1>3, <1>8, <3>1 DEF FreshInv, NonceInv, LastInv, Nonce, Cold
  <2>4. SlotsCurrent'
    BY <1>1, <2>1, <2>3 DEF SlotsCurrent
  <2> QED BY <1>1, <1>3, <2>2, <2>3, <2>4 DEF NonceInv, LastInv
<1> QED BY <1>6, <1>7, <1>8

LEMMA FreshConnection ==
    ASSUME TypeInv, OrderInv, FreshInv, ConnectionDies
    PROVE  FreshInv'
<1>1. /\ UNCHANGED <<server_nonce, next_nonce, slots, slot, call, results>>
      /\ wire' = Unanswered /\ replies' = {}
      /\ Id' = Id /\ (AnswersKnown' <=> AnswersKnown) /\ (LastStale' <=> LastStale)
      /\ SlotsCurrent' <=> SlotsCurrent
  BY DEF ConnectionDies, poolVars, callVars, Id, AnswersKnown, LastStale, SlotsCurrent
<1>2. \A tx \in Unanswered : \E old \in wire : tx.id = old.id /\ tx.nonce = old.nonce
  BY UnansweredKept DEF TypeInv
<1>3. Undecided' => Undecided
  BY <1>1, <1>2 DEF Undecided
<1>4. StaleCostsOne'
  BY <1>1 DEF FreshInv, StaleCostsOne, AnswersKnown
<1>5. NonceInv' /\ LastInv'
  BY <1>1, <1>2, <1>3 DEF FreshInv, NonceInv, LastInv
<1> QED BY <1>4, <1>5 DEF FreshInv

LEMMA FreshInvariant == Spec => []FreshInv
<1>1. TypeInv /\ OrderInv /\ FreshInv /\ [Next]_vars => FreshInv'
  <2> SUFFICES ASSUME TypeInv, OrderInv, FreshInv, [Next]_vars PROVE FreshInv'
    OBVIOUS
  <2>1. CASE UNCHANGED vars
    <3>1. /\ UNCHANGED <<server_nonce, wire, replies, results, call, next_nonce, slots, slot>>
      BY <2>1 DEF vars, venueVars, poolVars, callVars
    <3>2. /\ Id' = Id /\ Nonce' = Nonce /\ (AnswersKnown' <=> AnswersKnown)
          /\ (LastStale' <=> LastStale) /\ (Undecided' <=> Undecided)
          /\ (SlotsCurrent' <=> SlotsCurrent)
      BY <3>1 DEF Id, Nonce, Cold, AnswersKnown, LastStale, Undecided, SlotsCurrent
    <3>3. StaleCostsOne'
      BY <3>1 DEF FreshInv, StaleCostsOne, AnswersKnown
    <3> QED BY <3>1, <3>2, <3>3 DEF FreshInv, NonceInv, LastInv
  <2> QED
    BY <2>1, FreshAside, FreshSend, FreshUnanswered, FreshReply, FreshVenue, FreshConnection
    DEF Next, Call
<1> QED
  BY <1>1, FreshInit, TypeInvariant, OrderInvariant, PTL DEF Spec

\* An order signed cold carries the expected nonce while every answer is known: forgetting
\* the nonce after a rejection and advancing it after a success keep it exact.
THEOREM ColdOrdersAreFresh == Spec => []ColdIsFresh
<1>1. TypeInv /\ OrderInv /\ FreshInv => ColdIsFresh
  <2> SUFFICES ASSUME TypeInv, OrderInv, FreshInv, AnswersKnown, NEW tx \in wire, tx.id = Id,
                      Cold
               PROVE  tx.nonce = server_nonce
    BY DEF ColdIsFresh
  <2>1. tx.nonce = Nonce /\ call = "sent" /\ Undecided
    BY OnlyOne DEF Undecided
  <2> QED BY <2>1 DEF FreshInv, NonceInv, Nonce, Cold, TypeInv, CallInv
<1> QED BY <1>1, FreshInvariant, TypeInvariant, OrderInvariant, PTL

\* An outdated slot costs one call: the call that takes it empties the other one, and what
\* is signed from then on is current.
THEOREM StaleIsSingle == Spec => []StaleCostsOne
  BY FreshInvariant, PTL DEF FreshInv
=============================================================================
