-------------------------- MODULE MarketFeed_proofs --------------------------
(* Theorems about MarketFeed, for every venue, every length of the buffer    *)
(* and every bound.                                                          *)
EXTENDS MarketFeed, TLAPS

-----------------------------------------------------------------------------
(* The invariant.                                                            *)

\* Nothing runs ahead of the venue.
SeqInv ==
    /\ book \subseteq BookOf(seq)
    /\ last_book # Nothing => last_book \subseteq BookOf(seq)
    /\ \A i \in 1 .. Len(wire) : wire[i].u <= seq
    /\ \A i \in 1 .. Len(buffer) : buffer[i] <= seq
    /\ snap # Nothing => snap <= seq
    /\ synced => last_u # Nothing /\ last_u <= seq

\* Messages arrive in the order of the updates, each venue has its kinds of them, and
\* only Katana's client bootstraps.
WireInv ==
    /\ ~online => wire = <<>>
    /\ \A i \in 1 .. Len(wire) :
          /\ venue = "katana" => wire[i].kind \in {"ack", "diff"}
          /\ venue = "lighter" => wire[i].kind \in {"snapshot", "diff"}
          /\ venue = "aster" => wire[i].kind = "frame"
          /\ wire[i].kind = "diff" => wire[i].u # 0
    /\ venue # "aster" =>
          \A i, j \in 1 .. Len(wire) : i < j => wire[i].u < wire[j].u
    /\ venue # "katana" => bootstrap = "none"
    /\ snap # Nothing => bootstrap = "fetching"

InWire(u) == \E i \in 1 .. Len(wire) : wire[i].kind = "diff" /\ wire[i].u = u
InBuffer(u) == \E i \in 1 .. Len(buffer) : buffer[i] = u
AfterBuffer(u) == \A i \in 1 .. Len(buffer) : buffer[i] < u

\* What is newer than the snapshot under way was lost since, is in the buffer or still
\* comes, or nothing after it comes.
KatanaInv == venue = "katana" =>
    /\ bootstrap # "none" => ~synced
    /\ \A i \in 1 .. Len(wire) : AfterBuffer(wire[i].u)
    /\ snap # Nothing =>
          \A u \in snap + 1 .. seq :
              u \in skipped \/ InBuffer(u) \/ InWire(u) \/ (~online /\ AfterBuffer(u))

\* The last update in the book, or in the snapshot that comes first.
Base == IF synced THEN last_u ELSE wire[1].u

\* What is newer than the book still comes.
LighterInv == venue = "lighter" =>
    /\ \A i \in 1 .. Len(wire) :
          /\ wire[i].kind = "snapshot" => i = 1 /\ ~synced
          /\ synced => wire[i].u > last_u
    /\ online =>
          /\ ~synced => wire # <<>> /\ wire[1].kind = "snapshot"
          /\ \A u \in Base + 1 .. seq : u \in skipped \/ InWire(u)

FeedInv ==
    /\ MarketFeedTypeOK /\ SeqInv /\ WireInv
    /\ KatanaInv /\ LighterInv /\ MissingWasSkipped

-----------------------------------------------------------------------------
(* Sequences and sets.                                                       *)

LEMMA NothingElse ==
    /\ \A n \in Int : n # Nothing
    /\ \A S \in SUBSET Updates : S # Nothing
    /\ MaxSeq \in Nat /\ MaxWire \in Nat /\ BufferMax \in Nat /\ MaxLinks \in Nat
    /\ FreshTicks \in Nat
  BY MarketFeedAssumption DEF Updates

LEMMA AppendOf ==
    ASSUME NEW S, NEW s \in Seq(S), NEW x \in S
    PROVE  /\ Append(s, x) \in Seq(S) /\ Len(Append(s, x)) = Len(s) + 1 /\ Len(s) \in Nat
           /\ \A i \in 1 .. Len(s) : Append(s, x)[i] = s[i]
           /\ Append(s, x)[Len(s) + 1] = x
  OBVIOUS

LEMMA TailOf ==
    ASSUME NEW S, NEW s \in Seq(S), s # <<>>
    PROVE  /\ Tail(s) \in Seq(S) /\ Len(s) \in Nat \ {0} /\ Len(Tail(s)) = Len(s) - 1
           /\ Head(s) = s[1] /\ Head(s) \in S
           /\ \A i \in 1 .. Len(s) - 1 : Tail(s)[i] = s[i + 1]
  OBVIOUS

LEMMA EmptyOf ==
    ASSUME NEW S PROVE <<>> \in Seq(S) /\ Len(<<>>) = 0 /\ 1 .. 0 = {}
  OBVIOUS

\* The first message is gone.
LEMMA Received ==
    ASSUME MarketFeedTypeOK, NEW kind, Receive(kind)
    PROVE  /\ wire' \in Seq(Messages) /\ Len(wire') <= MaxWire
           /\ Len(wire) \in Nat \ {0} /\ Len(wire') = Len(wire) - 1
           /\ wire[1] \in Messages /\ Head(wire) = wire[1] /\ wire[1].kind = kind
           /\ wire[1].u \in 0 .. MaxSeq
           /\ \A i \in 1 .. Len(wire') : i + 1 \in 1 .. Len(wire) /\ wire'[i] = wire[i + 1]
           /\ \A i \in 1 .. Len(wire) : i = 1 \/ (i - 1 \in 1 .. Len(wire') /\ wire'[i - 1] = wire[i])
<1> HIDE DEF Messages
<1>1. wire \in Seq(Messages) /\ wire # <<>> /\ wire' = Tail(wire) /\ Len(wire) <= MaxWire
      /\ Head(wire).kind = kind
  BY DEF MarketFeedTypeOK, Receive
<1>2. /\ Tail(wire) \in Seq(Messages) /\ Len(wire) \in Nat \ {0}
      /\ Len(Tail(wire)) = Len(wire) - 1
      /\ Head(wire) = wire[1] /\ Head(wire) \in Messages
      /\ \A i \in 1 .. Len(wire) - 1 : Tail(wire)[i] = wire[i + 1]
  BY <1>1, TailOf
<1>3. wire[1].u \in 0 .. MaxSeq
  BY <1>2 DEF Messages
<1>4. \A i \in 1 .. Len(wire) - 1 : i + 1 \in 1 .. Len(wire)
  BY <1>2
<1>5. \A i \in 1 .. Len(wire) : i = 1 \/ (i - 1 \in 1 .. Len(wire) - 1 /\ (i - 1) + 1 = i)
  BY <1>2
<1>6. Len(wire') <= MaxWire
  BY <1>1, <1>2, NothingElse
<1>7. \A i \in 1 .. Len(wire) : i = 1 \/ (i - 1 \in 1 .. Len(wire') /\ wire'[i - 1] = wire[i])
  BY <1>1, <1>2, <1>5
<1> QED BY <1>1, <1>2, <1>3, <1>4, <1>6, <1>7

LEMMA FeedInit == ASSUME MarketFeedInit PROVE FeedInv
<1> USE DEF MarketFeedInit
<1>1. /\ <<>> \in Seq(Messages) /\ <<>> \in Seq(Updates) /\ Len(<<>>) = 0 /\ 1 .. 0 = {}
  BY EmptyOf
<1>2. MarketFeedTypeOK
  <2>1. /\ moves \subseteq Updates /\ hollow \subseteq 0 .. MaxSeq
        /\ seq \in 0 .. MaxSeq /\ links \in 0 .. MaxLinks
        /\ update_age \in 0 .. Never /\ sync_age \in 0 .. Never
    BY NothingElse DEF Never
  <2>2. /\ wire \in Seq(Messages) /\ Len(wire) <= MaxWire
        /\ buffer \in Seq(Updates) /\ Len(buffer) <= BufferMax
    BY <1>1, NothingElse
  <2> QED BY <2>1, <2>2 DEF MarketFeedTypeOK
<1>3. SeqInv /\ WireInv /\ KatanaInv /\ LighterInv /\ MissingWasSkipped
  BY <1>1, NothingElse DEF SeqInv, WireInv, KatanaInv, LighterInv, MissingWasSkipped, AfterBuffer
<1> QED BY <1>2, <1>3 DEF FeedInv

-----------------------------------------------------------------------------
(* The venue and the connection.                                             *)

\* What an update that is sent, or that nobody is told of, does to the feed.
LEMMA UpdateStep == ASSUME FeedInv, VenueUpdates PROVE FeedInv'
<1>0. /\ MarketFeedTypeOK /\ SeqInv /\ WireInv /\ KatanaInv /\ LighterInv /\ MissingWasSkipped
  BY DEF FeedInv
<1>1. /\ seq \in 0 .. MaxSeq /\ seq < MaxSeq /\ seq' = seq + 1
      /\ seq' \in Updates /\ seq' \in 0 .. MaxSeq
      /\ UNCHANGED <<venue, online, links, book, synced, buffer, last_u, bootstrap, snap,
                     last_book, update_age, row_age, sync_age>>
      /\ wire \in Seq(Messages) /\ Len(wire) \in Nat /\ Len(wire) <= MaxWire
      /\ buffer \in Seq(Updates) /\ Len(buffer) \in Nat
      /\ skipped \subseteq Updates /\ venue \in {"katana", "lighter", "aster"}
      /\ \A i \in 1 .. Len(wire) : wire[i].u \in 0 .. MaxSeq
      /\ \A i \in 1 .. Len(buffer) : buffer[i] \in 1 .. MaxSeq
      /\ snap \in {Nothing} \cup 0 .. MaxSeq /\ last_u \in {Nothing} \cup 0 .. MaxSeq
  <2>1. /\ wire \in Seq(Messages) /\ buffer \in Seq(Updates)
    BY <1>0 DEF MarketFeedTypeOK
  <2>2. \A i \in 1 .. Len(wire) : wire[i] \in Messages
    BY <2>1
  <2>3. \A i \in 1 .. Len(buffer) : buffer[i] \in 1 .. MaxSeq
    <3>1. \A i \in 1 .. Len(buffer) : buffer[i] \in Updates
      BY <2>1
    <3> QED BY <3>1 DEF Updates
  <2>4. \A i \in 1 .. Len(wire) : wire[i].u \in 0 .. MaxSeq
    BY <2>2 DEF Messages
  <2>5. seq \in 0 .. MaxSeq /\ seq < MaxSeq /\ seq' = seq + 1
    BY <1>0 DEF MarketFeedTypeOK, VenueUpdates
  <2>6. seq' \in Updates /\ seq' \in 0 .. MaxSeq
    BY <2>5, NothingElse DEF Updates
  <2> QED BY <1>0, <2>1, <2>3, <2>4, <2>5, <2>6
          DEF MarketFeedTypeOK, VenueUpdates, connVars, taskVars
<1>2. /\ moves' \subseteq Updates /\ hollow' \subseteq 0 .. MaxSeq
  BY <1>0, <1>1 DEF MarketFeedTypeOK, VenueUpdates
<1> DEFINE message == [kind |-> IF venue = "aster" THEN "frame" ELSE "diff", u |-> seq']
<1>3. \/ ~online /\ UNCHANGED <<wire, skipped>>
      \/ /\ online /\ Len(wire) < MaxWire /\ wire' = Append(wire, message)
         /\ UNCHANGED skipped
      \/ /\ online /\ UNCHANGED wire
         /\ skipped' = IF venue = "katana" /\ snap = Nothing THEN skipped ELSE skipped \cup {seq'}
  BY <1>1 DEF VenueUpdates, Send
<1>4. /\ message \in Messages /\ message.u = seq'
      /\ message.kind = IF venue = "aster" THEN "frame" ELSE "diff"
  BY <1>1 DEF Messages
<1> HIDE DEF message
<1>5. /\ skipped \subseteq skipped' /\ skipped' \subseteq Updates
      /\ wire' \in Seq(Messages) /\ Len(wire') <= MaxWire
      /\ Len(wire) <= Len(wire') /\ Len(wire') \in Nat
      /\ \A i \in 1 .. Len(wire) : wire'[i] = wire[i]
      /\ \A i \in 1 .. Len(wire') :
            i \in 1 .. Len(wire) \/ (online /\ i = Len(wire) + 1 /\ wire'[i] = message)
      /\ online => \/ seq' \in skipped' \/ (venue = "katana" /\ snap = Nothing)
                   \/ (Len(wire) + 1 \in 1 .. Len(wire') /\ wire'[Len(wire) + 1] = message)
  <2>1. CASE UNCHANGED wire
    <3>1. CASE ~online
      <4>1. wire' = wire /\ skipped' = skipped
        BY <1>3, <3>1
      <4> QED BY <1>1, <3>1, <4>1
    <3>2. CASE online /\ skipped' = IF venue = "katana" /\ snap = Nothing THEN skipped
                                   ELSE skipped \cup {seq'}
      BY <1>1, <2>1, <3>2
    <3>3. CASE wire' = Append(wire, message)
      <4>1. Len(Append(wire, message)) = Len(wire) + 1
        BY <1>1, <1>4, AppendOf
      <4> QED BY <1>1, <2>1, <3>3, <4>1
    <3> QED BY <1>3, <3>1, <3>2, <3>3
  <2>2. CASE /\ online /\ Len(wire) < MaxWire /\ wire' = Append(wire, message)
             /\ UNCHANGED skipped
    <3>1. /\ wire' \in Seq(Messages) /\ Len(wire') = Len(wire) + 1
          /\ \A i \in 1 .. Len(wire) : wire'[i] = wire[i]
          /\ wire'[Len(wire) + 1] = message
      BY <1>1, <1>4, <2>2, AppendOf
    <3> QED BY <1>1, <2>2, <3>1, NothingElse
  <2> QED BY <1>3, <2>1, <2>2
<1>6. MarketFeedTypeOK'
  BY <1>0, <1>1, <1>2, <1>5 DEF MarketFeedTypeOK
<1>7. SeqInv'
  <2>1. \A i \in 1 .. Len(wire') : wire'[i].u <= seq'
    BY <1>0, <1>1, <1>4, <1>5 DEF SeqInv
  <2>2. book \subseteq BookOf(seq') /\ (last_book # Nothing => last_book \subseteq BookOf(seq'))
    BY <1>0, <1>1 DEF SeqInv, BookOf
  <2>3. /\ \A i \in 1 .. Len(buffer) : buffer[i] <= seq'
        /\ snap # Nothing => snap <= seq'
        /\ synced => last_u # Nothing /\ last_u <= seq'
    BY <1>0, <1>1 DEF SeqInv
  <2> QED BY <1>1, <2>1, <2>2, <2>3 DEF SeqInv
<1>8. WireInv'
  <2>1. ~online' => wire' = <<>>
    BY <1>0, <1>1, <1>3 DEF WireInv
  <2>2. \A i \in 1 .. Len(wire') :
          /\ venue = "katana" => wire'[i].kind \in {"ack", "diff"}
          /\ venue = "lighter" => wire'[i].kind \in {"snapshot", "diff"}
          /\ venue = "aster" => wire'[i].kind = "frame"
          /\ wire'[i].kind = "diff" => wire'[i].u # 0
    <3> SUFFICES ASSUME NEW i \in 1 .. Len(wire')
                 PROVE  /\ venue = "katana" => wire'[i].kind \in {"ack", "diff"}
                        /\ venue = "lighter" => wire'[i].kind \in {"snapshot", "diff"}
                        /\ venue = "aster" => wire'[i].kind = "frame"
                        /\ wire'[i].kind = "diff" => wire'[i].u # 0
      OBVIOUS
    <3>1. CASE i \in 1 .. Len(wire)
      <4>1. wire'[i] = wire[i]
        BY <1>5, <3>1
      <4> QED BY <1>0, <3>1, <4>1 DEF WireInv
    <3>2. CASE wire'[i] = message
      BY <1>1, <1>4, <3>2
    <3> QED BY <1>5, <3>1, <3>2
  <2>3. ASSUME venue # "aster", NEW i \in 1 .. Len(wire'), NEW j \in 1 .. Len(wire'), i < j
        PROVE  wire'[i].u < wire'[j].u
    <3>0. i \in 1 .. Len(wire)
      BY <1>1, <1>5, <2>3
    <3>1. i \in 1 .. Len(wire) /\ wire'[i] = wire[i] /\ wire[i].u <= seq
      BY <1>0, <1>5, <3>0 DEF SeqInv
    <3>2. CASE j \in 1 .. Len(wire)
      BY <1>0, <1>5, <2>3, <3>1, <3>2 DEF WireInv
    <3>3. CASE wire'[j] = message
      BY <1>1, <1>4, <3>1, <3>3
    <3> QED BY <1>5, <3>2, <3>3
  <2> QED BY <1>0, <1>1, <2>1, <2>2, <2>3 DEF WireInv
<1>9. \A u : InWire(u) => InWire(u)'
  BY <1>1, <1>5 DEF InWire
<1>10. KatanaInv'
  <2> SUFFICES ASSUME venue = "katana" PROVE KatanaInv'
    BY <1>1 DEF KatanaInv
  <2>1. \A i \in 1 .. Len(wire') : AfterBuffer(wire'[i].u)
    <3> SUFFICES ASSUME NEW i \in 1 .. Len(wire') PROVE AfterBuffer(wire'[i].u)
      OBVIOUS
    <3>1. CASE i \in 1 .. Len(wire)
      BY <1>0, <1>5, <3>1 DEF KatanaInv
    <3>2. CASE wire'[i] = message
      BY <1>0, <1>1, <1>4, <3>2 DEF SeqInv, AfterBuffer
    <3> QED BY <1>5, <3>1, <3>2
  <2>2. ASSUME snap # Nothing, NEW u \in snap + 1 .. seq'
        PROVE  u \in skipped' \/ InBuffer(u) \/ InWire(u)' \/ (~online /\ AfterBuffer(u))
    <3>1. CASE u \in snap + 1 .. seq
      BY <1>0, <1>5, <1>9, <2>2, <3>1 DEF KatanaInv
    <3>2. CASE u = seq'
      <4>1. AfterBuffer(u)
        BY <1>0, <1>1, <3>2 DEF SeqInv, AfterBuffer
      <4> QED BY <1>4, <1>5, <2>2, <3>2, <4>1 DEF InWire
    <3> QED BY <1>1, <2>2, <3>1, <3>2
  <2> QED BY <1>0, <1>1, <2>1, <2>2 DEF KatanaInv, InBuffer, AfterBuffer
<1>11. LighterInv'
  <2> SUFFICES ASSUME venue = "lighter" PROVE LighterInv'
    BY <1>1 DEF LighterInv
  <2>1. ASSUME NEW i \in 1 .. Len(wire')
        PROVE  /\ wire'[i].kind = "snapshot" => i = 1 /\ ~synced
               /\ synced => wire'[i].u > last_u
    <3>1. CASE i \in 1 .. Len(wire)
      BY <1>0, <1>5, <3>1 DEF LighterInv
    <3>2. CASE wire'[i] = message
      BY <1>0, <1>1, <1>4, <3>2 DEF SeqInv
    <3> QED BY <1>5, <3>1, <3>2
  <2>2. ASSUME online
        PROVE  /\ ~synced => wire' # <<>> /\ wire'[1].kind = "snapshot"
               /\ \A u \in Base' + 1 .. seq' : u \in skipped' \/ InWire(u)'
    <3>1. ~synced => wire # <<>> /\ wire[1].kind = "snapshot"
      BY <1>0, <2>2 DEF LighterInv
    <3>2. ~synced => 1 \in 1 .. Len(wire) /\ wire'[1] = wire[1] /\ Len(wire') # 0
      <4>1. wire # <<>> => Len(wire) # 0
        BY <1>1
      <4> QED BY <1>1, <1>5, <3>1, <4>1
    <3>3. Base' = Base
      BY <1>1, <3>2 DEF Base
    <3>4. ASSUME NEW u \in Base + 1 .. seq' PROVE u \in skipped' \/ InWire(u)'
      <4>1. CASE u = seq'
        BY <1>4, <1>5, <2>2, <4>1 DEF InWire
      <4>2. CASE u # seq'
        <5>1. Base \in Int
          BY <1>0, <1>1, <3>2 DEF Base, SeqInv
        <5>2. u \in Base + 1 .. seq
          BY <1>1, <3>4, <4>2, <5>1
        <5> QED BY <1>0, <1>5, <1>9, <2>2, <5>2 DEF LighterInv
      <4> QED BY <4>1, <4>2
    <3>5. ~synced => wire' # <<>>
      <4>1. Len(<<>>) = 0
        OBVIOUS
      <4> QED BY <3>2, <4>1
    <3> QED BY <3>1, <3>2, <3>3, <3>4, <3>5
  <2> QED BY <1>1, <2>1, <2>2 DEF LighterInv
<1>12. MissingWasSkipped'
  BY <1>0, <1>1, <1>5 DEF MissingWasSkipped, Missing, BookOf
<1> QED BY <1>6, <1>7, <1>8, <1>10, <1>11, <1>12 DEF FeedInv
\* What the parts of the invariant say of types, for the steps below.
LEMMA FeedTypes ==
    ASSUME FeedInv
    PROVE  /\ venue \in {"katana", "lighter", "aster"} /\ seq \in 0 .. MaxSeq
           /\ wire \in Seq(Messages) /\ Len(wire) \in Nat /\ Len(wire) <= MaxWire
           /\ buffer \in Seq(Updates) /\ Len(buffer) \in Nat /\ Len(buffer) <= BufferMax
           /\ skipped \subseteq Updates /\ book \subseteq Updates
           /\ \A i \in 1 .. Len(wire) : wire[i] \in Messages /\ wire[i].u \in 0 .. MaxSeq
           /\ \A i \in 1 .. Len(buffer) : buffer[i] \in Updates /\ buffer[i] \in 1 .. MaxSeq
           /\ snap \in {Nothing} \cup 0 .. MaxSeq /\ last_u \in {Nothing} \cup 0 .. MaxSeq
           /\ synced \in BOOLEAN /\ online \in BOOLEAN
           /\ last_book \in {Nothing} \cup SUBSET Updates
<1>1. MarketFeedTypeOK
  BY DEF FeedInv
<1>2. wire \in Seq(Messages) /\ buffer \in Seq(Updates)
  BY <1>1 DEF MarketFeedTypeOK
<1>3. \A i \in 1 .. Len(wire) : wire[i] \in Messages
  BY <1>2
<1>4. \A i \in 1 .. Len(buffer) : buffer[i] \in Updates
  BY <1>2
<1>5. \A i \in 1 .. Len(wire) : wire[i].u \in 0 .. MaxSeq
  BY <1>3 DEF Messages
<1>6. \A i \in 1 .. Len(buffer) : buffer[i] \in 1 .. MaxSeq
  BY <1>4 DEF Updates
<1> QED BY <1>1, <1>2, <1>3, <1>4, <1>5, <1>6 DEF MarketFeedTypeOK

LEMMA LineStep ==
    ASSUME FeedInv, VenueRepeats \/ Connect \/ Disconnect PROVE FeedInv'
<1>0. /\ MarketFeedTypeOK /\ SeqInv /\ WireInv /\ KatanaInv /\ LighterInv /\ MissingWasSkipped
  BY DEF FeedInv
<1>t. /\ venue \in {"katana", "lighter", "aster"} /\ seq \in 0 .. MaxSeq
      /\ buffer \in Seq(Updates) /\ MaxWire \in Nat \ {0} /\ MaxLinks \in Nat
      /\ BufferMax \in Nat
  BY FeedTypes, MarketFeedAssumption
<1>e. /\ <<>> \in Seq(Messages) /\ <<>> \in Seq(Updates) /\ Len(<<>>) = 0 /\ 1 .. 0 = {}
  BY EmptyOf
<1>o. ASSUME NEW message \in Messages
      PROVE  /\ <<message>> \in Seq(Messages) /\ Len(<<message>>) = 1 /\ <<message>>[1] = message
             /\ \A i \in 1 .. 1 : i = 1
  OBVIOUS
<1>1. CASE VenueRepeats
  <2> DEFINE message == [kind |-> "frame", u |-> seq]
  <2>1. /\ venue = "aster" /\ online /\ wire = <<>> /\ wire' = Append(wire, message)
        /\ UNCHANGED <<venue, moves, hollow, seq, online, links, book, synced, buffer, last_u,
                       bootstrap, snap, last_book, update_age, row_age, sync_age, skipped>>
    BY <1>1 DEF VenueRepeats, Send, marketVars, connVars, taskVars
  <2>2. message \in Messages /\ message.kind = "frame" /\ message.u = seq
    BY <1>t DEF Messages
  <2> HIDE DEF message
  <2>3. /\ wire' = <<message>> /\ wire' \in Seq(Messages) /\ Len(wire') = 1
        /\ wire'[1] = message /\ \A i \in 1 .. Len(wire') : i = 1
    BY <1>o, <2>1, <2>2
  <2>4. MarketFeedTypeOK'
    BY <1>0, <1>t, <2>1, <2>3 DEF MarketFeedTypeOK
  <2>5. SeqInv' /\ WireInv'
    BY <1>0, <1>t, <2>1, <2>2, <2>3 DEF SeqInv, WireInv
  <2>6. KatanaInv' /\ LighterInv' /\ MissingWasSkipped'
    BY <1>0, <2>1 DEF KatanaInv, LighterInv, MissingWasSkipped, Missing
  <2> QED BY <2>4, <2>5, <2>6 DEF FeedInv
<1>2. CASE Connect
  <2>1. /\ online' = TRUE /\ links' = links + 1 /\ links < MaxLinks
        /\ book' = {} /\ synced' = FALSE /\ buffer' = <<>> /\ last_u' = Nothing
        /\ bootstrap' = "none" /\ snap' = Nothing
        /\ UNCHANGED <<venue, moves, hollow, seq, last_book, update_age, row_age, sync_age,
                       skipped>>
    BY <1>2 DEF Connect, ResetBook, marketVars
  <2>2. /\ venue = "aster" => wire' = <<>>
        /\ venue = "katana" => wire' = <<[kind |-> "ack", u |-> seq]>>
        /\ venue = "lighter" => wire' = <<[kind |-> "snapshot", u |-> seq]>>
    BY <1>2 DEF Connect
  <2>8. links' \in 0 .. MaxLinks
    BY <1>0, <1>t, <2>1 DEF MarketFeedTypeOK
  <2>3. ASSUME NEW message \in Messages, message.u = seq, wire' = <<message>>,
               \/ venue = "katana" /\ message.kind = "ack"
               \/ venue = "lighter" /\ message.kind = "snapshot"
        PROVE  FeedInv'
    <3>1. /\ wire' \in Seq(Messages) /\ Len(wire') = 1
          /\ wire'[1] = message /\ \A i \in 1 .. Len(wire') : i = 1
      BY <1>o, <2>3
    <3>2. wire' # <<>>
      <4>1. Len(<<>>) = 0
        OBVIOUS
      <4>2. Len(wire') # 0
        BY <3>1
      <4> QED BY <4>1, <4>2
    <3>3. MarketFeedTypeOK'
      <4>1. /\ wire' \in Seq(Messages) /\ Len(wire') <= MaxWire
            /\ buffer' \in Seq(Updates) /\ Len(buffer') <= BufferMax
        BY <1>t, <1>e, <2>1, <3>1
      <4> QED BY <1>0, <2>1, <2>8, <4>1 DEF MarketFeedTypeOK
    <3>4. SeqInv' /\ WireInv'
      BY <1>0, <1>t, <1>e, <2>1, <2>3, <3>1 DEF SeqInv, WireInv
    <3>5. KatanaInv'
      BY <1>e, <2>1 DEF KatanaInv, AfterBuffer
    <3>6. LighterInv'
      <4>1. Base' = seq
        BY <2>1, <2>3, <3>1 DEF Base
      <4>2. seq + 1 .. seq = {}
        BY <1>t
      <4> QED BY <2>1, <2>3, <3>1, <3>2, <4>1, <4>2 DEF LighterInv
    <3>7. MissingWasSkipped'
      BY <2>1 DEF MissingWasSkipped
    <3> QED BY <3>3, <3>4, <3>5, <3>6, <3>7 DEF FeedInv
  <2>4. CASE venue = "aster"
    <3>1. MarketFeedTypeOK'
      <4>1. /\ wire' \in Seq(Messages) /\ Len(wire') <= MaxWire
            /\ buffer' \in Seq(Updates) /\ Len(buffer') <= BufferMax
        BY <1>t, <1>e, <2>1, <2>2, <2>4
      <4> QED BY <1>0, <2>1, <2>8, <4>1 DEF MarketFeedTypeOK
    <3>2. SeqInv' /\ WireInv' /\ KatanaInv' /\ LighterInv' /\ MissingWasSkipped'
      BY <1>0, <1>e, <2>1, <2>2, <2>4
         DEF SeqInv, WireInv, KatanaInv, LighterInv, MissingWasSkipped
    <3> QED BY <3>1, <3>2 DEF FeedInv
  <2>5. /\ [kind |-> "ack", u |-> seq] \in Messages
        /\ [kind |-> "snapshot", u |-> seq] \in Messages
    BY <1>t DEF Messages
  <2>6. CASE venue = "katana"
    BY <2>2, <2>3, <2>5, <2>6
  <2>7. CASE venue = "lighter"
    BY <2>2, <2>3, <2>5, <2>7
  <2> QED BY <1>t, <2>4, <2>6, <2>7
<1>3. CASE Disconnect
  <2>1. /\ online' = FALSE /\ wire' = <<>>
        /\ UNCHANGED <<venue, moves, hollow, seq, links, book, synced, buffer, last_u, bootstrap,
                       snap, last_book, update_age, row_age, sync_age, skipped>>
    BY <1>3 DEF Disconnect, marketVars, taskVars
  <2>2. MarketFeedTypeOK'
    <3>1. wire' \in Seq(Messages) /\ Len(wire') <= MaxWire
      BY <1>t, <1>e, <2>1
    <3> QED BY <1>0, <2>1, <3>1 DEF MarketFeedTypeOK
  <2>3. SeqInv' /\ WireInv'
    BY <1>0, <1>e, <2>1 DEF SeqInv, WireInv
  <2>4. KatanaInv'
    <3> SUFFICES ASSUME venue = "katana" PROVE KatanaInv'
      BY <2>1 DEF KatanaInv
    <3>1. \A u : InWire(u) => AfterBuffer(u)
      BY <1>0 DEF KatanaInv, InWire
    <3> QED BY <1>0, <1>e, <2>1, <3>1 DEF KatanaInv, InBuffer, AfterBuffer
  <2>5. LighterInv' /\ MissingWasSkipped'
    BY <1>0, <1>e, <2>1 DEF LighterInv, MissingWasSkipped, Missing
  <2> QED BY <2>2, <2>3, <2>4, <2>5 DEF FeedInv
<1> QED BY <1>1, <1>2, <1>3
-----------------------------------------------------------------------------
(* Messages.                                                                 *)

\* What a message that is taken leaves on its way.
LEMMA Rest ==
    ASSUME FeedInv, NEW kind, Receive(kind)
    PROVE  /\ online /\ wire' \in Seq(Messages) /\ Len(wire') \in Nat /\ Len(wire') <= MaxWire
           /\ wire[1].u \in 0 .. MaxSeq /\ wire[1].u <= seq /\ wire[1].kind = kind
           /\ kind = "diff" => wire[1].u \in Updates
           /\ Head(wire) = wire[1] /\ 1 \in 1 .. Len(wire)
           /\ \A i \in 1 .. Len(wire') :
                 /\ wire'[i].u \in 0 .. MaxSeq /\ wire'[i].u <= seq
                 /\ venue = "katana" => wire'[i].kind \in {"ack", "diff"}
                 /\ venue = "lighter" => wire'[i].kind \in {"snapshot", "diff"}
                 /\ venue = "aster" => wire'[i].kind = "frame"
                 /\ wire'[i].kind = "diff" => wire'[i].u # 0
                 /\ venue # "aster" => wire[1].u < wire'[i].u
                 /\ i + 1 \in 1 .. Len(wire) /\ i + 1 # 1 /\ wire'[i] = wire[i + 1]
           /\ venue # "aster" => \A i, j \in 1 .. Len(wire') : i < j => wire'[i].u < wire'[j].u
           /\ \A u : InWire(u) => InWire(u)' \/ (kind = "diff" /\ u = wire[1].u)
<1>0. MarketFeedTypeOK /\ SeqInv /\ WireInv
  BY DEF FeedInv
<1>1. /\ wire' \in Seq(Messages) /\ Len(wire') <= MaxWire
      /\ Len(wire) \in Nat \ {0} /\ Len(wire') = Len(wire) - 1
      /\ wire[1] \in Messages /\ Head(wire) = wire[1] /\ wire[1].kind = kind
      /\ wire[1].u \in 0 .. MaxSeq
      /\ \A i \in 1 .. Len(wire') : i + 1 \in 1 .. Len(wire) /\ wire'[i] = wire[i + 1]
      /\ \A i \in 1 .. Len(wire) : i = 1 \/ (i - 1 \in 1 .. Len(wire') /\ wire'[i - 1] = wire[i])
  BY <1>0, Received
<1>2. online
  BY <1>0 DEF Receive, WireInv
<1>3. \A i \in 1 .. Len(wire) : wire[i].u \in 0 .. MaxSeq /\ wire[i].u <= seq
  BY <1>0, FeedTypes DEF SeqInv
<1>4. 1 \in 1 .. Len(wire) /\ \A i \in 1 .. Len(wire') : 1 < i + 1 /\ i + 1 # 1
  BY <1>1
<1>5. ASSUME NEW i \in 1 .. Len(wire')
      PROVE  /\ wire'[i].u \in 0 .. MaxSeq /\ wire'[i].u <= seq
             /\ venue = "katana" => wire'[i].kind \in {"ack", "diff"}
             /\ venue = "lighter" => wire'[i].kind \in {"snapshot", "diff"}
             /\ venue = "aster" => wire'[i].kind = "frame"
             /\ wire'[i].kind = "diff" => wire'[i].u # 0
             /\ venue # "aster" => wire[1].u < wire'[i].u
             /\ i + 1 \in 1 .. Len(wire) /\ i + 1 # 1 /\ wire'[i] = wire[i + 1]
  BY <1>0, <1>1, <1>3, <1>4 DEF WireInv
<1>6. ASSUME venue # "aster", NEW i \in 1 .. Len(wire'), NEW j \in 1 .. Len(wire'), i < j
      PROVE  wire'[i].u < wire'[j].u
  <2>1. i + 1 < j + 1
    BY <1>6
  <2> QED BY <1>0, <1>5, <1>6, <2>1 DEF WireInv
<1>7. ASSUME NEW u, NEW i \in 1 .. Len(wire), wire[i].kind = "diff", wire[i].u = u
      PROVE  InWire(u)' \/ (kind = "diff" /\ u = wire[1].u)
  <2>1. CASE i = 1
    BY <1>1, <1>7, <2>1
  <2>2. CASE i # 1
    <3>1. i - 1 \in 1 .. Len(wire') /\ wire'[i - 1] = wire[i]
      BY <1>1, <2>2
    <3> QED BY <1>7, <3>1 DEF InWire
  <2> QED BY <2>1, <2>2
<1>8. \A u : InWire(u) => InWire(u)' \/ (kind = "diff" /\ u = wire[1].u)
  BY <1>7 DEF InWire
<1>9. Len(wire') \in Nat
  BY <1>1
<1>10. kind = "diff" => wire[1].u \in Updates
  BY <1>0, <1>1, <1>4, NothingElse DEF WireInv, Updates
<1> QED BY <1>1, <1>2, <1>3, <1>4, <1>5, <1>6, <1>8, <1>9, <1>10

\* How the driver's own state may move: what the type invariant asks of it.
DriverTypes ==
    /\ book \subseteq Updates /\ synced \in BOOLEAN
    /\ buffer \in Seq(Updates) /\ Len(buffer) <= BufferMax
    /\ last_u \in {Nothing} \cup 0 .. MaxSeq
    /\ bootstrap \in {"none", "fetching", "retry"}
    /\ snap \in {Nothing} \cup 0 .. MaxSeq
    /\ last_book \in {Nothing} \cup SUBSET Updates
    /\ update_age \in 0 .. Never /\ sync_age \in 0 .. Never
    /\ skipped \subseteq Updates

LEMMA TypeKept ==
    ASSUME MarketFeedTypeOK, DriverTypes', UNCHANGED <<marketVars, seq, connVars, row_age>>,
           wire' \in Seq(Messages), Len(wire') <= MaxWire
    PROVE  MarketFeedTypeOK'
  BY DEF MarketFeedTypeOK, DriverTypes, marketVars, connVars

\* A book that is shown or kept is one the venue has had.
LEMMA ShownType ==
    ASSUME FeedInv, NEW updates, updates \subseteq BookOf(seq), NEW u \in 0 .. MaxSeq,
           Applied(updates, u)
    PROVE  /\ book' = updates /\ last_u' = u /\ synced' = TRUE
           /\ update_age' = 0 /\ sync_age' = 0 /\ 0 \in 0 .. Never
           /\ last_book' = last_book \/ last_book' = updates
           /\ updates \subseteq Updates
           /\ last_book' \in {Nothing} \cup SUBSET Updates
           /\ last_book' # Nothing => last_book' \subseteq BookOf(seq)
<1>1. updates \subseteq Updates /\ 0 \in 0 .. Never
  BY FeedTypes, NothingElse DEF BookOf, Updates, Never
<1>2. last_book' = last_book \/ last_book' = updates
  BY DEF Applied, EmitBook
<1>3. /\ last_book \in {Nothing} \cup SUBSET Updates
      /\ last_book # Nothing => last_book \subseteq BookOf(seq)
  BY FeedTypes DEF FeedInv, SeqInv
<1> QED BY <1>1, <1>2, <1>3 DEF Applied

LEMMA AckStep == ASSUME FeedInv, KatanaAck PROVE FeedInv'
<1>0. /\ MarketFeedTypeOK /\ SeqInv /\ WireInv /\ KatanaInv /\ LighterInv /\ MissingWasSkipped
  BY DEF FeedInv
<1>1. /\ Receive("ack") /\ snap' = snap
      /\ bootstrap' \in {"none", "fetching", "retry"}
      /\ bootstrap' = bootstrap \/ (~synced /\ bootstrap = "none" /\ bootstrap' = "fetching")
      /\ UNCHANGED <<venue, moves, hollow, seq, online, links, book, synced, buffer, last_u,
                     last_book, update_age, row_age, sync_age, skipped>>
  BY <1>0 DEF KatanaAck, ScheduleBootstrap, marketVars, connVars, taskVars, MarketFeedTypeOK
<1>2. venue = "katana"
  <2>1. 1 \in 1 .. Len(wire) /\ wire[1].kind = "ack"
    BY <1>1, Rest
  <2> QED BY <1>0, <2>1, FeedTypes DEF WireInv
<1>3. MarketFeedTypeOK'
  BY <1>0, <1>1, Rest DEF MarketFeedTypeOK
<1>4. SeqInv' /\ WireInv'
  BY <1>0, <1>1, <1>2, Rest DEF SeqInv, WireInv
<1>5. KatanaInv'
  <2>1. \A u : InWire(u) => InWire(u)'
    BY <1>1, Rest
  <2>2. \A i \in 1 .. Len(wire') : AfterBuffer(wire'[i].u)
    BY <1>0, <1>1, <1>2, Rest DEF KatanaInv
  <2> QED BY <1>0, <1>1, <1>2, <2>1, <2>2 DEF KatanaInv, InBuffer, AfterBuffer
<1>6. LighterInv' /\ MissingWasSkipped'
  BY <1>0, <1>1, <1>2 DEF LighterInv, MissingWasSkipped, Missing
<1> QED BY <1>3, <1>4, <1>5, <1>6 DEF FeedInv

LEMMA Shifted ==
    ASSUME NEW n \in Nat \ {0}
    PROVE  /\ n \in 1 .. n
           /\ \A i \in 1 .. n : i = n \/ (i \in 1 .. n - 1 /\ i + 1 \in 1 .. n)
           /\ \A i \in 1 .. n : i = 1 \/ (i - 1 \in 1 .. n - 1 /\ i - 1 \in 1 .. n
                                        /\ (i - 1) + 1 = i)
  OBVIOUS

\* A diff that is kept for the bootstrap.
LEMMA KeepStep ==
    ASSUME FeedInv, NEW u \in Updates, Keep(u)
    PROVE  /\ buffer' \in Seq(Updates) /\ Len(buffer') \in Nat /\ Len(buffer') <= BufferMax
           /\ skipped \subseteq skipped' /\ skipped' \subseteq Updates
           /\ \A i \in 1 .. Len(buffer') :
                 buffer'[i] = u \/ \E j \in 1 .. Len(buffer) : buffer'[i] = buffer[j]
           /\ InBuffer(u)'
           /\ \A n : InBuffer(n) => InBuffer(n)' \/ snap = Nothing \/ n \in skipped'
<1>0. /\ buffer \in Seq(Updates) /\ Len(buffer) \in Nat /\ Len(buffer) <= BufferMax
      /\ skipped \subseteq Updates /\ BufferMax \in Nat \ {0}
  BY FeedTypes, MarketFeedAssumption
<1>1. CASE Len(buffer) < BufferMax
  <2>1. buffer' = Append(buffer, u) /\ skipped' = skipped
    BY <1>1 DEF Keep
  <2>2. /\ buffer' \in Seq(Updates) /\ Len(buffer') = Len(buffer) + 1
        /\ \A i \in 1 .. Len(buffer) : buffer'[i] = buffer[i]
        /\ buffer'[Len(buffer) + 1] = u
    BY <1>0, <2>1, AppendOf
  <2>3. /\ Len(buffer) + 1 \in 1 .. Len(buffer')
        /\ \A i \in 1 .. Len(buffer) : i \in 1 .. Len(buffer')
        /\ \A i \in 1 .. Len(buffer') : i \in 1 .. Len(buffer) \/ i = Len(buffer) + 1
        /\ Len(buffer') <= BufferMax /\ Len(buffer') \in Nat
    BY <1>0, <1>1, <2>2
  <2>4. InBuffer(u)' /\ \A n : InBuffer(n) => InBuffer(n)'
    BY <2>2, <2>3 DEF InBuffer
  <2> QED BY <1>0, <2>1, <2>2, <2>3, <2>4
<1>2. CASE ~ (Len(buffer) < BufferMax)
  <2>1. /\ buffer' = Append(Tail(buffer), u) /\ buffer # <<>>
        /\ skipped' = IF snap = Nothing THEN skipped ELSE skipped \cup {Head(buffer)}
    <3>1. Len(buffer) # 0
      BY <1>0, <1>2
    <3>2. Len(<<>>) = 0
      OBVIOUS
    <3> QED BY <1>2, <3>1, <3>2 DEF Keep
  <2>2. /\ Tail(buffer) \in Seq(Updates) /\ Len(Tail(buffer)) = Len(buffer) - 1
        /\ Head(buffer) = buffer[1] /\ Head(buffer) \in Updates
        /\ \A i \in 1 .. Len(buffer) - 1 : Tail(buffer)[i] = buffer[i + 1]
        /\ Len(buffer) \in Nat \ {0}
    BY <1>0, <2>1, TailOf
  <2>3. /\ buffer' \in Seq(Updates) /\ Len(buffer') = Len(Tail(buffer)) + 1
        /\ \A i \in 1 .. Len(Tail(buffer)) : buffer'[i] = Tail(buffer)[i]
        /\ buffer'[Len(Tail(buffer)) + 1] = u
    BY <2>1, <2>2, AppendOf
  <2>4. /\ Len(buffer') = Len(buffer) /\ buffer'[Len(buffer)] = u
        /\ \A i \in 1 .. Len(buffer) - 1 : buffer'[i] = buffer[i + 1]
    BY <2>2, <2>3
  <2>5. /\ Len(buffer) \in 1 .. Len(buffer')
        /\ \A i \in 1 .. Len(buffer') : i = Len(buffer)
              \/ (i \in 1 .. Len(buffer) - 1 /\ i + 1 \in 1 .. Len(buffer))
        /\ \A i \in 1 .. Len(buffer) : i = 1
              \/ (i - 1 \in 1 .. Len(buffer) - 1 /\ i - 1 \in 1 .. Len(buffer') /\ (i - 1) + 1 = i)
    <3>1. Len(buffer') = Len(buffer) /\ Len(buffer) \in Nat \ {0}
      BY <2>2, <2>4
    <3> QED BY <3>1, Shifted
  <2>6. ASSUME NEW n, NEW i \in 1 .. Len(buffer), buffer[i] = n
        PROVE  InBuffer(n)' \/ snap = Nothing \/ n \in skipped'
    <3>1. CASE i = 1
      BY <2>1, <2>2, <2>6, <3>1
    <3>2. CASE i # 1
      <4>1. i - 1 \in 1 .. Len(buffer') /\ buffer'[i - 1] = buffer[i]
        BY <2>4, <2>5, <3>2
      <4> QED BY <2>6, <4>1 DEF InBuffer
    <3> QED BY <3>1, <3>2
  <2>7. InBuffer(u)' /\ \A n : InBuffer(n) => InBuffer(n)' \/ snap = Nothing \/ n \in skipped'
    BY <2>4, <2>5, <2>6 DEF InBuffer
  <2>8. skipped \subseteq skipped' /\ skipped' \subseteq Updates
    BY <1>0, <2>1, <2>2
  <2>9. \A i \in 1 .. Len(buffer') :
            buffer'[i] = u \/ \E j \in 1 .. Len(buffer) : buffer'[i] = buffer[j]
    BY <2>4, <2>5
  <2>10. Len(buffer') \in Nat /\ Len(buffer') <= BufferMax
    BY <1>0, <2>4
  <2> QED BY <2>3, <2>7, <2>8, <2>9, <2>10
<1> QED BY <1>1, <1>2
LEMMA DiffStep == ASSUME FeedInv, KatanaDiff PROVE FeedInv'
<1>0. /\ MarketFeedTypeOK /\ SeqInv /\ WireInv /\ KatanaInv /\ LighterInv /\ MissingWasSkipped
  BY DEF FeedInv
<1> DEFINE u == wire[1].u
<1>1. /\ venue = "katana" /\ Receive("diff") /\ OnDiff(u)
      /\ UNCHANGED <<venue, moves, hollow, seq, online, links, row_age>>
      /\ online /\ u \in Updates /\ u \in 0 .. MaxSeq /\ u <= seq
  BY Rest DEF KatanaDiff, marketVars, connVars
<1>2. /\ wire' \in Seq(Messages) /\ Len(wire') <= MaxWire
      /\ \A i \in 1 .. Len(wire') :
            /\ wire'[i].u \in 0 .. MaxSeq /\ wire'[i].u <= seq /\ u < wire'[i].u
            /\ i + 1 \in 1 .. Len(wire) /\ wire'[i] = wire[i + 1]
      /\ \A n : InWire(n) => InWire(n)' \/ n = u
  BY <1>1, Rest
<1>w. ASSUME bootstrap' \in {"none", "fetching", "retry"},
             snap' # Nothing => bootstrap' = "fetching"
      PROVE  WireInv'
  BY <1>0, <1>1, <1>w, Rest DEF WireInv
<1> HIDE DEF u
<1>t. /\ seq \in 0 .. MaxSeq /\ book \subseteq Updates /\ last_u \in {Nothing} \cup 0 .. MaxSeq
      /\ \A i \in 1 .. Len(buffer) : buffer[i] \in 1 .. MaxSeq
  BY FeedTypes
<1>l. LighterInv'
  BY <1>1 DEF LighterInv
<1>3. CASE synced /\ u <= last_u + 1
  <2>1. /\ UNCHANGED <<buffer, skipped, bootstrap, snap>> /\ snap = Nothing
        /\ last_u \in 0 .. MaxSeq /\ last_u <= seq
    BY <1>0, <1>1, <1>3, <1>t DEF OnDiff, taskVars, SeqInv, WireInv, KatanaInv
  <2>2. \/ UNCHANGED <<book, last_u, synced, update_age, sync_age, last_book>>
        \/ u = last_u + 1 /\ Applied(book \cup {u}, u)
    <3>1. \/ UNCHANGED <<book, last_u, synced, update_age, sync_age, last_book>>
          \/ ~ (u <= last_u) /\ Applied(book \cup {u}, u)
      BY <1>1, <1>3 DEF OnDiff
    <3>2. ~ (u <= last_u) => u = last_u + 1
      BY <1>1, <1>3, <2>1
    <3> QED BY <3>1, <3>2
  <2>3. KatanaInv'
    <3>1. \A i \in 1 .. Len(wire') : AfterBuffer(wire'[i].u)
      BY <1>0, <1>1, <1>2 DEF KatanaInv
    <3>2. bootstrap = "none"
      BY <1>0, <1>1, <1>3 DEF KatanaInv
    <3> QED BY <1>1, <2>1, <3>1, <3>2 DEF KatanaInv, AfterBuffer
  <2>4. WireInv'
    BY <1>0, <1>w, <2>1 DEF MarketFeedTypeOK
  <2>5. CASE UNCHANGED <<book, last_u, synced, update_age, sync_age, last_book>>
    <3>1. MarketFeedTypeOK'
      BY <1>0, <1>1, <1>2, <2>1, <2>5 DEF MarketFeedTypeOK
    <3>2. SeqInv' /\ MissingWasSkipped'
      BY <1>0, <1>1, <1>2, <2>1, <2>5 DEF SeqInv, MissingWasSkipped, Missing
    <3> QED BY <1>l, <2>3, <2>4, <3>1, <3>2 DEF FeedInv
  <2>6. CASE u = last_u + 1 /\ Applied(book \cup {u}, u)
    <3> DEFINE updates == book \cup {u}
    <3>1. updates \subseteq BookOf(seq) /\ updates \subseteq Updates
      BY <1>0, <1>1, <1>t DEF SeqInv, BookOf, Updates
    <3>2. /\ book' = updates /\ last_u' = u /\ synced' = TRUE
          /\ update_age' = 0 /\ sync_age' = 0 /\ 0 \in 0 .. Never
          /\ last_book' \in {Nothing} \cup SUBSET Updates
          /\ last_book' # Nothing => last_book' \subseteq BookOf(seq)
      BY <1>1, <2>6, <3>1, ShownType
    <3>3. MarketFeedTypeOK'
      BY <1>0, <1>1, <1>2, <2>1, <3>1, <3>2 DEF MarketFeedTypeOK
    <3>4. SeqInv'
      BY <1>0, <1>1, <1>2, <2>1, <3>1, <3>2, NothingElse DEF SeqInv
    <3>5. MissingWasSkipped'
      <4>1. Missing \subseteq skipped
        BY <1>0, <1>3 DEF MissingWasSkipped
      <4>2. BookOf(u) \ updates \subseteq BookOf(last_u) \ book
        BY <2>1, <2>6 DEF BookOf
      <4> QED BY <2>1, <3>2, <4>1, <4>2 DEF MissingWasSkipped, Missing
    <3> QED BY <1>l, <2>3, <2>4, <3>3, <3>4, <3>5 DEF FeedInv
  <2> QED BY <2>2, <2>5, <2>6
<1>4. CASE ~ (synced /\ u <= last_u + 1)
  <2>1. /\ synced' = FALSE /\ Keep(u) /\ snap' = snap
        /\ bootstrap' \in {"fetching", "retry"} /\ (snap # Nothing => bootstrap' = "fetching")
        /\ UNCHANGED <<book, last_u, update_age, sync_age, last_book>>
    BY <1>0, <1>1, <1>4 DEF OnDiff, ScheduleBootstrap, WireInv, MarketFeedTypeOK
  <2>2. /\ buffer' \in Seq(Updates) /\ Len(buffer') \in Nat /\ Len(buffer') <= BufferMax
        /\ skipped \subseteq skipped' /\ skipped' \subseteq Updates
        /\ \A i \in 1 .. Len(buffer') :
              buffer'[i] = u \/ \E j \in 1 .. Len(buffer) : buffer'[i] = buffer[j]
        /\ \E i \in 1 .. Len(buffer') : buffer'[i] = u
        /\ \A n : InBuffer(n) => InBuffer(n)' \/ snap = Nothing \/ n \in skipped'
    <3>1. PICK v \in Updates : v = u
      BY <1>1
    <3>2. Keep(v)
      BY <2>1, <3>1
    <3>3. /\ \A i \in 1 .. Len(buffer') :
                buffer'[i] = v \/ \E j \in 1 .. Len(buffer) : buffer'[i] = buffer[j]
          /\ InBuffer(v)'
          /\ \A n : InBuffer(n) => InBuffer(n)' \/ snap = Nothing \/ n \in skipped'
          /\ buffer' \in Seq(Updates) /\ Len(buffer') \in Nat /\ Len(buffer') <= BufferMax
          /\ skipped \subseteq skipped' /\ skipped' \subseteq Updates
      BY <3>2, KeepStep
    <3>4. \E i \in 1 .. Len(buffer') : buffer'[i] = v
      BY <3>3 DEF InBuffer
    <3> QED BY <3>1, <3>3, <3>4
  <2>3. MarketFeedTypeOK'
    BY <1>0, <1>1, <1>2, <2>1, <2>2 DEF MarketFeedTypeOK
  <2>4. SeqInv'
    <3>1. \A i \in 1 .. Len(buffer') : buffer'[i] <= seq
      BY <1>0, <1>1, <2>2 DEF SeqInv
    <3> QED BY <1>0, <1>1, <1>2, <2>1, <3>1 DEF SeqInv
  <2>5. WireInv'
    BY <1>0, <1>w, <2>1 DEF WireInv
  <2>6. KatanaInv'
    <3>1. ASSUME NEW i \in 1 .. Len(wire'), NEW j \in 1 .. Len(buffer')
          PROVE  buffer'[j] < wire'[i].u
      <4>1. AfterBuffer(wire'[i].u)
        BY <1>0, <1>1, <1>2 DEF KatanaInv
      <4> QED BY <1>2, <2>2, <4>1 DEF AfterBuffer
    <3>2. ASSUME snap # Nothing, NEW n \in snap + 1 .. seq
          PROVE  n \in skipped' \/ InBuffer(n)' \/ InWire(n)'
      <4>1. n \in skipped \/ InBuffer(n) \/ InWire(n)
        BY <1>0, <1>1, <3>2 DEF KatanaInv
      <4>2. CASE n = u
        BY <2>2, <4>2 DEF InBuffer
      <4> QED BY <1>2, <2>2, <3>2, <4>1, <4>2
    <3> QED BY <1>1, <2>1, <3>1, <3>2 DEF KatanaInv, AfterBuffer
  <2>7. MissingWasSkipped'
    BY <2>1 DEF MissingWasSkipped
  <2> QED BY <1>l, <2>3, <2>4, <2>5, <2>6, <2>7 DEF FeedInv
<1> QED BY <1>3, <1>4
\* The bootstrap: a snapshot is taken, fails, is asked for again, or ends it.
LEMMA BootstrapStep ==
    ASSUME FeedInv, SnapshotTaken \/ SnapshotFails \/ SnapshotRetry \/ BootstrapEnds
    PROVE  FeedInv'
<1>0. /\ MarketFeedTypeOK /\ SeqInv /\ WireInv /\ KatanaInv /\ LighterInv /\ MissingWasSkipped
  BY DEF FeedInv
<1>t. /\ seq \in 0 .. MaxSeq /\ snap \in {Nothing} \cup 0 .. MaxSeq
      /\ \A i \in 1 .. Len(buffer) : buffer[i] \in Updates /\ buffer[i] \in 1 .. MaxSeq
      /\ DOMAIN buffer = 1 .. Len(buffer)
  <2>1. buffer \in Seq(Updates)
    BY FeedTypes
  <2>2. DOMAIN buffer = 1 .. Len(buffer)
    BY <2>1
  <2> QED BY <2>2, FeedTypes
<1>k. bootstrap # "none" => venue = "katana" /\ ~synced
  BY <1>0 DEF WireInv, KatanaInv
<1>1. CASE SnapshotTaken
  <2>1. /\ bootstrap = "fetching" /\ snap' = seq /\ seq # Nothing
        /\ UNCHANGED <<venue, moves, hollow, seq, online, links, wire, book, synced, buffer,
                       last_u, bootstrap, last_book, update_age, row_age, sync_age, skipped>>
    BY <1>1, <1>t, NothingElse DEF SnapshotTaken, marketVars, connVars
  <2>2. MarketFeedTypeOK'
    BY <1>0, <1>t, <2>1 DEF MarketFeedTypeOK
  <2>3. SeqInv' /\ WireInv' /\ LighterInv' /\ MissingWasSkipped'
    BY <1>0, <1>k, <1>t, <2>1
       DEF SeqInv, WireInv, LighterInv, InWire, Base, MissingWasSkipped, Missing
  <2>4. KatanaInv'
    <3>1. seq + 1 .. seq = {}
      BY <1>t
    <3> QED BY <1>0, <2>1, <3>1 DEF KatanaInv, AfterBuffer
  <2> QED BY <2>2, <2>3, <2>4 DEF FeedInv
<1>2. CASE SnapshotFails \/ SnapshotRetry
  <2>1. /\ bootstrap # "none" /\ bootstrap' \in {"fetching", "retry"}
        /\ snap' = Nothing
        /\ UNCHANGED <<venue, moves, hollow, seq, online, links, wire, book, synced, buffer,
                       last_u, last_book, update_age, row_age, sync_age, skipped>>
    BY <1>0, <1>2 DEF SnapshotFails, SnapshotRetry, WireInv, marketVars, connVars
  <2>2. MarketFeedTypeOK'
    BY <1>0, <2>1 DEF MarketFeedTypeOK
  <2>3. SeqInv' /\ WireInv' /\ LighterInv' /\ MissingWasSkipped'
    BY <1>0, <1>k, <2>1 DEF SeqInv, WireInv, LighterInv, MissingWasSkipped, Missing
  <2>4. KatanaInv'
    BY <1>0, <1>k, <2>1 DEF KatanaInv, AfterBuffer
  <2> QED BY <2>2, <2>3, <2>4 DEF FeedInv
<1>3. CASE BootstrapEnds
  <2>1. PICK last \in {snap} \cup Later(snap) :
            /\ \A u \in Later(snap) : u <= last
            /\ Applied(BookOf(snap) \cup Later(snap), last)
    BY <1>3 DEF BootstrapEnds
  <2>2. /\ bootstrap = "fetching" /\ snap # Nothing /\ buffer' = <<>>
        /\ bootstrap' = "none" /\ snap' = Nothing
        /\ UNCHANGED <<venue, moves, hollow, seq, online, links, wire, row_age, skipped>>
    BY <1>3 DEF BootstrapEnds, marketVars, connVars
  <2>3. /\ snap \in 0 .. MaxSeq /\ snap <= seq
        /\ \A u \in Later(snap) : u \in Updates /\ u <= seq /\ u \in 0 .. MaxSeq
        /\ \A u : InBuffer(u) /\ u > snap => u \in Later(snap)
        /\ \A u \in Later(snap) : \E i \in 1 .. Len(buffer) : buffer[i] = u
    <3>1. snap \in 0 .. MaxSeq /\ snap <= seq
      BY <1>0, <1>t, <2>2 DEF SeqInv
    <3>2. \A u \in Later(snap) : \E i \in 1 .. Len(buffer) : buffer[i] = u
      BY <1>t DEF Later
    <3>3. \A u \in Later(snap) : u \in Updates /\ u <= seq /\ u \in 0 .. MaxSeq
      BY <1>0, <1>t, <3>2 DEF SeqInv
    <3>4. \A u : InBuffer(u) /\ u > snap => u \in Later(snap)
      BY <1>t DEF InBuffer, Later
    <3> QED BY <3>1, <3>2, <3>3, <3>4
  <2> DEFINE updates == BookOf(snap) \cup Later(snap)
  <2>4. last \in 0 .. MaxSeq /\ last <= seq
    BY <2>1, <2>3
  <2>5. updates \subseteq BookOf(seq)
    <3>1. BookOf(snap) \subseteq BookOf(seq)
      BY <1>t, <2>3 DEF BookOf
    <3>2. Later(snap) \subseteq BookOf(seq)
      BY <1>t, <2>3 DEF BookOf, Updates
    <3> QED BY <3>1, <3>2
  <2>6. /\ book' = updates /\ last_u' = last /\ synced' = TRUE
        /\ update_age' = 0 /\ sync_age' = 0 /\ 0 \in 0 .. Never
        /\ updates \subseteq Updates
        /\ last_book' \in {Nothing} \cup SUBSET Updates
        /\ last_book' # Nothing => last_book' \subseteq BookOf(seq)
    BY <2>1, <2>4, <2>5, ShownType
  <2> HIDE DEF updates
  <2>e. /\ <<>> \in Seq(Updates) /\ Len(<<>>) = 0 /\ 1 .. 0 = {} /\ 0 <= BufferMax
    BY EmptyOf, MarketFeedAssumption
  <2>7. MarketFeedTypeOK'
    BY <1>0, <2>2, <2>4, <2>6, <2>e DEF MarketFeedTypeOK
  <2>8. SeqInv'
    BY <1>0, <2>2, <2>4, <2>5, <2>6, <2>e, NothingElse DEF SeqInv
  <2>9. WireInv' /\ LighterInv'
    BY <1>0, <1>k, <2>2 DEF WireInv, LighterInv
  <2>10. KatanaInv'
    BY <2>2, <2>e DEF KatanaInv, AfterBuffer
  <2>11. MissingWasSkipped'
    <3> SUFFICES ASSUME NEW u \in BookOf(last) \ updates PROVE u \in skipped
      BY <2>2, <2>6 DEF MissingWasSkipped, Missing
    <3>1. /\ u \in Int /\ u <= last /\ u > snap /\ u \notin Later(snap)
          /\ u \in snap + 1 .. seq
      BY <1>t, <2>3, <2>4 DEF BookOf, updates
    <3>2. last \in Later(snap) /\ \E i \in 1 .. Len(buffer) : buffer[i] = last
      BY <2>1, <2>3, <3>1
    <3>3. ~AfterBuffer(u)
      BY <2>4, <3>1, <3>2 DEF AfterBuffer
    <3>4. ~InWire(u)
      BY <1>0, <1>k, <2>2, <3>3 DEF InWire, KatanaInv
    <3>5. ~InBuffer(u)
      BY <2>3, <3>1
    <3> QED BY <1>0, <1>k, <2>2, <3>1, <3>3, <3>4, <3>5 DEF KatanaInv
  <2> QED BY <2>7, <2>8, <2>9, <2>10, <2>11 DEF FeedInv
<1> QED BY <1>1, <1>2, <1>3
LEMMA LighterStep == ASSUME FeedInv, LighterSnapshot \/ LighterDiff PROVE FeedInv'
<1>0. /\ MarketFeedTypeOK /\ SeqInv /\ WireInv /\ KatanaInv /\ LighterInv /\ MissingWasSkipped
  BY DEF FeedInv
<1> DEFINE u == wire[1].u
<1>1. PICK kind \in {"snapshot", "diff"}, updates \in {BookOf(u), book \cup {u}} :
          /\ Receive(kind) /\ Applied(updates, u)
          /\ kind = "snapshot" => updates = BookOf(u)
          /\ kind = "diff" => venue = "lighter" /\ updates = book \cup {u}
  <2>1. CASE LighterSnapshot
    <3>1. Receive("snapshot") /\ Applied(BookOf(Head(wire).u), Head(wire).u)
      BY <2>1 DEF LighterSnapshot
    <3>2. Head(wire) = wire[1]
      BY <3>1, Rest
    <3> QED BY <3>1, <3>2
  <2>2. CASE LighterDiff
    <3>1. /\ Receive("diff") /\ venue = "lighter"
          /\ Applied(book \cup {Head(wire).u}, Head(wire).u)
      BY <2>2 DEF LighterDiff
    <3>2. Head(wire) = wire[1]
      BY <3>1, Rest
    <3> QED BY <3>1, <3>2
  <2> QED BY <2>1, <2>2
<1>2. UNCHANGED <<venue, moves, hollow, seq, online, links, buffer, bootstrap, snap, row_age,
                  skipped>>
  BY DEF LighterSnapshot, LighterDiff, marketVars, connVars, taskVars
<1>3. /\ online /\ wire' \in Seq(Messages) /\ Len(wire') <= MaxWire
      /\ u \in 0 .. MaxSeq /\ u <= seq /\ wire[1].kind = kind /\ 1 \in 1 .. Len(wire)
      /\ kind = "diff" => u \in Updates
      /\ \A n : InWire(n) => InWire(n)' \/ (kind = "diff" /\ n = u)
  BY <1>1, Rest
<1>4. venue = "lighter"
  BY <1>0, <1>1, <1>3, FeedTypes DEF WireInv
<1>5. \A i \in 1 .. Len(wire') :
          /\ wire'[i].u \in 0 .. MaxSeq /\ wire'[i].u <= seq /\ u < wire'[i].u
          /\ wire'[i].kind # "snapshot"
  BY <1>0, <1>1, <1>4, Rest DEF LighterInv
<1>6. WireInv'
  BY <1>0, <1>1, <1>2, <1>4, Rest DEF WireInv
<1> HIDE DEF u
<1>t. /\ seq \in 0 .. MaxSeq /\ book \subseteq Updates /\ book \subseteq BookOf(seq)
      /\ last_u \in {Nothing} \cup 0 .. MaxSeq
  BY <1>0, FeedTypes DEF SeqInv
<1>7. /\ kind = "snapshot" => ~synced
      /\ kind = "diff" => synced /\ last_u \in 0 .. MaxSeq
      /\ Base = IF kind = "snapshot" THEN u ELSE last_u
      /\ Base < u \/ kind = "snapshot"
      /\ \A n \in Base + 1 .. seq : n \in skipped \/ InWire(n)
  <2>1. kind = "snapshot" => ~synced
    BY <1>0, <1>3, <1>4 DEF LighterInv
  <2>2. kind = "diff" => synced /\ last_u < u
    BY <1>0, <1>3, <1>4 DEF LighterInv, u
  <2>3. kind = "diff" => last_u \in 0 .. MaxSeq
    BY <1>0, <1>t, <2>2 DEF SeqInv
  <2>4. Base = IF kind = "snapshot" THEN u ELSE last_u
    BY <1>1, <2>1, <2>2 DEF Base, u
  <2>5. \A n \in Base + 1 .. seq : n \in skipped \/ InWire(n)
    BY <1>0, <1>3, <1>4 DEF LighterInv
  <2> QED BY <1>1, <2>1, <2>2, <2>3, <2>4, <2>5
<1>8. updates \subseteq BookOf(seq)
  <2>1. CASE updates = BookOf(u)
    BY <1>3, <1>t, <2>1 DEF BookOf
  <2>2. CASE kind = "diff" /\ updates = book \cup {u}
    BY <1>3, <1>t, <2>2 DEF BookOf, Updates
  <2> QED BY <1>1, <2>1, <2>2
<1>9. /\ book' = updates /\ last_u' = u /\ synced' = TRUE
      /\ update_age' = 0 /\ sync_age' = 0 /\ 0 \in 0 .. Never
      /\ updates \subseteq Updates
      /\ last_book' \in {Nothing} \cup SUBSET Updates
      /\ last_book' # Nothing => last_book' \subseteq BookOf(seq)
  BY <1>1, <1>3, <1>8, ShownType
<1>10. MarketFeedTypeOK'
  BY <1>0, <1>2, <1>3, <1>9 DEF MarketFeedTypeOK
<1>11. SeqInv'
  BY <1>0, <1>2, <1>3, <1>5, <1>8, <1>9, NothingElse DEF SeqInv
<1>12. KatanaInv'
  BY <1>2, <1>4 DEF KatanaInv
<1>13. ASSUME NEW n \in u + 1 .. seq PROVE n \in skipped \/ InWire(n)'
  <2>1. n \in Base + 1 .. seq /\ n # u
    BY <1>1, <1>3, <1>7, <1>t, <1>13
  <2> QED BY <1>3, <1>7, <2>1
<1>14. LighterInv'
  <2>1. Base' = u
    BY <1>9 DEF Base
  <2> QED BY <1>2, <1>3, <1>5, <1>9, <1>13, <2>1 DEF LighterInv
<1>15. MissingWasSkipped'
  <2>1. CASE kind = "snapshot"
    BY <1>1, <1>9, <2>1 DEF MissingWasSkipped, Missing
  <2>2. CASE kind = "diff"
    <3> SUFFICES ASSUME NEW n \in BookOf(u) \ updates PROVE n \in skipped
      BY <1>2, <1>9 DEF MissingWasSkipped, Missing
    <3>1. n \in 1 .. u /\ n # u /\ n \notin book
      BY <1>1, <2>2 DEF BookOf
    <3>2. CASE n <= last_u
      <4>1. n \in BookOf(last_u)
        BY <1>3, <1>7, <2>2, <3>1, <3>2 DEF BookOf
      <4> QED BY <1>0, <1>7, <2>2, <3>1, <4>1 DEF MissingWasSkipped, Missing
    <3>3. CASE ~ (n <= last_u)
      <4>1. n \in Base + 1 .. seq
        BY <1>3, <1>7, <1>t, <2>2, <3>1, <3>3
      <4>2. ~InWire(n)'
        BY <1>3, <1>5, <3>1 DEF InWire
      <4> QED BY <1>3, <1>7, <3>1, <4>1, <4>2
    <3> QED BY <3>2, <3>3
  <2> QED BY <1>1, <2>1, <2>2
<1> QED BY <1>6, <1>10, <1>11, <1>12, <1>14, <1>15 DEF FeedInv

LEMMA FrameStep == ASSUME FeedInv, AsterFrame PROVE FeedInv'
<1>0. /\ MarketFeedTypeOK /\ SeqInv /\ WireInv /\ KatanaInv /\ LighterInv /\ MissingWasSkipped
  BY DEF FeedInv
<1> DEFINE u == wire[1].u
<1>1. /\ Receive("frame")
      /\ UNCHANGED <<venue, moves, hollow, seq, online, links, buffer, bootstrap, snap, row_age,
                     skipped>>
  BY DEF AsterFrame, marketVars, connVars, taskVars
<1>2. /\ online /\ wire' \in Seq(Messages) /\ Len(wire') <= MaxWire
      /\ u \in 0 .. MaxSeq /\ u <= seq /\ Head(wire) = wire[1]
      /\ wire[1].kind = "frame" /\ 1 \in 1 .. Len(wire)
      /\ \A i \in 1 .. Len(wire') : wire'[i].u <= seq
  BY <1>1, Rest
<1>3. venue = "aster"
  BY <1>0, <1>2, FeedTypes DEF WireInv
<1>4. \/ UNCHANGED <<book, last_u, synced, update_age, sync_age, last_book>>
      \/ Applied(BookOf(u), u)
  BY <1>2 DEF AsterFrame
<1>5. WireInv'
  BY <1>0, <1>1, <1>3, Rest DEF WireInv
<1>6. KatanaInv' /\ LighterInv'
  BY <1>1, <1>3 DEF KatanaInv, LighterInv
<1> HIDE DEF u
<1>7. CASE UNCHANGED <<book, last_u, synced, update_age, sync_age, last_book>>
  <2>1. MarketFeedTypeOK'
    BY <1>0, <1>1, <1>2, <1>7 DEF MarketFeedTypeOK
  <2>2. SeqInv' /\ MissingWasSkipped'
    BY <1>0, <1>1, <1>2, <1>7 DEF SeqInv, MissingWasSkipped, Missing
  <2> QED BY <1>5, <1>6, <2>1, <2>2 DEF FeedInv
<1>8. CASE Applied(BookOf(u), u)
  <2>1. BookOf(u) \subseteq BookOf(seq)
    BY <1>2, FeedTypes DEF BookOf
  <2>2. /\ book' = BookOf(u) /\ last_u' = u /\ synced' = TRUE
        /\ update_age' = 0 /\ sync_age' = 0 /\ 0 \in 0 .. Never
        /\ BookOf(u) \subseteq Updates
        /\ last_book' \in {Nothing} \cup SUBSET Updates
        /\ last_book' # Nothing => last_book' \subseteq BookOf(seq)
    BY <1>2, <1>8, <2>1, ShownType
  <2>3. MarketFeedTypeOK'
    BY <1>0, <1>1, <1>2, <2>2 DEF MarketFeedTypeOK
  <2>4. SeqInv'
    BY <1>0, <1>1, <1>2, <2>1, <2>2, NothingElse DEF SeqInv
  <2>5. MissingWasSkipped'
    BY <2>2 DEF MissingWasSkipped, Missing
  <2> QED BY <1>5, <1>6, <2>3, <2>4, <2>5 DEF FeedInv
<1> QED BY <1>4, <1>7, <1>8

LEMMA ClockStep == ASSUME FeedInv, Tick \/ Evaluate PROVE FeedInv'
<1>0. /\ MarketFeedTypeOK /\ SeqInv /\ WireInv /\ KatanaInv /\ LighterInv /\ MissingWasSkipped
  BY DEF FeedInv
<1>1. UNCHANGED <<venue, moves, hollow, seq, online, links, wire, book, synced, buffer, last_u,
                  bootstrap, snap, last_book, skipped>>
  BY DEF Tick, Evaluate, marketVars, connVars, taskVars
<1>2. /\ update_age' \in 0 .. Never /\ sync_age' \in 0 .. Never
      /\ row_age' \in {Nothing} \cup 0 .. Never
  <2>1. /\ update_age \in 0 .. Never /\ sync_age \in 0 .. Never /\ Never \in Nat
    BY <1>0, NothingElse DEF MarketFeedTypeOK, Never
  <2> HIDE DEF Never
  <2> QED BY <2>1 DEF Tick, Evaluate
<1>3. MarketFeedTypeOK'
  BY <1>0, <1>1, <1>2 DEF MarketFeedTypeOK
<1>4. SeqInv' /\ WireInv' /\ KatanaInv' /\ LighterInv' /\ MissingWasSkipped'
  BY <1>0, <1>1 DEF SeqInv, WireInv, KatanaInv, LighterInv, MissingWasSkipped, Missing, InWire,
                    InBuffer, AfterBuffer, Base
<1> QED BY <1>3, <1>4 DEF FeedInv

\* The feed's invariant holds in every reachable state.
LEMMA FeedInvariant == MarketFeedSpec => []FeedInv
<1>1. FeedInv /\ [MarketFeedNext]_feedVars => FeedInv'
  <2> SUFFICES ASSUME FeedInv, [MarketFeedNext]_feedVars PROVE FeedInv'
    OBVIOUS
  <2>1. CASE MarketFeedNext
    BY <2>1, UpdateStep, LineStep, AckStep, DiffStep, BootstrapStep, LighterStep, FrameStep,
       ClockStep DEF MarketFeedNext
  <2>2. CASE UNCHANGED feedVars
    BY <2>2 DEF feedVars, FeedInv, MarketFeedTypeOK, SeqInv, WireInv, KatanaInv, LighterInv,
                MissingWasSkipped, Missing, InWire, InBuffer, AfterBuffer, Base
  <2> QED BY <2>1, <2>2
<1> QED BY <1>1, FeedInit, PTL DEF MarketFeedSpec

\* A synced book lacks only what was lost in Lighter's stream or, on Katana, while the
\* snapshot it starts from was on its way: _on_diff, the order of bootstrap and buffer and
\* the cancelling of an old socket's bootstrap lose nothing else.
THEOREM MissingIsKnown == MarketFeedSpec => []MissingWasSkipped
<1>1. FeedInv => MissingWasSkipped
  BY DEF FeedInv
<1> QED BY <1>1, FeedInvariant, PTL
-----------------------------------------------------------------------------
(* The clock, and what the book shows.                                       *)

\* Every step applies an update, or leaves the book and what is shown, or ends the sync.
LEMMA BookStep ==
    ASSUME FeedInv, MarketFeedNext
    PROVE  \/ /\ Applied(book', last_u') /\ UNCHANGED <<moves, hollow, row_age>>
           \/ /\ UNCHANGED <<update_age, sync_age, last_book, row_age>>
              /\ \/ synced' = FALSE /\ UNCHANGED <<moves, hollow>>
                 \/ UNCHANGED <<synced, book, moves, hollow>>
                 \/ VenueUpdates /\ UNCHANGED <<synced, book>>
           \/ /\ Tick \/ Evaluate
              /\ UNCHANGED <<synced, book, moves, hollow, last_book>>
<1> USE DEF marketVars, connVars, taskVars
<1>1. CASE VenueUpdates
  BY <1>1 DEF VenueUpdates
<1>2. CASE VenueRepeats \/ Disconnect \/ KatanaAck \/ SnapshotTaken \/ SnapshotFails
           \/ SnapshotRetry
  BY <1>2 DEF VenueRepeats, Disconnect, KatanaAck, SnapshotTaken, SnapshotFails, SnapshotRetry
<1>3. CASE Connect
  BY <1>3 DEF Connect, ResetBook
<1>4. CASE KatanaDiff
  BY <1>4 DEF KatanaDiff, OnDiff, Applied
<1>5. CASE BootstrapEnds \/ LighterSnapshot \/ LighterDiff
  BY <1>5 DEF BootstrapEnds, LighterSnapshot, LighterDiff, Applied
<1>6. CASE AsterFrame
  BY <1>6 DEF AsterFrame, Applied
<1>7. CASE Tick \/ Evaluate
  BY <1>7 DEF Tick, Evaluate
<1> QED BY <1>1, <1>2, <1>3, <1>4, <1>5, <1>6, <1>7 DEF MarketFeedNext

\* The feed is never later to be in sync than to be alive.
RowInv == sync_age <= update_age /\ (row_age # Nothing => row_age <= FreshTicks)

\* A row is recorded only for a leg in sync within the window: book_ts() is renewed by
\* updates of a book in sync alone, and the spread monitor reads it before it records.
THEOREM RowsAreFresh == MarketFeedSpec => []RowsOnlyWhenFresh
<1>1. MarketFeedInit => RowInv
  <2>1. Never \in Nat
    BY NothingElse DEF Never
  <2> QED BY <2>1 DEF MarketFeedInit, RowInv
<1>2. FeedInv /\ RowInv /\ [MarketFeedNext]_feedVars => RowInv'
  <2> SUFFICES ASSUME FeedInv, RowInv, [MarketFeedNext]_feedVars PROVE RowInv'
    OBVIOUS
  <2>1. /\ update_age \in 0 .. Never /\ sync_age \in 0 .. Never /\ Never \in Nat
        /\ FreshTicks \in Nat
    BY NothingElse DEF FeedInv, MarketFeedTypeOK, Never
  <2>2. CASE UNCHANGED <<update_age, sync_age, row_age>>
    BY <2>2 DEF RowInv
  <2>3. CASE Applied(book', last_u') /\ UNCHANGED row_age
    BY <2>3 DEF RowInv, Applied
  <2>4. CASE Tick
    <3> HIDE DEF Never
    <3> QED BY <2>1, <2>4 DEF RowInv, Tick
  <2>5. CASE Evaluate
    BY <2>1, <2>5 DEF RowInv, Evaluate
  <2>6. CASE UNCHANGED feedVars
    BY <2>2, <2>6 DEF feedVars
  <2> QED BY <2>2, <2>3, <2>4, <2>5, <2>6, BookStep
<1>3. RowInv => RowsOnlyWhenFresh
  BY DEF RowInv, RowsOnlyWhenFresh
<1> QED BY <1>1, <1>2, <1>3, FeedInvariant, PTL DEF MarketFeedSpec

\* order_book() and best_quote() follow the top of the local book: _emit_book drops only
\* books with the same top and books with an empty side.
THEOREM ShownTopIsCurrent == MarketFeedSpec => []TopIsCurrent
<1>1. MarketFeedInit => TopIsCurrent
  BY DEF MarketFeedInit, TopIsCurrent
<1>2. FeedInv /\ FeedInv' /\ TopIsCurrent /\ [MarketFeedNext]_feedVars => TopIsCurrent'
  <2> SUFFICES ASSUME FeedInv, FeedInv', TopIsCurrent, [MarketFeedNext]_feedVars PROVE TopIsCurrent'
    OBVIOUS
  <2>1. book' # Nothing
    BY NothingElse DEF FeedInv, MarketFeedTypeOK
  <2>2. CASE UNCHANGED <<synced, book, moves, hollow, last_book>>
    <3>1. /\ OneSided(book)' = OneSided(book) /\ Top(book)' = Top(book)
          /\ Top(last_book)' = Top(last_book)
      BY <2>2 DEF OneSided, Top, MaxOf
    <3> QED BY <2>2, <3>1 DEF TopIsCurrent
  <2>3. CASE synced' = FALSE
    BY <2>3 DEF TopIsCurrent
  <2>4. CASE Applied(book', last_u') /\ UNCHANGED <<moves, hollow>>
    <3>1. CASE OneSided(book') \/ (last_book # Nothing /\ Top(book') = Top(last_book))
      <4>1. UNCHANGED last_book
        BY <2>4, <3>1 DEF Applied, EmitBook
      <4>2. /\ OneSided(book)' = OneSided(book') /\ Top(book)' = Top(book')
            /\ Top(last_book)' = Top(last_book)
        BY <2>4, <4>1 DEF OneSided, Top, MaxOf
      <4> QED BY <3>1, <4>1, <4>2 DEF TopIsCurrent
    <3>2. CASE last_book' = book'
      BY <2>1, <3>2 DEF TopIsCurrent
    <3> QED BY <2>4, <3>1, <3>2 DEF Applied, EmitBook
  <2>5. CASE VenueUpdates /\ UNCHANGED <<synced, book, last_book>>
    <3>1. /\ seq' \notin book /\ (last_book # Nothing => seq' \notin last_book)
      <4>1. seq \in Int /\ seq' = seq + 1
        BY <2>5, FeedTypes DEF VenueUpdates
      <4>2. seq' \notin BookOf(seq)
        BY <4>1 DEF BookOf
      <4> QED BY <4>2 DEF FeedInv, SeqInv
    <3>2. /\ moves' \in {moves, moves \cup {seq'}} /\ hollow \subseteq hollow'
      BY <2>5 DEF VenueUpdates
    <3>3. /\ book \cap moves' = book \cap moves
          /\ last_book # Nothing => last_book \cap moves' = last_book \cap moves
      BY <3>1, <3>2
    <3>4. /\ Top(book)' = Top(book)
          /\ last_book # Nothing => Top(last_book)' = Top(last_book)
      BY <2>5, <3>3 DEF Top, MaxOf
    <3>5. OneSided(book) => OneSided(book)'
      BY <2>5, <3>2 DEF OneSided, MaxOf
    <3> QED BY <2>5, <3>4, <3>5 DEF TopIsCurrent
  <2>6. CASE UNCHANGED feedVars
    BY <2>2, <2>6 DEF feedVars
  <2> QED BY <2>2, <2>3, <2>4, <2>5, <2>6, BookStep
<1> QED BY <1>1, <1>2, FeedInvariant, PTL DEF MarketFeedSpec
=============================================================================
