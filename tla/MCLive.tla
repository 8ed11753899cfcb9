--------------------------------- MODULE MCLive ---------------------------------
(***************************************************************************)
(* The live process' parts around the strategy, for TLC: the order path of *)
(* one driver, one driver's book, the persistence gate and the life of the *)
(* process.  They share no state, so a behaviour is one of one part, chosen*)
(* at the start, while the others rest in an initial state, in which none  *)
(* of their fair actions is enabled.                                       *)
(***************************************************************************)
EXTENDS OrderWait, MarketFeed, PersistenceGate, Runbot

VARIABLE part

liveVars == <<part, waitVars, feedVars, gateVars, runbotVars>>

LiveInit ==
    /\ part \in {"orders", "book", "gate", "process"}
    /\ OrderWaitInit /\ (part # "orders" => feed = "delta")
    /\ MarketFeedInit /\ (part # "book" => venue = "katana" /\ hollow = {})
    /\ GateInit /\ (part # "gate" => enabled)
    /\ RunbotInit /\ (part # "process" => strategy = "taker_taker")

LiveNext ==
    /\ UNCHANGED part
    /\ \/ part = "orders" /\ OrderWaitNext /\ UNCHANGED <<feedVars, gateVars, runbotVars>>
       \/ part = "book" /\ MarketFeedNext /\ UNCHANGED <<waitVars, gateVars, runbotVars>>
       \/ part = "gate" /\ GateNext /\ UNCHANGED <<waitVars, feedVars, runbotVars>>
       \/ part = "process" /\ RunbotNext /\ UNCHANGED <<waitVars, feedVars, gateVars>>

LiveSpec ==
    /\ LiveInit /\ [][LiveNext]_liveVars
    /\ OrderWaitFairness /\ MarketFeedFairness /\ RunbotFairness

\* Every variable of the four modules keeps its type.
LiveTypeOK == OrderWaitTypeOK /\ MarketFeedTypeOK /\ GateTypeOK /\ RunbotTypeOK
=============================================================================
