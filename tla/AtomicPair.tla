----------------------------- MODULE AtomicPair -----------------------------
(***************************************************************************)
(* What a two-venue taker strategy promises: its inventory is a pair of    *)
(* mirrored positions that moves by one trade at a time, both legs at      *)
(* once, and never past the position cap.                                  *)
(***************************************************************************)
EXTENDS Integers

CONSTANTS Qty, MaxQty, StartInventory

VARIABLE pair    \* the inventory on leg a; leg b holds its mirror image

Move(d) ==
    /\ -MaxQty <= pair + d /\ pair + d <= MaxQty
    /\ pair' = pair + d

Init == pair \in StartInventory

Next == \E d \in {-Qty, Qty} : Move(d)

Spec == Init /\ [][Next]_pair

=============================================================================
