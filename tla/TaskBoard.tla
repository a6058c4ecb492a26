------------------------------ MODULE TaskBoard ------------------------------
(***************************************************************************)
(* What the task endpoints and the evaluation promise together about the   *)
(* replenishment of one SKU in one store, as if each of them were a single *)
(* step on a board that everyone sees: no reads that grow old, no version  *)
(* numbers, no locks.                                                      *)
(***************************************************************************)
EXTENDS Naturals

CONSTANTS
    Task,
    User,
    NoUser,
    TargetFloor     \* target_floor_qty of the selected rule

VARIABLE board      \* per task its status, quantity and claimant, and how often a
                    \* user who could not have seen it overruled it

Active == {"OPEN", "CLAIMED", "IN_PROGRESS"}

Requested == {"CLAIMED", "IN_PROGRESS", "COMPLETED", "CANCELED", "EXPIRED"}

Blank == [status |-> "none", quantity |-> 0, claimant |-> NoUser, overruled |-> 0]

Init == board = [t \in Task |-> Blank]

\* A shortage opens a task when none is being worked on.
Open(t, quantity) ==
    /\ \A u \in Task : board[u].status \notin Active
    /\ board[t] = Blank
    /\ board' = [board EXCEPT ![t].status = "OPEN", ![t].quantity = quantity]

\* It grows with the shortage, up to the target, until somebody claims it.
Grow(t, quantity) ==
    /\ board[t].status = "OPEN"
    /\ board[t].quantity < quantity
    /\ board' = [board EXCEPT ![t].quantity = quantity]

\* One user claims it, and it is theirs from then on.
Claim(t, user) ==
    /\ board[t].status = "OPEN"
    /\ board' = [board EXCEPT ![t].status = "CLAIMED", ![t].claimant = user]

Start(t) ==
    /\ board[t].status = "CLAIMED"
    /\ board' = [board EXCEPT ![t].status = "IN_PROGRESS"]

Complete(t) ==
    /\ board[t].status = "IN_PROGRESS"
    /\ board' = [board EXCEPT ![t].status = "COMPLETED"]

\* A manager gives it up, at any time before it is completed.
Abandon(t, status) ==
    /\ board[t].status \in Active
    /\ board' = [board EXCEPT ![t].status = status]

\* A request by a version ahead of the task it was checked against: the task may
\* end up in any status, but no other one is active beside it.
Overrule(t, user, status) ==
    /\ board[t].status # "none"
    /\ status \in Active => \A u \in Task \ {t} : board[u].status \notin Active
    /\ board' = [board EXCEPT ![t].status = status, ![t].overruled = @ + 1,
                              ![t].claimant = IF status = "CLAIMED" THEN user ELSE @]

\* Reads and moves leave the board alone; stated first, they are told apart cheaply.
Rest == UNCHANGED board

Next ==
    \/ Rest
    \/ \E t \in Task :
        \/ \E quantity \in 1..TargetFloor : Open(t, quantity) \/ Grow(t, quantity)
        \/ \E user \in User : Claim(t, user)
        \/ Start(t)
        \/ Complete(t)
        \/ \E status \in {"CANCELED", "EXPIRED"} : Abandon(t, status)
        \/ \E user \in User, status \in Requested : Overrule(t, user, status)

Spec == Init /\ [][Next]_board

=============================================================================
