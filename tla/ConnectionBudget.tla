-------------------------- MODULE ConnectionBudget --------------------------
(***************************************************************************)
(* What Pool promises, without semaphore, atomics or queue: a budget of    *)
(* Max connections.  A connection is in stock (idle), with exactly one     *)
(* owner, or lost for ever (leaked); an owner may open a connection only   *)
(* while the budget has room, and a connection passes between owners only  *)
(* through the stock.  Shutting the budget down is final.                  *)
(***************************************************************************)
EXTENDS Integers, FiniteSets

CONSTANTS Owners, Max

VARIABLES stock, busy, lost, shut

budget == <<stock, busy, lost, shut>>

Spent == stock + Cardinality(busy) + lost

Start == stock = 0 /\ busy = {} /\ lost = 0 /\ shut = FALSE

\* A slot for a new connection is reserved.
Open(p) ==
    /\ p \notin busy
    /\ Spent < Max
    /\ busy' = busy \cup {p}
    /\ UNCHANGED <<stock, lost, shut>>

Take(p) ==
    /\ p \notin busy
    /\ stock > 0
    /\ stock' = stock - 1
    /\ busy' = busy \cup {p}
    /\ UNCHANGED <<lost, shut>>

PutBack(p) ==
    /\ p \in busy
    /\ busy' = busy \ {p}
    /\ stock' = stock + 1
    /\ UNCHANGED <<lost, shut>>

Discard(p) ==
    /\ p \in busy
    /\ busy' = busy \ {p}
    /\ UNCHANGED <<stock, lost, shut>>

Lose(p) ==
    /\ p \in busy
    /\ busy' = busy \ {p}
    /\ lost' = lost + 1
    /\ UNCHANGED <<stock, shut>>

Shut ==
    /\ shut' = TRUE
    /\ UNCHANGED <<stock, busy, lost>>

Move == \/ \E p \in Owners : Open(p) \/ Take(p) \/ PutBack(p) \/ Discard(p) \/ Lose(p)
        \/ Shut

BudgetSpec == Start /\ [][Move]_budget
=============================================================================
