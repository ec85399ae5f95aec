----------------------------- MODULE Publication -----------------------------
(***************************************************************************)
(* What the address exchange promises: the server offers its regions in a  *)
(* fixed order, never more than two ahead of the client; the client learns *)
(* them in that order, each with its own description, and forgets or       *)
(* changes nothing.  While the link holds it learns what is offered.       *)
(***************************************************************************)
EXTENDS Naturals, Sequences

CONSTANTS
    Region,
    Order      \* the regions, in the order in which they are offered

VARIABLES
    offered,   \* the regions whose description the server has sent
    known,     \* per region, the regions that the client's description mixes
    broken     \* the link is lost

pubVars == <<offered, known, broken>>

Prefix(n) == {Order[i] : i \in 1..n}
Learned == {r \in Region : known[r] # {}}

Init ==
    /\ offered = {}
    /\ known = [r \in Region |-> {}]
    /\ broken = FALSE

\* The server hears of a lost link only through what it waits for.
Offer(n) ==
    /\ offered = Prefix(n - 1)
    /\ broken \/ Prefix(n - 2) \subseteq Learned
    /\ offered' = Prefix(n)
    /\ UNCHANGED <<known, broken>>

Learn(n) ==
    /\ Learned = Prefix(n - 1)
    /\ Order[n] \in offered
    /\ known' = [known EXCEPT ![Order[n]] = {Order[n]}]
    /\ UNCHANGED <<offered, broken>>

Break ==
    /\ ~broken
    /\ broken' = TRUE
    /\ UNCHANGED <<offered, known>>

LearnNext == \E n \in 1..Len(Order) : Learn(n)

Next == (\E n \in 1..Len(Order) : Offer(n)) \/ LearnNext \/ Break

Spec == Init /\ [][Next]_pubVars /\ WF_pubVars(~broken /\ LearnNext)

=============================================================================
