--------------------------- MODULE ReceiveService ---------------------------
(***************************************************************************)
(* What the transfer on D and the worker count on from each other about    *)
(* the receive of an item (a request on a rank).  The worker starts it at  *)
(* most once, whatever happens to the request: a transfer id is never used *)
(* again.  It is at work until it has one result, which stays as it is     *)
(* until it is collected; only preempt() ends a receive without a result,  *)
(* and when preempt() has returned there is nothing left of it.            *)
(***************************************************************************)
CONSTANT Item

VARIABLES receive, \* x |-> how far its receive is
          fenced   \* items that a preempt() under way is about

serviceVars == <<receive, fenced>>

Result == {"ok", "error"}
State  == {"ahead", "busy", "over"} \cup Result

TypeOK == receive \in [Item -> State] /\ fenced \subseteq Item

Init == receive \in [Item -> {"ahead", "over"}] /\ fenced = {}

Starts(x) == receive[x] = "ahead" /\ receive'[x] = "busy" /\ x \notin fenced'
Ends(x)   == receive[x] = "busy" /\ receive'[x] \in Result
GivenUp(x)   == receive[x] = "ahead" /\ receive'[x] = "over"
Collected(x) == receive[x] \in Result /\ receive'[x] = "over"
Fenced(x)    == x \in fenced /\ receive'[x] = "over"

PreemptReturns(x) == x \in fenced \ fenced' => receive'[x] \in {"ahead", "over"}

Next == /\ TypeOK'
        /\ \A x \in Item :
             /\ \/ receive'[x] = receive[x] \/ Starts(x) \/ Ends(x)
                \/ GivenUp(x) \/ Collected(x) \/ Fenced(x)
             /\ PreemptReturns(x)

Spec == Init /\ [][Next]_serviceVars

=============================================================================
