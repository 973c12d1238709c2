---------------------------- MODULE PoolService -----------------------------
(***************************************************************************)
(* What the Store pool and the worker count on from each other about the   *)
(* load and the saves of an item (a request on a rank).                    *)
(*                                                                         *)
(* The worker begins a load only when it has collected the one before.     *)
(* The pool ends it with a prefix of its range, and this result stays as   *)
(* it is until it is collected.  Saves may be given at any time; they are  *)
(* at work until all of them are over.  What is at work disappears only    *)
(* under preempt() (or close), and when preempt() has returned there is    *)
(* nothing left of the item.                                               *)
(***************************************************************************)
EXTENDS Integers

CONSTANTS Item,  \* who loads and saves
          Token  \* positions in a prompt

VARIABLES load,   \* x |-> its load, and when it is done how far it got
          save,   \* x |-> its saves
          fenced  \* items that a preempt() under way is about

serviceVars == <<load, save, fenced>>

NoLoad    == [state |-> "none", from |-> 0, to |-> 0, upto |-> 0]
LoadState == [state : {"none", "busy", "done"}, from : Token, to : Token, upto : Token]
SaveState == {"none", "busy", "done"}

TypeOK == /\ load \in [Item -> LoadState] /\ save \in [Item -> SaveState]
          /\ fenced \subseteq Item

Init == /\ load = [x \in Item |-> NoLoad] /\ save = [x \in Item |-> "none"]
        /\ fenced = {}

LoadBegins(x) ==
  /\ load[x] = NoLoad /\ x \notin fenced'
  /\ load'[x].state = "busy" /\ load'[x].from < load'[x].to

LoadEnds(x) ==
  /\ load[x].state = "busy" /\ load'[x].upto \in load[x].from .. load[x].to
  /\ load'[x] = [state |-> "done", from |-> load[x].from, to |-> load[x].to,
                 upto |-> load'[x].upto]

LoadOver(x) == load'[x] = NoLoad /\ (load[x].state = "done" \/ x \in fenced')

SaveGiven(x) == x \notin fenced' /\ save'[x] = "busy"
SavesEnd(x)  == save[x] = "busy" /\ save'[x] = "done"
SavesOver(x) == save'[x] = "none" /\ (save[x] = "done" \/ x \in fenced')

PreemptReturns(x) == x \in fenced \ fenced' => load'[x] = NoLoad /\ save'[x] = "none"

Next == /\ TypeOK'
        /\ \A x \in Item :
             /\ load'[x] = load[x] \/ LoadBegins(x) \/ LoadEnds(x) \/ LoadOver(x)
             /\ save'[x] = save[x] \/ SaveGiven(x) \/ SavesEnd(x) \/ SavesOver(x)
             /\ PreemptReturns(x)

Spec == Init /\ [][Next]_serviceVars

=============================================================================
