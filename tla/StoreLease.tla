----------------------------- MODULE StoreLease -----------------------------
(***************************************************************************)
(* What the Store pool promises about memory: the KV blocks of a request   *)
(* are lent to it for a save or a load, PUT reads and GET writes run only  *)
(* on blocks that are on loan, and blocks come back (a result is polled,   *)
(* preempt() returns, the pool is closed) only when no I/O is left on      *)
(* them.  They may be lent again later.                                    *)
(***************************************************************************)
CONSTANT Loan    \* what can be lent: one loan per request and direction

VARIABLES lent,  \* loans under way
          io     \* loans with a Store call at work

leaseVars == <<lent, io>>

TypeOK == lent \subseteq Loan /\ io \subseteq Loan

Init == lent = {} /\ io = {}

Lend(x) == x \notin lent /\ lent' = lent \cup {x} /\ UNCHANGED io
Begin(x) == x \in lent \ io /\ io' = io \cup {x} /\ UNCHANGED lent
End(x) == x \in io /\ io' = io \ {x} /\ UNCHANGED lent
TakeBack(S) == S \subseteq lent \ io /\ lent' = lent \ S /\ UNCHANGED io

Next == \/ \E x \in Loan : Lend(x) \/ Begin(x) \/ End(x)
        \/ \E S \in SUBSET Loan : TakeBack(S)

Spec == Init /\ [][Next]_leaseVars

=============================================================================
