--------------------------- MODULE TransferLease ----------------------------
(***************************************************************************)
(* What the direct transfer promises about memory, and nothing else: KV    *)
(* blocks are lent to copies for a time.  A source is lent by the P rank   *)
(* that filled it, a target by the D rank that will read it, each until it *)
(* is taken back for good; a copy runs only between a source and a target  *)
(* that are both on loan, and neither is taken back under a running copy.  *)
(***************************************************************************)
CONSTANTS PRank, DRank, Req

VARIABLES src,    \* p |-> r |-> state of the source blocks
          dst,    \* d |-> r |-> state of the target blocks
          copies  \* running copies <<d, p, r>>

leaseVars == <<src, dst, copies>>

State == {"unused", "open", "closed"}

TypeOK == /\ src \in [PRank -> [Req -> State]]
          /\ dst \in [DRank -> [Req -> State]]
          /\ copies \subseteq DRank \X PRank \X Req

Init == /\ src = [p \in PRank |-> [r \in Req |-> "unused"]]
        /\ dst = [d \in DRank |-> [r \in Req |-> "unused"]]
        /\ copies = {}

\* f, with the requests of S moved to state s for rank x.
Moved(f, x, S, s) == [f EXCEPT ![x] = [r \in Req |-> IF r \in S THEN s ELSE @[r]]]

LendSources(p, S) == /\ \A r \in S : src[p][r] = "unused"
                     /\ src' = Moved(src, p, S, "open")
                     /\ UNCHANGED <<dst, copies>>

LendTargets(d, S) == /\ \A r \in S : dst[d][r] = "unused"
                     /\ dst' = Moved(dst, d, S, "open")
                     /\ UNCHANGED <<src, copies>>

Begin(C) == /\ \A c \in C : src[c[2]][c[3]] = "open" /\ dst[c[1]][c[3]] = "open"
            /\ C \cap copies = {}
            /\ copies' = copies \cup C
            /\ UNCHANGED <<src, dst>>

End(C) == /\ C \subseteq copies
          /\ copies' = copies \ C
          /\ UNCHANGED <<src, dst>>

TakeSources(p, S) == /\ ~ \E c \in copies : c[2] = p /\ c[3] \in S
                     /\ src' = Moved(src, p, S, "closed")
                     /\ UNCHANGED <<dst, copies>>

TakeTargets(d, S) == /\ ~ \E c \in copies : c[1] = d /\ c[3] \in S
                     /\ dst' = Moved(dst, d, S, "closed")
                     /\ UNCHANGED <<src, copies>>

Next == \/ \E p \in PRank, S \in SUBSET Req : LendSources(p, S) \/ TakeSources(p, S)
        \/ \E d \in DRank, S \in SUBSET Req : LendTargets(d, S) \/ TakeTargets(d, S)
        \/ \E C \in SUBSET (DRank \X PRank \X Req) : Begin(C) \/ End(C)

Spec == Init /\ [][Next]_leaseVars

=============================================================================
