----------------------------- MODULE SingleUse ------------------------------
(***************************************************************************)
(* What an approval promises: it is offered once, and it lets its holder   *)
(* in at most once.  An approval that has been replaced, has expired or    *)
(* has been tried too often is withdrawn and lets nobody in any more.      *)
(***************************************************************************)
EXTENDS Integers

CONSTANT Approvals

VARIABLES
    offered,   \* approvals handed out so far
    spent,     \* approvals that are used up or withdrawn
    admitted   \* how many times an approval has let its holder in

approvalVars == <<offered, spent, admitted>>

ApprovalInit == offered = {} /\ spent = {} /\ admitted = 0

Offer(a) ==
    /\ a \notin offered
    /\ offered' = offered \cup {a}
    /\ UNCHANGED <<spent, admitted>>

Admit(a) ==
    /\ a \in offered \ spent
    /\ spent' = spent \cup {a}
    /\ admitted' = admitted + 1
    /\ UNCHANGED offered

Withdraw(W) ==
    /\ W \subseteq offered \ spent
    /\ spent' = spent \cup W
    /\ UNCHANGED <<offered, admitted>>

ApprovalNext ==
    \/ \E a \in Approvals : Offer(a) \/ Admit(a)
    \/ \E W \in SUBSET Approvals : Withdraw(W)

ApprovalSpec == ApprovalInit /\ [][ApprovalNext]_approvalVars

=============================================================================
