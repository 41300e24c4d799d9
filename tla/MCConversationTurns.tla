------------------------- MODULE MCConversationTurns -------------------------
(* ConversationTurns for TLC: callers of one tenant and of two group sets,  *)
(* and the symmetry of the requests.  Ids are symmetric too: a request      *)
(* draws one, and nothing orders them.                                      *)
EXTENDS ConversationTurns, TLC

CONSTANTS ta,      \* a tenant
          ga, gb   \* group sets

OneCaller == {[tenant |-> ta, groups |-> ga]}
TwoScopes == OneCaller \cup {[tenant |-> ta, groups |-> gb]}

Symmetric == Permutations(Turns) \cup Permutations(Ids) \cup Permutations(Replicas)
=============================================================================
