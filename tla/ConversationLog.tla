--------------------------- MODULE ConversationLog ---------------------------
(***************************************************************************)
(* What the conversation services and the store promise together           *)
(* (services/conversation_store.py, models/conversation.py): a             *)
(* conversation is an append-only log of turns, and a turn happens at one  *)
(* instant.  At that instant the caller's groups are the conversation's,   *)
(* the token budget is not exhausted, the model has seen exactly the turns *)
(* that precede it, and the turn enters the log with its token usage.      *)
(* Everything else a request may do leaves no trace.                       *)
(***************************************************************************)
EXTENDS Naturals, Sequences

CONSTANTS Turns,          \* turns that may be committed
          Conversations,  \* (tenant, id) pairs
          Scopes,         \* what authorises a caller: its group set
          NoScope,        \* the scope of a conversation that does not exist
          Usages,         \* the token usages a turn may be charged
          Within(_)       \* Within(spent): the budget admits another turn

VARIABLES log,    \* log[c]: the committed turns of c, oldest first
          spent,  \* spent[c]: tokens charged to c
          scope,  \* scope[c]: the groups c was created under
          seen    \* seen[t]: the turns the model was shown when it wrote t

logVars == <<log, spent, scope, seen>>

LogInit ==
    /\ log = [c \in Conversations |-> <<>>]
    /\ spent = [c \in Conversations |-> 0]
    /\ scope = [c \in Conversations |-> NoScope]
    /\ seen = [t \in Turns |-> <<>>]

\* Turn t of a caller with scope s enters c at the price of n tokens.
Commit(t, c, s, n) ==
    /\ \A d \in Conversations : \A i \in DOMAIN log[d] : log[d][i] # t
    /\ Within(spent[c])
    /\ scope[c] \in {NoScope, s}
    /\ scope' = [scope EXCEPT ![c] = s]
    /\ log' = [log EXCEPT ![c] = Append(@, t)]
    /\ spent' = [spent EXCEPT ![c] = @ + n]
    /\ seen' = [seen EXCEPT ![t] = log[c]]

LogNext ==
    \E t \in Turns, c \in Conversations, s \in Scopes :
        \E n \in Usages : Commit(t, c, s, n)

LogSpec == LogInit /\ [][LogNext]_logVars
=============================================================================
