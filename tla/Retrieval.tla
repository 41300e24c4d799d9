------------------------------- MODULE Retrieval -------------------------------
(***************************************************************************)
(* What the retrieval half of the RAG pipeline computes without state: who *)
(* may see which chunk (services/acl.py), and which UpstreamError each     *)
(* failure of the embedding and the search service becomes                 *)
(* (services/embeddings.py, services/azure_search.py).                     *)
(*                                                                         *)
(* The policy is written twice in the code: as the OData filter that the   *)
(* search service evaluates, and as is_document_visible in Python.  An     *)
(* identifier has neither commas nor blanks (IDENTIFIER_RE), so search.in  *)
(* splits the joined group ids into the group ids; a filter is the tenant  *)
(* and the groups it names.                                                *)
(***************************************************************************)
EXTENDS Naturals, FiniteSets

CONSTANTS
    Documents,  \* the chunks of the index
    Acl         \* Acl[d]: tenant_id and allowed_groups of d

Visible(principal, d) ==
    /\ Acl[d].tenant = principal.tenant
    /\ Acl[d].groups = {} \/ Acl[d].groups \cap principal.groups # {}

BuildAclFilter(principal) == [tenant |-> principal.tenant, groups |-> principal.groups]

SearchIn(group, joined) == group \in joined

MatchesUnparenthesised(filter, d) ==
    \/ /\ Acl[d].tenant = filter.tenant
       /\ Acl[d].groups = {}
    \/ \E group \in Acl[d].groups : SearchIn(group, filter.groups)

\* The expression as OData evaluates it; without groups the clause on groups
\* is "not allowed_groups/any()" alone.
Matches(filter, d) ==
    /\ Acl[d].tenant = filter.tenant
    /\ \/ Acl[d].groups = {}
       \/ /\ filter.groups # {}
          /\ \E group \in Acl[d].groups : SearchIn(group, filter.groups)

-----------------------------------------------------------------------------
(* Failures.                                                               *)

\* Exceptions of the OpenAI client on POST /embeddings.
EmbeddingErrors == {"authentication", "permission_denied", "not_found", "bad_request",
                    "rate_limit", "timeout", "other"}

\* The order of the except clauses of embed().
EmbeddingCode(exc) ==
    CASE exc \in {"authentication", "permission_denied", "not_found"} -> "configuration_error"
      [] exc = "bad_request" -> "embedding_rejected"
      [] exc = "rate_limit" -> "upstream_throttled"
      [] exc = "timeout" -> "upstream_timeout"
      [] OTHER -> "upstream_error"

\* map_search_status.
SearchStatusCode(status) ==
    CASE status \in {401, 403, 404} -> "configuration_error"
      [] status \in {400, 422} -> "search_request_rejected"
      [] OTHER -> "search_unavailable"

\* The codes retrieve() may raise: a response of the embedding service of the
\* wrong count or numbering is an upstream_error, and a search without an
\* answer, without JSON or with a malformed hit is search_unavailable.
EmbeddingFailures == {EmbeddingCode(exc) : exc \in EmbeddingErrors} \cup {"upstream_error"}
SearchFailures == {SearchStatusCode(status) : status \in 400 .. 599} \cup {"search_unavailable"}
RetrievalCodes == EmbeddingFailures \cup SearchFailures
=============================================================================
