----------------------------- MODULE MCRagAnswer -----------------------------
(* RagAnswer for TLC: an index of two tenants with a small and a large chunk *)
(* that all of a tenant may read and some for groups; callers with no group, *)
(* as many as are allowed, one more, and more than Entra lists; credentials  *)
(* with every defect on its own and every pair of scopes and roles; and      *)
(* replies of up to three pieces, which make whole markers, halves of        *)
(* markers, and markers inside others.                                       *)
EXTENDS RagAnswer

CONSTANTS ta, tb, u, ga, gb, gc, gd, scope, role, other

Index == {"small", "large", "shared", "hidden", "foreign"}

IndexAcl ==
    [d \in Index |->
        CASE d \in {"small", "large"} -> [tenant |-> ta, groups |-> {}]
          [] d = "shared" -> [tenant |-> ta, groups |-> {ga, gb}]
          [] d = "hidden" -> [tenant |-> ta, groups |-> {gb}]
          [] d = "foreign" -> [tenant |-> tb, groups |-> {ga}]]

IndexSize == [d \in Index |-> IF d = "large" THEN 3 ELSE 1]

-----------------------------------------------------------------------------

Configurations ==
    {[mode |-> "headers", tenant |-> Absent, scope |-> Absent, role |-> Absent],
     [mode |-> "entra", tenant |-> ta, scope |-> scope, role |-> Absent],
     [mode |-> "entra", tenant |-> ta, scope |-> Absent, role |-> role],
     [mode |-> "entra", tenant |-> ta, scope |-> scope, role |-> role]}

Holder(groups) == [tenant |-> ta, user |-> u, groups |-> ToSet(groups)]

\* What Entra says of a user's groups: the list, or one of two signals.
Listed(groups) == [hasgroups |-> Absent, claim_names |-> Absent, groups |-> groups]
Signals ==
    {[hasgroups |-> TRUE, claim_names |-> Absent, groups |-> Absent],
     [hasgroups |-> Malformed, claim_names |-> Absent, groups |-> Absent],
     [hasgroups |-> FALSE, claim_names |-> {"groups"}, groups |-> Absent],
     [hasgroups |-> Absent, claim_names |-> Malformed, groups |-> Absent]}

GroupClaims ==
    {[holder |-> Holder(groups), says |-> Listed(groups)] :
        groups \in {<<ga>>, <<gb, ga>>, <<ga, gb, gc>>, <<ga, ga, ga>>, <<ga, Malformed>>}}
    \cup {[holder |-> Holder(<<>>), says |-> says] :
        says \in {Listed(Absent),
                  [hasgroups |-> FALSE, claim_names |-> {"other"}, groups |-> Absent]}}
    \cup {[holder |-> Holder(<<ga, gb, gc, gd>>), says |-> says] : says \in Signals}
    \cup {[holder |-> Holder(<<>>), says |-> Listed(Malformed)]}

Grants == {Absent, Malformed, {}, {scope, other}, {role}}

Tokens ==
    {[holder |-> [g.holder EXCEPT !.tenant = tid],
      token |-> [flaw |-> flaw,
                 claims |-> [tid |-> tid, oid |-> oid, hasgroups |-> g.says.hasgroups,
                             claim_names |-> g.says.claim_names, groups |-> g.says.groups,
                             scp |-> scp, roles |-> roles]]] :
        g \in GroupClaims, scp \in Grants, roles \in Grants,
        <<flaw, tid, oid>> \in {<<Absent, ta, u>>, <<"signature", ta, u>>,
                                <<Absent, tb, u>>, <<Absent, ta, Malformed>>}}

Bearer(token) == [oversized |-> FALSE, scheme |-> "bearer", token |-> token]

Bearers ==
    {[holder |-> t.holder, credential |-> <<Bearer(t.token)>>] : t \in Tokens}
    \cup {[holder |-> Absent, credential |-> values] :
        values \in {<<>>, <<Bearer(Absent)>>, <<Bearer(Absent), Bearer(Absent)>>,
                    <<[oversized |-> TRUE, scheme |-> "bearer", token |-> "long"]>>,
                    <<[oversized |-> FALSE, scheme |-> "basic", token |-> "pair"]>>}}

\* Headers; the holder is whom a gateway vouches for that sends each once.
GroupHeaders ==
    {<<>>, <<[oversized |-> FALSE, parts |-> <<ga>>]>>,
     <<[oversized |-> FALSE, parts |-> <<gb, ga>>]>>,
     <<[oversized |-> FALSE, parts |-> <<ga, ga>>]>>,
     <<[oversized |-> FALSE, parts |-> <<ga, ga, ga>>]>>,
     <<[oversized |-> FALSE, parts |-> <<Absent>>]>>,
     <<[oversized |-> TRUE, parts |-> <<Absent>>]>>,
     <<[oversized |-> TRUE, parts |-> <<ga>>]>>,
     <<[oversized |-> FALSE, parts |-> <<ga, Absent>>]>>,
     <<[oversized |-> FALSE, parts |-> <<Malformed>>]>>,
     <<[oversized |-> FALSE, parts |-> <<ga>>], [oversized |-> FALSE, parts |-> <<gb>>]>>}

HeaderSets ==
    {[holder |-> Holder(IF groups = <<>> THEN <<>>
                        ELSE SelectSeq(groups[1].parts, LAMBDA part : part # Absent)),
      credential |-> [tenants |-> tenants, users |-> users, groups |-> groups]] :
        tenants \in {<<>>, <<ta>>, <<ta, tb>>, <<Malformed>>},
        users \in {<<>>, <<u>>, <<u, u>>}, groups \in GroupHeaders}

Incoming ==
    {[mode |-> "headers", body |-> body, holder |-> h.holder, credential |-> h.credential] :
        h \in HeaderSets, body \in {"unreadable", "invalid", "valid"}}
    \cup {[mode |-> "entra", body |-> body, holder |-> b.holder, credential |-> b.credential] :
        b \in Bearers, body \in {"unreadable", "invalid", "valid"}}

-----------------------------------------------------------------------------

Pieces == {<<"[", "0", "]">>, <<"[", "1", "]">>, <<"[", "2", "]">>,
           <<"[", "1", "2", "]">>, <<"[", "1">>, <<"[", "2">>, <<"]">>}

PiecedReplies == {FlattenSeq(pieces) : pieces \in BoundedSeq(Pieces, 3)}
=============================================================================
