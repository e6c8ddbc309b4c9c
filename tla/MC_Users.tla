------------------------------ MODULE MC_Users ------------------------------
(***************************************************************************)
(* Instances of Users for TLC. Names are chosen so that the relations that *)
(* matter occur: a role named like a user, a binding of another tool, and, *)
(* in the prefix instance, a user whose name extends another user's.       *)
(***************************************************************************)
EXTENDS Users

CONSTANTS Ns, Team   \* the one namespace and the one group of the instances

MCNamespaces == {Ns}
MCGroups == {Team}

MCParts == {"dev", "ops", "1", "view", "kiali", "binding"}

OneUser == {<<"dev">>}
PrefixUsers == {<<"dev">>, <<"dev", "1">>}

MCRoles == {<<"view">>, <<"dev">>}

ClusterBinding(name, role) ==
    [scope |-> Cluster, name |-> name, role |-> role, user |-> None, groups |-> {}]

\* A binding that a chart installed, and one of another user whose role is named
\* like this one.
MCForeign ==
    {ClusterBinding(<<"kiali", "binding">>, <<"view">>),
     ClusterBinding(<<"ops", "dev", "binding">>, <<"dev">>)}

Flags(cr, r, gs) == [groups |-> gs, cluster |-> cr, role |-> r, ns |-> Ns]

ClusterOnly == {Flags(<<"dev">>, None, {})}
BothOrRole == {Flags(<<"dev">>, <<"view">>, {}), Flags(None, <<"view">>, {})}
=============================================================================
