------------------------------ MODULE MCPatch ------------------------------
(***************************************************************************)
(* Inputs of PatchRun for TLC: lists in which settings, keys and names are *)
(* there twice, carriers nobody ships, a file that holds another one and   *)
(* an array for a key that is written as a Boolean.                        *)
(***************************************************************************)
EXTENDS PatchRun

CONSTANTS a, b, third, others, volte, nr, on, off, list

McBase == volte :> on

K(key, val) == [key |-> key, val |-> val]
KeyLists == {<<>>, <<K(volte, on)>>, <<K(nr, on), K(volte, off), K(volte, on)>>}
ApnLists == {<<"default">>, <<"default", "ims">>}
S(name) == [name : {name}, keys : KeyLists, apns : ApnLists]

OthersLists == {<<>>} \cup {<<s, t>> : s \in S(a), t \in S(a) \cup S(b)}
Own(n, s) == n :> [ver |-> 7, set |-> s]
OwnFiles == {[x \in {} |-> {}]} \cup {Own(b, s) : s \in S(b)} \cup {Own(b, CHOOSE s \in S(third) : TRUE)}

\* A carrier's settings are in its own file or in others.pb, never both.
McDirs ==
    {d \in [ver : {5}, others : OthersLists, own : OwnFiles] :
        \A i \in DOMAIN d.others : d.others[i].name \notin DOMAIN d.own}

E(n, bools, arrays, apn) == [name |-> n, bools |-> bools, arrays |-> arrays, apn |-> apn]
None == [x \in {} |-> {}]
Lists == {<<>>, <<E(a, None, None, TRUE)>>, <<E(a, volte :> off, nr :> list, FALSE)>>,
          <<E(a, None, volte :> list, TRUE)>>,
          <<E(third, None, None, TRUE), E(b, nr :> off, None, TRUE)>>}
McConfigs == [auto : BOOLEAN, carriers : Lists, skip : {{}, {a}}]
McFound == {<<>>, <<a, b>>, <<third, a, a>>}
=============================================================================
