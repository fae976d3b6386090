------------------------------ MODULE MCMatrix ------------------------------
(* Matrix steps for TLC.                                                   *)
EXTENDS Matrix

Param(name, values) == [name |-> name, values |-> values]
Entry(name, value) == [name |-> name, value |-> value]

\* Two systems and one version.
TwoSystems == << Param("os", << <<"linux">>, <<"darwin">> >>), Param("version", << <<"1">> >>) >>
\* For the second system, a group that names both parameters and one that
\* disagrees with it; the latter is for the first system as well.
TwoGroups == << << Entry("os", <<"darwin">>), Entry("version", <<"2">>), Entry("arch", <<"arm">>) >>,
                << Entry("version", <<"1">>), Entry("arch", <<"amd">>) >> >>

\* Two of these four combinations have the key "a-b-c".
Dashed == << Param("x", << <<"a">>, <<"a", "-", "b">> >>), Param("y", << <<"b", "-", "c">>, <<"c">> >>) >>
TwoValues == << Param("os", << <<"linux">>, <<"darwin">> >>) >>
NoGroup == <<>>

(* Combinations over small inputs: without dashes there are as many keys   *)
(* as combinations, whatever the values and even if one repeats a name.    *)
Words == {<<"a">>, <<"b">>}
Lists == {<<>>} \cup {<<u>> : u \in Words} \cup {<<u, v>> : u \in Words, v \in Words}
Small == {<<Param(m, l), Param(n, k)>> : m \in {"x"}, n \in {"x", "y"}, l \in Lists, k \in Lists}

ASSUME CombinationsAssumption ==
    \A params \in Small :
        LET names == {params[i].name : i \in DOMAIN params}
            product == {c \in [names -> Words] :
                            \A n \in names : c[n] \in ToSet(MapData(params, n))}
        IN {MatrixesOf(params)[k] : k \in DOMAIN MatrixesOf(params)} = product

ASSUME DashedAssumption ==
    Len(GenerateCombinations(Dashed)) = 4 /\ Cardinality(DOMAIN MatrixesOf(Dashed)) = 3
=============================================================================
