------------------------------ MODULE MCNaming ------------------------------
(* Names of up to four characters that differ where the functions look.    *)
EXTENDS Naming

a == <<"a">>
b == <<"b">>
Aud == <<"aud">>
PaddedA == <<"space", "a">>
Slashed == <<"a", "slash", "b">>
SlashedTwice == <<"a", "slash", "colon", "b">>
Underscored == <<"a", "underscore", "b">>
TwoNames == <<"a", "underscore", "underscore", "b">>
Dot == <<"dot">>
Blank == <<"space">>

\* Names in several lists whose paths are the same or cleaned away; no names.
MCDiscoveries == {<< <<Slashed, Dot>>, <<Slashed>>, <<Underscored>> >>,
                  << <<>>, << <<>> >>, <<>> >>}

\* The same names padded, repeated and in another order, or none; and names
\* that read like a separator or become one.
MCLists == {<< >>, <<a>>, <<b, PaddedA>>, <<a, b, a>>, <<SlashedTwice, Blank>>,
            <<a, Aud>>, <<Underscored>>, <<TwoNames>>}

MCAudience == <<"b", "slash", "colon", "a">>
MCAudiences == {<<>>, a, Aud}

=============================================================================
