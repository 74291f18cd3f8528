------------------------------ MODULE MCMount ------------------------------
(* A small instance of Mount: three documents whose IDs begin alike.       *)
EXTENDS Mount

CONSTANTS d1, d2, d3, h1, h2, h3, h4, h5

MCText == STRING

MCDocId == [d \in Doc |-> CASE d = d1 -> <<"1", "1", "1">>
                            [] d = d2 -> <<"1", "1", "2">>
                            [] d = d3 -> <<"1", "2", "1">>]

MCVersionId == [h \in Version |-> CASE h = h1 -> <<"5", "5", "5">>
                                  [] h = h2 -> <<"5", "5", "6">>
                                  [] h = h3 -> <<"5", "5", "7">>
                                  [] h = h4 -> <<"6", "5", "5">>
                                  [] h = h5 -> <<"7", "5", "5">>]

MCTypeOf == [h \in Version |-> IF h = h2 THEN <<"image", "png">> ELSE <<"text", "plain">>]

MCCompound == {<<"year", "1920">>}

\* Tags: a bare one, a key with two values, one value refined, and a value
\* that is a key of other documents.
Tagged(tags, h) == [tags |-> tags, names |-> {<<"x">>}, heads |-> {h}]

\* Names: none, one that reads like a suffixed one, two with a fork.
Named(names, heads) == [tags |-> {<<"year">>}, names |-> names, heads |-> heads]

MCEdition == [d \in Doc |->
    CASE d = d1 -> {Tagged({<<"year", "1920">>}, h1),
                    Tagged({<<"year", "1920">>, <<"land">>}, h1),
                    Tagged({<<"land", "year">>, <<"year", "1921">>}, h1),
                    Named({}, {h1}),
                    Named({<<"x">>, <<"=">>}, {h1, h2}),
                    Named({<<"x", "~", "1", "1", "2">>}, {h1})}
      [] d = d2 -> {Tagged({<<"year", "1920", "land">>}, h3),
                    Tagged({<<"year", "1921">>, <<"land">>}, h3),
                    Named({}, {h3}),
                    Named({<<"x">>}, {h3, h4})}
      [] d = d3 -> {Tagged({<<"land">>, <<"year", "1920">>}, h5),
                    Tagged({<<"land", "1920">>, <<"year", "1921">>}, h5),
                    Named({<<"x", "~", "1">>}, {h5})}]
=============================================================================
