--------------------------- MODULE MCEnvelopePath ---------------------------
(* Topics with and without characters of NATS, parameters with and without  *)
(* what their header changes.                                               *)
EXTENDS EnvelopePath

MCTopics  == {<<"a", "/", "+">>, <<"a", ".", "b", "/", "#">>}
MCQueries == {<<<<"k">>, <<"x", " ", "y">>>>, <<<<"k", ":", "l">>, <<"x">>>>,
              <<<<"k">>, <<"x", ":">>>>, <<<<" ", "k">>, <<>>>>,
              <<<<"k">>, <<"x", "\n", "y">>>>}
=============================================================================
