---------------------------- MODULE MCOperations ----------------------------
(* An instance of Operations for TLC: a namespace, and given paths that      *)
(* begin with the namespace's name, one of them two levels below the other;  *)
(* no node at first, or all of these and one beside the last.                *)
EXTENDS Operations

TheNamespace == <<"n">>

TheGiven == {<<"n">>, <<"n", "a", "b">>}

TheTrees == {{<<>>}, Above(<<"n", "n", "a", "b">>) \cup {<<"n", "n", "a", "c">>}}
=============================================================================
