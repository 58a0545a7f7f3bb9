----------------------------- MODULE MCCatalog -----------------------------
(* Instance of Catalog for TLC: a name that another one continues within   *)
(* the same path element, one that it continues with a new element, and    *)
(* one that has nothing to do with it.                                     *)
EXTENDS Catalog

TheLetters == {"a", "b"}
TheNames == {<<"a">>, <<"b">>, <<"a", "b">>, <<"a", "/", "b">>}
=============================================================================
