----------------------------- MODULE MC_PkgGet -----------------------------
(* Arguments: a@1 and b@1 are in the database, a@2 is well formed but not  *)
(* listed, "a" has no '@', and a@1@1 has an '@' in its version.            *)
EXTENDS PkgGet

MCVersionChars == {"1", "2"}
MCArgs == { <<"a", "@", "1">>, <<"b", "@", "1">>, <<"a", "@", "2">>,
            <<"a">>, <<"a", "@", "1", "@", "1">> }
MCCatalog == { [ok |-> TRUE, name |-> <<"a">>, version |-> <<"1">>],
               [ok |-> TRUE, name |-> <<"b">>, version |-> <<"1">>] }
====
