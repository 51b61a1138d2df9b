----------------------------- MODULE MCJsonTree -----------------------------
(***************************************************************************)
(* JsonMeaning on few blocks. The string of the model holds what has to be *)
(* escaped, and one name does.  The texts have whitespace, a comma behind  *)
(* the last item, something behind the value, a repeated name, and no      *)
(* comma where there should be one.                                        *)
(***************************************************************************)
EXTENDS JsonMeaning

AnyNodes == Permutations(Nodes)

\* The longest call, a string set by a name with two dots, allocates eight times.
UpToEight == 0 .. 8

A == <<"a">>
B == <<"quote">>
AName == <<"quote", "a", "quote">>

OneScalar == { [type |-> "string", text |-> <<"bs", "quote", "/", "nl", "ctl">>] }

TwoNames == {A, B}

SomePaths == {<<A>>, <<B>>, <<A, B>>, <<A, B, A>>}

SomeTexts ==
    { <<"bom", "[", "true", ",", "sp", "7", ",", "]", "x">>,
      <<"{", "nl">> \o AName \o <<":", "[", "]", ",", "}">>,
      <<"{">> \o AName \o <<":", "null", ",">> \o AName \o <<":", "null", "}">>,
      <<"[", "[", "]", "null", "]">> }
=============================================================================
