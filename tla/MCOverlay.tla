----------------------------- MODULE MCOverlay -----------------------------
(***************************************************************************)
(* One release of a seed of two directories, changed and reloaded.         *)
(***************************************************************************)
EXTENDS SeedOverlay, TLC

Names == {<<"a">>, <<"b">>, <<"a", "a">>, <<"b", "a">>}
Seeded(kind, data) ==
  [kind |-> kind, data |-> data, own |-> rwx, oth |-> {}, mine |-> TRUE, origin |-> "seed"]
Release ==
  << <<"a">> :> Seeded("dir", <<>>) @@ <<"a", "a">> :> Seeded("file", <<1>>)
       @@ <<"b">> :> Seeded("dir", <<>>) @@ <<"b", "a">> :> Seeded("file", <<2>>) >>
Written == {<<3>>}
Allowed == {rwx}
=============================================================================
