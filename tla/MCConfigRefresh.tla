--------------------------- MODULE MCConfigRefresh ---------------------------
(* An instance of ConfigRefresh for TLC. *)
EXTENDS ConfigRefresh, TLC

CONSTANTS s1, s2, c1, c2, bad

\* Two sources that parse, and one next to one that does not.  An update with one
\* source only comes from the extension.
SomeAnswers == {(s1 :> c2 @@ s2 :> c1), (s1 :> bad @@ s2 :> c2)}

\* An extension sends either source, and content that does not parse.
SomePushes == {<<s1, c2>>, <<s2, bad>>}
==============================================================================
