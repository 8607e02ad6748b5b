----------------------------- MODULE MCTextNode -----------------------------
(* TextNode with the calls that each file stands when they overlap. *)
EXTENDS TextNode

Config(f, c) == [file |-> f, calls |-> c]

Stands ==
    {Config("buffer", "turns"), Config("node", "reads"), Config("node", "any"),
     Config("class", "any"), Config("broken", "any")}

\* The theorems about reads are about these.
ASSUME StandsInTurns == SharedInTurns
=============================================================================
