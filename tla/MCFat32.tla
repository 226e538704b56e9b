------------------------------ MODULE MCFat32 ------------------------------
(* Constants for checking Fat32 on a volume of five clusters. *)
EXTENDS Fat32

\* "a" and "A.TXT" are two spellings of one stored name; ".." converts to
\* spaces and can be made, but never entered, under that name.
MCBaseOf == [n \in {"a", "A.TXT", ".", "..", "hello"} |->
               CASE n \in {"a", "A.TXT"} -> "A"
                 [] n = "hello" -> "HELLO"
                 [] OTHER -> ""]
MCTyped == DOMAIN MCBaseOf
MCBase == {"A", "HELLO", ""}

Rel(cs) == [abs |-> FALSE, comps |-> cs]
Abs(cs) == [abs |-> TRUE, comps |-> cs]

\* Down, up, down and up again, through two spellings, into a file, absolute.
MCPaths ==
  {Rel(<<"..">>), Rel(<<"a", "..", "A.TXT">>), Rel(<<"hello">>),
   Abs(<<>>), Abs(<<".", "a">>)}

MCPreloaded == <<"HELLO">>
=============================================================================
