----------------------------- MODULE MCKeyboard -----------------------------
(* Constants for checking Keyboard with a ring of three and two plain keys. *)
EXTENDS Keyboard

MCPlain == {"a", "f1"}
MCkbd_us == [k \in {"a", "f1", "c"} |->
               CASE k = "a" -> 97 [] k = "c" -> 99 [] OTHER -> 0]
MCkbd_us_shift == [k \in {"a", "f1", "c"} |->
                     CASE k = "a" -> 65 [] k = "c" -> 67 [] OTHER -> 0]
=============================================================================
