---------------------------- MODULE MCCompletion ----------------------------
(* A line of a command's name, blanks and pipes, to ask what the caret is after. *)
EXTENDS Completion

Keyboard == {{"f", " ", "|"}}
Name     == {"f"}
NoEscape == "backtick" :> "backtick"
NoSuch   == <<"f">> :> "Format"
=============================================================================
