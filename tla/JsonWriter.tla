----------------------------- MODULE JsonWriter -----------------------------
(***************************************************************************)
(* The JSON writer, json_writer.c, and the printing layer over it,         *)
(* json_print.c.  The writer keeps a depth and a pending separator and no  *)
(* stack: it trusts its callers to close what they opened.  Whether the    *)
(* text is JSON is decided by its reader, so an output also carries what a *)
(* reader has understood so far: the brackets that are open, the last      *)
(* token, and whether every token was one the grammar allows there.        *)
(*                                                                         *)
(* Names, numbers and strings are single tokens.  White space is           *)
(* left out.  In text mode (neither a writer nor a deferred one) the same  *)
(* calls write no token.                                                   *)
(***************************************************************************)
EXTENDS Integers, Sequences, SequencesExt

CONSTANT
  Chars   \* kinds of characters in the strings of modules

ASSUME CharsAssumption ==
  Chars # {} /\ Chars \subseteq {"plain", "escaped", "apostrophe", "control"}

Closer == [b \in {"lbrace", "lbracket"} |-> IF b = "lbrace" THEN "rbrace" ELSE "rbracket"]

Values == {"lbrace", "lbracket", "value"}

\* What the grammar of JSON allows next in an output.
Expected(o) ==
  LET inside == IF o.open = <<>> THEN "none" ELSE Last(o.open) IN
  CASE o.last = "start" -> Values
    [] o.last = "lbrace" -> {"name", "rbrace"}
    [] o.last = "lbracket" -> Values \cup {"rbracket"}
    [] o.last = "name" -> Values
    [] o.last = "comma" -> IF inside = "lbrace" THEN {"name"} ELSE Values
    [] OTHER -> IF inside = "none" THEN {} ELSE {"comma", Closer[inside]}

\* The reader takes one more token.
Put(o, t) ==
  [o EXCEPT !.valid = @ /\ t \in Expected(o),
            !.last = t,
            !.open = CASE t \in {"lbrace", "lbracket"} -> Append(@, t)
                       [] t \in {"rbrace", "rbracket"} /\ @ # <<>> -> Front(@)
                       [] OTHER -> @]

\* An assert that fails and a call through a null writer both end the program.
Crash(o) == [o EXCEPT !.crashed = TRUE]

-----------------------------------------------------------------------------
\* json_writer.c

jsonw_new(o) == [o EXCEPT !.jw = TRUE, !.depth = 0, !.sep = FALSE]

jsonw_destroy(o) == IF o.depth = 0 THEN [o EXCEPT !.jw = FALSE] ELSE Crash(o)

jsonw_eor(o) == [(IF o.sep THEN Put(o, "comma") ELSE o) EXCEPT !.sep = TRUE]

jsonw_begin(o, c) ==
  [Put(jsonw_eor(o), c) EXCEPT !.depth = @ + 1, !.sep = FALSE]

jsonw_end(o, c) ==
  IF o.depth = 0 THEN Crash(o)
  ELSE [Put(o, c) EXCEPT !.depth = @ - 1, !.sep = TRUE]

jsonw_name(o) == [Put(jsonw_eor(o), "name") EXCEPT !.sep = FALSE]

\* jsonw_puts escapes the quote, the backslash and the control characters that
\* have a letter, as JSON does; but also the apostrophe, for which JSON has no
\* escape, and no other control character.
jsonw_puts(char) == IF char \in {"plain", "escaped"} THEN "value" ELSE "malformed"

\* A value of any type; a float that is no number is written as null.
jsonw_value(o, token) == Put(jsonw_eor(o), token)

-----------------------------------------------------------------------------
\* json_print.c

NoOutput ==
  [jw |-> FALSE, hasArray |-> FALSE, deferred |-> FALSE, depth |-> 0,
   sep |-> FALSE, open |-> <<>>, last |-> "start", valid |-> TRUE, crashed |-> FALSE]

ensure_plain_writer(o) ==
  IF o.deferred /\ ~o.jw
  THEN [jsonw_begin(jsonw_new(o), "lbrace") EXCEPT !.hasArray = FALSE, !.deferred = FALSE]
  ELSE o

new_json_obj(o, json) ==
  CASE json /\ ~o.jw ->
         [jsonw_begin(jsonw_new(o), "lbracket") EXCEPT !.hasArray = TRUE, !.deferred = FALSE]
    [] json /\ o.jw -> [o EXCEPT !.deferred = FALSE]
    [] OTHER -> o

new_json_obj_plain(o, json) == [o EXCEPT !.deferred = @ \/ (json /\ ~o.jw)]

delete_json_obj(o) ==
  CASE o.deferred /\ ~o.jw -> [o EXCEPT !.deferred = FALSE]
    [] o.jw -> jsonw_destroy(jsonw_end(o, IF o.hasArray THEN "rbracket" ELSE "rbrace"))
    [] OTHER -> o

is_json_context(o) == o.jw \/ o.deferred

\* What the calls of json_print.c do, in steps of the writer.  Opening makes the
\* deferred writer first; closing and printing take the writer to be there.
Calls ==
  [object |-> <<"ensure", "name", "lbrace">>, item |-> <<"ensure", "lbrace">>,
   array |-> <<"ensure", "name", "lbracket">>, end |-> <<"rbrace">>, end_array |-> <<"rbracket">>,
   fields |-> <<"name", "value">>, values |-> <<"value">>,
   quoted |-> <<"name", "malformed">>]

\* The call that shows a string of the module: fields, unless a character of it is
\* one that the writer puts out as it must not.
Texts == {IF jsonw_puts(c) = "value" THEN "fields" ELSE "quoted" : c \in Chars}

WriterStep(o, step) ==
  IF o.crashed THEN o
  ELSE IF step = "ensure" THEN ensure_plain_writer(o)
  ELSE IF ~is_json_context(o) THEN o
  ELSE IF ~o.jw THEN Crash(o)
  ELSE CASE step \in {"lbrace", "lbracket"} -> jsonw_begin(o, step)
         [] step \in {"rbrace", "rbracket"} -> jsonw_end(o, step)
         [] step = "name" -> jsonw_name(o)
         [] OTHER -> jsonw_value(o, step)

\* The outputs (there is one) that come of a sequence of calls.  A run of fields
\* or of values leaves the writer as one of them does.
Play(o, calls) ==
  FoldLeft(LAMBDA outs, call :
             FoldLeft(LAMBDA ps, step : {WriterStep(p, step) : p \in ps}, outs, Calls[call]),
           {o}, calls)

\* A document that its reader accepts to the end.
Complete(o) == o.valid /\ ~o.crashed /\ o.open = <<>>
=============================================================================
