----------------------------- MODULE ModelNames -----------------------------
(***************************************************************************)
(* nibe::parse_model(): the name under which the catalog knows a model,    *)
(* out of the text with which a NIBE pump announces itself.  A text is a   *)
(* sequence of words and of the marks "space", "dash" and "comma".         *)
(***************************************************************************)
EXTENDS Integers, Sequences, SequencesExt

\* First words that name a family; the model is in the word after them.
Families == {<<"VVM">>, <<"SMO">>, <<"Tehowatti">>, <<"STAR">>}

Before(text, marks) ==
  LET at == SelectInSeq(text, LAMBDA t : t \in marks)
  IN  IF at = 0 THEN text ELSE SubSeq(text, 1, at - 1)

\* What follows the first word and the space behind it; nothing if it is the only.
AfterFirst(text) == SubSeq(text, Len(Before(text, {"space"})) + 2, Len(text))

\* A name that runs on: all that follows a family belongs to it.
WholeNameRunsOn(text) ==
  LET first == Before(text, {"space"})
  IN  IF first \in Families THEN first \o AfterFirst(text) ELSE first

WholeName(text) ==
  LET first == Before(text, {"space"})
  IN  IF first \in Families THEN first \o Before(AfterFirst(text), {"space"}) ELSE first

\* The empty name stands for a frame too short to hold one.
ParseModel(text) == Before(WholeName(text), {"dash", "comma"})
=============================================================================
