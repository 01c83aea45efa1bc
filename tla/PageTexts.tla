------------------------------ MODULE PageTexts ------------------------------
(***************************************************************************)
(* The texts of a page: sequences of pieces, which are tokens (readable    *)
(* words, runs of characters, digits) and the characters between them,     *)
(* each with the number of times it is percent-encoded.  Two tokens never  *)
(* touch.  Words joined by "_", "-", "." or by their case are one token.   *)
(***************************************************************************)
EXTENDS Naturals, Sequences

Word(ws) == [k |-> "word", e |-> 0, w |-> ws]
Run(rs) == [k |-> "run", e |-> 0, r |-> rs]
Digits(n) == [k |-> "digits", e |-> 0, n |-> n]
Char(c) == [k |-> c, e |-> 0]

Pieces ==
    [k : {"word"}, e : Nat, w : Seq(STRING)]
    \cup [k : {"run"}, e : Nat, r : Seq([c : STRING, n : Nat, hex : BOOLEAN])]
    \cup [k : {"digits"}, e : Nat, n : Nat]
    \cup [k : STRING, e : Nat]

IsToken(p) == p.k \in {"word", "run", "digits"}
=============================================================================
