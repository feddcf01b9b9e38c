------------------------------ MODULE SbplLex ------------------------------
(***************************************************************************)
(* The surface lexer for (import "NAME") references, sbpl_lex.rs.          *)
(*                                                                         *)
(* A source is a sequence of symbols: the bytes the lexer tells apart, "a" *)
(* and "b" for any other, and "import" for the bytes of the keyword.  A    *)
(* position past the end is Len(t) + 1.  A reference is the sequence of    *)
(* the symbols of its name.                                                *)
(***************************************************************************)
EXTENDS Naturals, Sequences, FiniteSets, FiniteSetsExt, SequencesExt

CONSTANT Sources   \* the sources scanned

VARIABLE lx

is_ws(c) == c \in {" ", "\n"}

\* The first position from i on where stop holds, or the end.
until(t, i, stop(_)) == Min({k \in i..Len(t) : stop(t[k])} \cup {Len(t) + 1})

skip_ws(t, i) == until(t, i, LAMBDA c : ~is_ws(c))
skip_comment(t, i) == until(t, i, LAMBDA c : c = "\n")

skip_string(t, start) ==
  LET RECURSIVE inside(_)
      inside(i) == IF i > Len(t) THEN Len(t) + 1
                   ELSE IF t[i] = "\\" THEN inside(i + 2)
                   ELSE IF t[i] = "\"" THEN i + 1
                   ELSE inside(i + 1)
  IN inside(start + 1)

FormMatch(kind, name, next) == [kind |-> kind, name |-> name, next |-> next]
NoMatch == FormMatch("none", <<>>, 0)

\* The literal form whose name opens at the quote q.
try_match_keyword_form(t, q) ==
  LET RECURSIVE named(_, _)
      named(i, name) ==
        IF i > Len(t) THEN [name |-> name, next |-> i]
        ELSE IF t[i] = "\\" /\ i < Len(t) THEN named(i + 2, Append(name, t[i + 1]))
        ELSE IF t[i] = "\"" THEN [name |-> name, next |-> i + 1]
        ELSE named(i + 1, Append(name, t[i]))
      literal == named(q + 1, <<>>)
      close == skip_ws(t, literal.next)
  IN IF close <= Len(t) /\ t[close] = ")" /\ literal.name # <<>>
     THEN FormMatch("literal", literal.name, close + 1) ELSE NoMatch

\* Past the parenthesis that closes the form i is in.
skip_form(t, start) ==
  LET RECURSIVE within(_, _)
      within(i, depth) ==
        IF i > Len(t) \/ depth = 0 THEN i
        ELSE CASE t[i] = ";" -> within(skip_comment(t, i), depth)
               [] t[i] = "\"" -> within(skip_string(t, i), depth)
               [] t[i] = "(" -> within(i + 1, depth + 1)
               [] t[i] = ")" -> within(i + 1, depth - 1)
               [] OTHER -> within(i + 1, depth)
  IN within(start, 1)

try_match_form(t, start) ==
  LET k == skip_ws(t, start + 1)
      argument == skip_ws(t, k + 1)
  IN IF \/ k > Len(t) \/ t[k] # "import"
        \/ k + 1 > Len(t) \/ ~is_ws(t[k + 1])
        \/ argument > Len(t)
     THEN NoMatch
     ELSE IF t[argument] = "\"" THEN try_match_keyword_form(t, argument)
     ELSE FormMatch("nonliteral", <<>>, skip_form(t, argument))

import_scan(t) ==
  LET RECURSIVE scan(_, _, _)
      scan(i, refs, complete) ==
        IF i > Len(t) THEN [refs |-> refs, scan_complete |-> complete]
        ELSE LET form == IF t[i] = "(" THEN try_match_form(t, i) ELSE NoMatch
             IN CASE t[i] = ";" -> scan(skip_comment(t, i), refs, complete)
                  [] t[i] = "\"" -> scan(skip_string(t, i), refs, complete)
                  [] form.kind = "literal" -> scan(form.next, refs \cup {form.name}, complete)
                  [] form.kind = "nonliteral" -> scan(form.next, refs, FALSE)
                  [] OTHER -> scan(i + 1, refs, complete)
  IN scan(1, {}, TRUE)

LexStarts == {[source |-> t, result |-> {}] : t \in Sources}

Scan == lx.result = {} /\ lx' = [lx EXCEPT !.result = {import_scan(lx.source)}]

-----------------------------------------------------------------------------
(* The reference: what each position of a source is part of, read from left *)
(* to right without matching any form.                                      *)

after(state, c) ==
  CASE state = "comment" -> IF c = "\n" THEN "code" ELSE "comment"
    [] state = "escape" -> "string"
    [] state = "string" -> IF c = "\\" THEN "escape" ELSE IF c = "\"" THEN "code" ELSE "string"
    [] OTHER -> IF c = ";" THEN "comment" ELSE IF c = "\"" THEN "string" ELSE "code"

contexts(t) == FoldLeft(LAMBDA s, c : Append(s, after(Last(s), c)), <<"code">>, t)

blank(t, i, j) == \A k \in i + 1..j - 1 : is_ws(t[k])

\* Where (import, followed by white space, has its argument.
arguments(t, context) ==
  {k \in DOMAIN t : ~is_ws(t[k]) /\ \E p, w \in 1..k - 2 :
     /\ p < w /\ t[p] = "(" /\ context[p] = "code" /\ blank(t, p, w)
     /\ t[w] = "import" /\ blank(t, w, k)}

\* The names of the forms whose argument is one whole nonempty string.
literals(t, context) ==
  LET isText(k) == context[k] # "string" \/ t[k] # "\\"
      ends == {k \in DOMAIN t : context[k] = "string" /\ t[k] = "\""}
      quoted == {<<q, e>> \in arguments(t, context) \X ends :
                   /\ t[q] = "\"" /\ q + 1 < e /\ q..e \cap ends = {e}
                   /\ \E c \in e + 1..Len(t) : t[c] = ")" /\ blank(t, e, c)}
      body(q, e) == SelectSeq([i \in 1..e - q - 1 |-> q + i], isText)
  IN {[i \in DOMAIN body(x[1], x[2]) |-> t[body(x[1], x[2])[i]]] : x \in quoted}

\* A scan reports only imports that stand in code, never one spelled in a string or
\* a comment.  It says it is complete exactly when no import has an argument other
\* than a string, and then it reports every literal import of the source.
ScanIsExact ==
  \A r \in lx.result :
    LET t == lx.source
        context == contexts(t)
        names == literals(t, context)
    IN /\ r.refs \subseteq names
       /\ r.scan_complete = (\A k \in arguments(t, context) : t[k] = "\"")
       /\ r.scan_complete => r.refs = names
=============================================================================
