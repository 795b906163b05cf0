------------------------------ MODULE JSONText ------------------------------
(***************************************************************************)
(* What the readers of JSON (uJSON.cpp) share: how they go over spaces,    *)
(* comments, numbers and strings of a text.  JSON has the readers, and     *)
(* says what a text is.                                                    *)
(*                                                                         *)
(* A scanner is an operator from a position to a verdict and a position.   *)
(* Its loops are recursive functions of the position, which only grows.    *)
(***************************************************************************)
EXTENDS Integers, Sequences, FiniteSetsExt

CONSTANT NumberSize  \* the longest number the buffer of the context holds

ASSUME TextAssumption == NumberSize \in Nat

\* A text: its characters, without the terminator.
Texts == Seq(STRING \ {"end"})

\* p is the position of ptrptr, on the last character read; v is "ok" or why the
\* reader returns false.
At(t, p) == IF p \in DOMAIN t THEN t[p] ELSE "end"

\* From before the text to its terminator.
Positions(t) == 0..Len(t) + 1

Ok(p) == [v |-> "ok", p |-> p]
More(p) == [v |-> "more", p |-> p]
Wrong(p) == [v |-> "syntax", p |-> p]
Silent(p) == [v |-> "silent", p |-> p]
End(p) == [v |-> "end", p |-> p]

First(t, p, chars) == Min({q \in p..Len(t) + 1 : At(t, q) \in chars \cup {"end"}})

-----------------------------------------------------------------------------
(* Spaces and comments.                                                    *)

\* What follows the "*" is not looked at.
BlockEndAtStar(t, q) ==
  LET end[i \in Positions(t)] ==
        CASE At(t, i) = "end" \/ At(t, i + 1) = "end" -> Ok(Len(t))
          [] At(t, i) = "*" /\ At(t, i + 1) # "end" -> Ok(i + 1)
          [] OTHER -> end[i + 1]
  IN end[q]

\* From q on, the end of a block comment; a "*" takes its successor with it, and
\* the end of the text is as good.
BlockEnd(t, q) ==
  LET end[i \in Positions(t)] ==
        CASE At(t, i) = "end" -> Ok(i - 1)
          [] At(t, i) = "*" /\ At(t, i + 1) = "end" -> Ok(i)
          [] At(t, i) = "*" /\ At(t, i + 1) = "/" -> Ok(i + 1)
          [] At(t, i) = "*" /\ At(t, i + 1) \notin {"/", "end"} -> end[i + 2]
          [] OTHER -> end[i + 1]
  IN end[q]

\* From the first "/" to the last character of the comment, a line end excluded.
skip_comment(t, p) ==
  CASE At(t, p + 1) = "end" -> More(p + 1)
    [] At(t, p + 1) = "/" -> Ok(First(t, p + 2, {"nl"}) - 1)
    [] At(t, p + 1) = "*" -> BlockEnd(t, p + 2)
    [] OTHER -> Wrong(p + 1)

Space == {" ", "nl"}

\* A loop goes on after a comment c, if it is one.
After(c, loop, step) == IF c.v = "ok" THEN loop[c.p + step] ELSE c

\* The loops over spaces and comments, up to a character that counts.
Beyond(t, p) ==
  LET beyond[i \in Positions(t)] ==
        CASE At(t, i + 1) \in Space -> beyond[i + 1]
          [] At(t, i + 1) = "/" -> After(skip_comment(t, i + 1), beyond, 0)
          [] At(t, i + 1) = "end" -> End(i + 1)
          [] OTHER -> Ok(i + 1)
  IN beyond[p]

\* The loop that looks for the root from p on.  After a comment, JsonCheck and
\* JsonParse (0) look at its last character again, and JsonCall (1) beyond it.
Opening(t, p, step) ==
  LET open[i \in Positions(t)] ==
        CASE At(t, i) \in Space -> open[i + 1]
          [] At(t, i) = "/" -> After(skip_comment(t, i), open, step)
          [] At(t, i) = "end" -> More(i)
          [] At(t, i) = "{" -> Ok(i)
          [] OTHER -> Wrong(i)
  IN open[p]

-----------------------------------------------------------------------------
(* Numbers.                                                                *)

Digit == {"0", "9"}
NonDigit(t, p) == Min({q \in p..Len(t) + 1 : At(t, q) \notin Digit})

Exponent(t, p) ==
  LET q == IF At(t, p + 1) \in {"-", "+"} THEN p + 2 ELSE p + 1
      r == NonDigit(t, q)
  IN CASE At(t, p) # "e" -> Ok(p - 1)
       [] At(t, p) = "e" /\ r = q -> Wrong(q)
       [] OTHER -> IF At(t, r) = "end" THEN More(r) ELSE Ok(r - 1)

Fraction(t, p) ==
  LET r == NonDigit(t, p + 1)
  IN CASE At(t, p) # "." -> Exponent(t, p)
       [] At(t, p) = "." /\ r = p + 1 -> Wrong(p + 1)
       [] OTHER -> IF At(t, r) = "end" THEN More(r) ELSE Exponent(t, r)

\* From "-" or the first digit; after "-" no digit need follow.
check_number(t, p) ==
  LET q == IF At(t, p) = "-" THEN p + 1 ELSE p
      r == NonDigit(t, q)
  IN CASE At(t, q) = "end" -> More(q)
       [] At(t, q) = "inf" -> Ok(q)
       [] At(t, q) = "0" -> Fraction(t, q + 1)
       [] At(t, q) = "9" /\ At(t, r) = "end" -> More(r)
       [] OTHER -> Fraction(t, r)

\* parse_number and call_number copy the number to the buffer of the context.
call_number(t, p) ==
  LET n == check_number(t, p)
  IN IF n.v = "ok" /\ n.p + 1 - p > NumberSize /\ At(t, n.p) # "inf" THEN Wrong(n.p + 1) ELSE n

-----------------------------------------------------------------------------
(* Strings.                                                                *)

Hex == Digit \cup {"D", "d"}
Lead == {"utf2", "utf3"}

\* How far the n characters from p on are in chars, and what is said of the first
\* that is not.
Taken(t, p, n, chars) == Min({q \in p..p + n : q = p + n \/ At(t, q) \notin chars})
Refused(t, p) == IF At(t, p) = "end" THEN More(p) ELSE Wrong(p)

\* From the first byte of a character in UTF-8, with rest as the loop over the string.
Utf8(t, p, rest) ==
  LET n == IF At(t, p) = "utf2" THEN 2 ELSE 3
      k == Taken(t, p + 1, n - 1, {"cont"})
  IN CASE k = p + n -> rest[k - 1]
       [] k # p + n /\ At(t, k) = "end" -> More(k)
       [] OTHER -> Silent(k)

\* The second half of a surrogate pair is tested in its last digit, in vain.
SecondHalf(t, p, taken) ==
  LET k == Taken(t, p + 2, 4, taken)
  IN CASE At(t, p) # "\\" -> Refused(t, p)
       [] At(t, p) = "\\" /\ At(t, p + 1) # "u" -> Refused(t, p + 1)
       [] OTHER -> IF k = p + 6 THEN Wrong(p + 5) ELSE Refused(t, k)

High(t, p) == At(t, p) \in {"D", "d"} /\ At(t, p + 1) = "9"

\* From what follows a "\"; pairs tells whether the reader looks for surrogates.
Escaped(t, p, taken, pairs, rest) ==
  LET k == Taken(t, p + 1, 4, taken)
  IN CASE At(t, p) \in {"Q", "\\", "/"} -> rest[p]
       [] At(t, p) = "u" /\ k = p + 5 /\ ~(pairs /\ High(t, p + 1)) -> rest[k - 1]
       [] At(t, p) = "u" /\ k = p + 5 /\ pairs /\ High(t, p + 1) -> SecondHalf(t, k, taken)
       [] At(t, p) = "u" /\ k # p + 5 -> Refused(t, k)
       [] OTHER -> Refused(t, p)

\* From the quotation mark, the rest of a string; taken are the hexadecimal digits
\* the reader understands.
String(t, p, taken, pairs) ==
  LET rest[i \in Positions(t)] ==
        CASE At(t, i + 1) = "end" -> More(i + 1)
          [] At(t, i + 1) = "Q" -> Ok(i + 1)
          [] At(t, i + 1) = "cont" -> Silent(i + 1)
          [] At(t, i + 1) \in Lead -> Utf8(t, i + 1, rest)
          [] At(t, i + 1) = "\\" -> Escaped(t, i + 2, taken, pairs, rest)
          [] OTHER -> rest[i + 1]
  IN rest[p]

check_string(t, p) == String(t, p, Hex, FALSE)
parse_string(t, p) == String(t, p, Hex, TRUE)

\* No letter is a digit.
call_stringDigits(t, p) == String(t, p, Digit, TRUE)

\* Of the letters in lower case only a.
call_string(t, p) == String(t, p, Hex \ {"d"}, TRUE)

-----------------------------------------------------------------------------
(* What the scanners are expected to do.                                   *)

\* r is what a scanner says that may read from p on: it has stopped in the text, or
\* on its terminator, which it has reached when it asks for more.
Stays(t, p, r) ==
  /\ r.v \in {"ok", "more", "syntax", "silent", "end"}
  /\ r.p \in p..Len(t) + 1
  /\ r.v = "ok" => r.p \in DOMAIN t
  /\ r.v \in {"more", "end"} => r.p = Len(t) + 1

\* No scanner looks beyond the terminator of the text, wherever it begins: no skip_
\* macro and no comment steps over the 0 at the end.
ScannersStay(t) ==
  /\ \A p \in 0..Len(t) : Stays(t, p + 1, Beyond(t, p))
  /\ \A p \in DOMAIN t :
       /\ Stays(t, p, Opening(t, p, 0)) /\ Stays(t, p, Opening(t, p, 1))
       /\ t[p] = "/" => Stays(t, p + 1, skip_comment(t, p))
       /\ t[p] \in Digit \cup {"-"} => /\ Stays(t, p, check_number(t, p))
                                      /\ Stays(t, p, call_number(t, p))
       /\ t[p] = "Q" => /\ Stays(t, p + 1, check_string(t, p))
                        /\ Stays(t, p + 1, parse_string(t, p))
                        /\ Stays(t, p + 1, call_string(t, p))

\* A block comment ends with the first "*/" after its start, unless a "*" before is
\* taken together with the next one; it never ends earlier, and without "*/" not
\* before the text.
BlockComments(t) ==
  \A q \in DOMAIN t :
    LET ends == {i \in q..Len(t) - 1 : t[i] = "*" /\ t[i + 1] = "/"}
        p == BlockEnd(t, q).p
    IN IF ends = {} THEN p = Len(t)
       ELSE LET e == Min(ends)
            IN /\ p >= e + 1
               /\ (~\E i \in q..e - 1 : t[i] = "*" /\ t[i + 1] = "*") => p = e + 1
=============================================================================
