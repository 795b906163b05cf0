-------------------------------- MODULE JSON --------------------------------
(***************************************************************************)
(* The three readers of JSON (uJSON.cpp): JsonCheck accepts or rejects a   *)
(* text, JsonParse builds a tree of nodes, JsonCall tells callbacks what   *)
(* it meets.  Each has its own copy of the grammar; the wide copies are    *)
(* left out.                                                               *)
(*                                                                         *)
(* A text is a sequence of characters; some stand for a class of them: "Q" *)
(* is the quotation mark, "9" a digit but 0, "d" a hexadecimal digit from  *)
(* b to f in lower case, "D" another letter that is one, "lit" true,       *)
(* false, null or nan, "inf" itself, "nl" a line end, "utf2" and "utf3"    *)
(* the first byte of two and of three in UTF-8, "cont" a later one.  Only  *)
(* D9 and d9 begin a surrogate.  Memory does not run out, except in a      *)
(* callback.                                                               *)
(***************************************************************************)
EXTENDS JSONText, SequencesExt

CONSTANTS
  Starts,     \* texts to begin with, the characters to go on with, the bound on the size
  Audiences   \* what the callbacks hear, sets of kinds

Kinds == {"string", "number", "literal", "container"}

ASSUME JSONAssumption ==
  /\ Audiences \subseteq SUBSET Kinds
  /\ \A s \in Starts : s.size \in Nat /\ Len(s.text) <= s.size

VARIABLES
  text,
  start \* what it began with

vars == <<text, start>>

-----------------------------------------------------------------------------
(* What all readers share.                                                 *)

Literal == {"lit", "inf"}

\* The state of a reader has v and p, and more.
Goto(s, r) == [s EXCEPT !.v = r.v, !.p = r.p]
Then(s, F(_)) == IF s.v = "ok" THEN F(s) ELSE s
Is(t, s, c) == At(t, s.p) = c
Syntax(s) == [s EXCEPT !.v = "syntax"]

Skip(t, s) ==
  LET r == Beyond(t, s.p) IN Goto(s, [r EXCEPT !.v = IF @ = "end" THEN "more" ELSE @])

\* After a value: a comma and Repeat, the closing bracket, or an error.
Following(t, s, close, Repeat(_)) ==
  Then(Skip(t, s), LAMBDA n : CASE Is(t, n, ",") -> Repeat(n)
                                [] Is(t, n, close) -> n
                                [] OTHER -> Syntax(n))

-----------------------------------------------------------------------------
(* JsonCheck.                                                              *)

RECURSIVE check_value(_, _), check_array(_, _), check_object(_, _)

check_value(t, s) ==
  Then(Skip(t, s), LAMBDA a :
    CASE Is(t, a, "Q") -> Goto(a, check_string(t, a.p))
      [] At(t, a.p) \in Digit \cup {"-"} -> Goto(a, check_number(t, a.p))
      [] Is(t, a, "{") -> check_object(t, a)
      [] Is(t, a, "[") -> check_array(t, a)
      [] At(t, a.p) \in Literal -> a
      [] OTHER -> Syntax(a))

\* The first bracket that closes is not looked for.
check_array_value(t, s) ==
  Then(check_value(t, s), LAMBDA e : Following(t, e, "]", LAMBDA n : check_array(t, n)))

check_array(t, s) ==
  Then(Skip(t, s), LAMBDA a :
    IF Is(t, a, "]") THEN a
    ELSE Then(check_value(t, [a EXCEPT !.p = @ - 1]), LAMBDA e :
           Following(t, e, "]", LAMBDA n : check_array(t, n))))

check_object(t, s) ==
  Then(Skip(t, s), LAMBDA a :
    CASE Is(t, a, "}") -> a
      [] Is(t, a, "Q") ->
           Then(Goto(a, check_string(t, a.p)), LAMBDA k :
             Then(Skip(t, k), LAMBDA c :
               IF ~Is(t, c, ":") THEN Syntax(c)
               ELSE Then(check_value(t, c), LAMBDA e :
                      Following(t, e, "}", LAMBDA n : check_object(t, n)))))
      [] OTHER -> Syntax(a))

\* After the root, spaces and comments only.
Closing(t, s) ==
  LET r == Beyond(t, s.p)
  IN CASE r.v = "end" -> [s EXCEPT !.p = r.p] [] r.v = "ok" -> Goto(s, Wrong(r.p)) [] OTHER -> Goto(s, r)

JsonCheck(t) ==
  Then(Opening(t, 1, 0), LAMBDA o : Then(check_object(t, o), LAMBDA r : Closing(t, r)))

-----------------------------------------------------------------------------
(* JsonParse.  The nodes made, those that belong to the node being built,  *)
(* and the destroyed ones in order.                                        *)

Made(s, node) == [s EXCEPT !.made = @ \cup {node}, !.own = {node}]
Destroy(s, nodes) == [s EXCEPT !.gone = @ \o SetToSeq(nodes)]
Joined(s, own) == [s EXCEPT !.own = @ \cup own]

RECURSIVE parse_node(_, _), parse_array(_, _), parse_object(_, _)

\* What the node owns is forgotten.
SettledAlone(r) ==
  IF r.v = "ok" \/ r.own = {} THEN r
  ELSE [Destroy(r, {n \in r.own : \A m \in r.own : n.at <= m.at}) EXCEPT !.own = {}]

\* A node that cannot be completed is destroyed with all that it owns.
Settled(r) ==
  IF r.v = "ok" \/ r.own = {} THEN r ELSE [Destroy(r, r.own) EXCEPT !.own = {}]

parse_node(t, s) ==
  Then(Skip(t, s), LAMBDA a :
    LET b == Made(a, [kind |-> "value", at |-> a.p])
    IN Settled(CASE Is(t, a, "Q") -> Goto(b, parse_string(t, a.p))
                 [] At(t, a.p) \in Digit \cup {"-"} -> Goto(b, call_number(t, a.p))
                 [] Is(t, a, "{") -> parse_object(t, b)
                 [] Is(t, a, "[") -> parse_array(t, b)
                 [] At(t, a.p) \in Literal -> b
                 [] OTHER -> Syntax(a)))

parse_array(t, s) ==
  Then(Skip(t, s), LAMBDA a :
    IF Is(t, a, "]") THEN a
    ELSE Then(Joined(parse_node(t, [a EXCEPT !.p = @ - 1, !.own = {}]), a.own), LAMBDA e :
           Following(t, e, "]", LAMBDA n : parse_array(t, n))))

\* The key is destroyed on every error, also on one after the object has become its
\* owner, when its value has been added and n should be a comma or the bracket.
Separated(t, key, n) ==
  IF n.v = "ok" /\ At(t, n.p) \in {",", "}"} THEN n
  ELSE Destroy(IF n.v = "ok" THEN Syntax(n) ELSE n, {key})

Added(t, a, key, e) ==
  IF e.v # "ok" THEN [Destroy(e, {key}) EXCEPT !.own = a.own]
  ELSE Separated(t, key, Skip(t, Joined(e, a.own \cup {key})))

\* One member, of a whose first character is its key's.
Member(t, a) ==
  LET key == [kind |-> "key", at |-> a.p]
  IN Added(t, a, key,
       Then(Goto(Made(a, key), parse_string(t, a.p)), LAMBDA x : Then(Skip(t, x), LAMBDA c :
         IF Is(t, c, ":") THEN parse_node(t, [c EXCEPT !.own = {}]) ELSE Syntax(c))))

parse_object(t, s) ==
  Then(Skip(t, s), LAMBDA a :
    CASE Is(t, a, "}") -> a
      [] Is(t, a, "Q") -> Then(Member(t, a), LAMBDA n :
                            IF Is(t, n, ",") THEN parse_object(t, n) ELSE n)
      [] OTHER -> Syntax(a))

JsonParse(t) ==
  LET begin == [v |-> "ok", p |-> 0, made |-> {}, own |-> {}, gone |-> <<>>]
  IN Then(Goto(begin, Opening(t, 1, 0)), LAMBDA o :
       Settled(Then(parse_object(t, Made(o, [kind |-> "value", at |-> o.p])),
                    LAMBDA x : Closing(t, x))))

-----------------------------------------------------------------------------
(* JsonCall.  The table of callbacks is known by its target, the container *)
(* whose start has installed it, 0 for the root; heard are the kinds it    *)
(* has a callback for; the boom-th callback throws.                        *)

Tell(s, what, at, parent, noerror) ==
  LET n == Len(s.log) + 1
  IN [s EXCEPT !.log = Append(@, [what |-> what, at |-> at, parent |-> parent,
                                  target |-> s.cb, noerror |-> noerror]),
               !.v = IF n = s.boom THEN "memory" ELSE @]

Value(s, at) == Tell(s, "value", at, s.cb, TRUE)

RECURSIVE call_node(_, _), call_array(_, _), call_object(_, _)

\* The table is put back only if nothing has failed.
ContainerKeepsTable(t, a) ==
  Then([Tell(a, "start", a.p, a.cb, TRUE) EXCEPT !.cb = a.p], LAMBDA b :
    LET r == IF Is(t, a, "{") THEN call_object(t, b) ELSE call_array(t, b)
    IN IF r.v = "ok" THEN [Tell(r, "end", a.p, a.cb, TRUE) EXCEPT !.cb = a.cb]
                     ELSE Tell(r, "end", a.p, a.cb, FALSE))

\* An object or array in one: the start installs a table, the end is taken from the
\* table there is then, and the old one put back unless the start has thrown.
Container(t, a) ==
  Then([Tell(a, "start", a.p, a.cb, TRUE) EXCEPT !.cb = a.p], LAMBDA b :
    LET r == IF Is(t, a, "{") THEN call_object(t, b) ELSE call_array(t, b)
    IN [Tell(r, "end", a.p, a.cb, r.v = "ok") EXCEPT !.cb = a.cb])

\* json_call_object_node and json_call_array_node: what nobody hears is checked.
call_node(t, s) ==
  Then(Skip(t, s), LAMBDA a :
    CASE Is(t, a, "Q") ->
           IF "string" \in a.heard
           THEN Then(Goto(a, call_string(t, a.p)), LAMBDA b : Value(b, a.p))
           ELSE Goto(a, check_string(t, a.p))
      [] At(t, a.p) \in Digit \cup {"-"} ->
           IF "number" \in a.heard
           THEN Then(Goto(a, call_number(t, a.p)), LAMBDA b : Value(b, a.p))
           ELSE Goto(a, check_number(t, a.p))
      [] At(t, a.p) \in {"{", "["} ->
           IF "container" \in a.heard THEN Container(t, a)
           ELSE IF Is(t, a, "{") THEN check_object(t, a) ELSE check_array(t, a)
      [] At(t, a.p) \in Literal -> IF "literal" \in a.heard THEN Value(a, a.p) ELSE a
      [] OTHER -> Syntax(a))

\* The tail as in the branch nobody hears.
call_arrayFirst(t, s) ==
  Then(Skip(t, s), LAMBDA a :
    IF Is(t, a, "]") THEN a
    ELSE Then(call_node(t, [a EXCEPT !.p = @ - 1]), LAMBDA e :
           Following(t, e, "]", LAMBDA n : check_array(t, n))))

call_array(t, s) ==
  Then(Skip(t, s), LAMBDA a :
    IF Is(t, a, "]") THEN a
    ELSE Then(call_node(t, [a EXCEPT !.p = @ - 1]), LAMBDA e :
           Following(t, e, "]", LAMBDA n : call_array(t, n))))

call_object(t, s) ==
  Then(Skip(t, s), LAMBDA a :
    CASE Is(t, a, "}") -> a
      [] Is(t, a, "Q") ->
           Then(Goto(a, call_string(t, a.p)), LAMBDA k :
             Then(Skip(t, k), LAMBDA c :
               IF ~Is(t, c, ":") THEN Syntax(c)
               ELSE Then(call_node(t, c), LAMBDA e :
                      Following(t, e, "}", LAMBDA n : call_object(t, n)))))
      [] OTHER -> Syntax(a))

JsonCall(t, heard, boom) ==
  LET begin == [v |-> "ok", p |-> 0, cb |-> 0, heard |-> heard, boom |-> boom, log |-> <<>>]
  IN Then(Goto(begin, Opening(t, 1, 1)), LAMBDA o :
       Then(Tell(o, "start", 0, 0, TRUE), LAMBDA b :
         LET r == call_object(t, b)
         IN Then(Tell(r, "end", 0, 0, r.v = "ok"), LAMBDA e : Closing(t, e))))

-----------------------------------------------------------------------------
(* Texts grow as long as one of the readers could accept more.             *)

checked == JsonCheck(text)
parsed == JsonParse(text)
called == JsonCall(text, Kinds, 0)

Init == start \in Starts /\ text = start.text

Next ==
  /\ Len(text) < start.size
  /\ \E r \in {checked, Goto(checked, parsed), Goto(checked, called)} :
       r.v = "ok" \/ r.p > Len(text)
  /\ \E c \in start.letters : text' = Append(text, c)
  /\ UNCHANGED start

Spec == Init /\ [][Next]_vars

-----------------------------------------------------------------------------
(* What the readers are expected to do.                                    *)

Readings == {checked, Goto(checked, parsed), Goto(checked, called)}
Occurs(c) == \E i \in DOMAIN text : text[i] = c

\* Readers end with a verdict and never look beyond the terminator of the text,
\* which they have reached when they accept it (no skip_ macro and no comment steps
\* over the 0 at the end).
TypeOK ==
  /\ start \in Starts /\ Len(text) <= start.size /\ text \in Texts
  /\ \A r \in Readings : /\ r.v \in {"ok", "more", "syntax", "silent"}
                         /\ r.p \in 1..Len(text) + 1
                         /\ r.v = "ok" => r.p = Len(text) + 1

Digits(s) == s # <<>> /\ \A i \in DOMAIN s : s[i] \in Digit
Cut(s, i, j) == SubSeq(s, i, j)
Rest(s, i) == SubSeq(s, i, Len(s))

\* The regular expression in the comments of json_check_number and its copies,
\* (-)?(0|[1-9][0-9]*)(\.[0-9]+)?([eE][-+]?[0-9]+)?
IsNumber(s) ==
  LET Integer(x) == x = <<"0">> \/ (Digits(x) /\ x[1] # "0")
      Frac(x) == x = <<>> \/ (x[1] = "." /\ Digits(Tail(x)))
      Exp(x) == x = <<>> \/ (x[1] = "e" /\ \E k \in {2, 3} :
                  Digits(Rest(x, k)) /\ (k = 3 => x[2] \in {"-", "+"}))
  IN \E i, j \in 0..Len(s) :
       /\ i <= j /\ Frac(Cut(s, i + 1, j)) /\ Exp(Rest(s, j + 1))
       /\ Integer(Cut(s, 1, i)) \/ (i > 1 /\ s[1] = "-" /\ Integer(Cut(s, 2, i)))

RECURSIVE IsInside(_), IsValue(_), IsElements(_), IsMembers(_)

IsInside(s) ==
  LET Begins(unit, n) == Len(s) >= n /\ unit /\ IsInside(Rest(s, n + 1))
      All(i, j, chars) == \A k \in i..j : s[k] \in chars
  IN \/ s = <<>>
     \/ Begins(s[1] \notin {"Q", "\\", "cont"} \cup Lead, 1)
     \/ Begins(s[1] = "utf2" /\ s[2] = "cont", 2)
     \/ Begins(s[1] = "utf3" /\ All(2, 3, {"cont"}), 3)
     \/ Begins(s[1] = "\\" /\ s[2] \in {"Q", "\\", "/"}, 2)
     \/ Begins(s[1] = "\\" /\ s[2] = "u" /\ All(3, 6, Hex), 6)

Between(s, open, close) == Len(s) > 1 /\ s[1] = open /\ s[Len(s)] = close
Inner(s) == SubSeq(s, 2, Len(s) - 1)
IsString(s) == Between(s, "Q", "Q") /\ IsInside(Inner(s))
IsObject(s) == Between(s, "{", "}") /\ IsMembers(Inner(s))

IsValue(s) ==
  \/ s \in {<<"lit">>, <<"inf">>, <<"-", "inf">>}
  \/ IsNumber(s) \/ IsString(s) \/ IsObject(s)
  \/ Between(s, "[", "]") /\ IsElements(Inner(s))

IsElements(s) ==
  s = <<>> \/ \E i \in 1..Len(s) :
    /\ i = Len(s) \/ (s[i + 1] = "," /\ IsElements(Rest(s, i + 2)))
    /\ IsValue(Cut(s, 1, i))

IsMembers(s) ==
  s = <<>> \/ \E i, j \in 1..Len(s) :
    /\ i + 1 < j /\ s[i + 1] = ":" /\ IsString(Cut(s, 1, i))
    /\ j = Len(s) \/ (s[j + 1] = "," /\ IsMembers(Rest(s, j + 2)))
    /\ IsValue(Cut(s, i + 2, j))

\* The grammar is one of texts without comments and spaces.
Dense == \A c \in Space \cup {"/"} : ~Occurs(c)

\* A number begins with a "-" that no digit follows.
BareMinus ==
  \E i \in DOMAIN text : /\ text[i] = "-" /\ At(text, i - 1) # "e"
                         /\ At(text, i + 1) \notin Digit \cup {"inf"}

\* JsonCheck, a pass over the characters with three functions that call each other,
\* accepts the texts that the grammar derives, and no others (a comma may end a
\* list; the root is an object).  Texts with a bare "-", where the code breaks the
\* regular expression, are left to NumbersAsDocumented.
Grammar == Dense /\ ~BareMinus => (checked.v = "ok" <=> IsObject(text))

\* What the comments of the three scanners of numbers say: no reader accepts a text
\* that the grammar with their regular expression does not derive.  Violated: after
\* "-" the integer may be missing, and {"":-} is accepted.
NumbersAsDocumented == Dense => \A r \in Readings : r.v = "ok" => IsObject(text)

\* A number too long for the buffer; the digits after \u are none.
LongNumber == \E i, j \in DOMAIN text :
  /\ j - i >= NumberSize /\ At(text, i - 1) \notin {"u"} \cup Hex
  /\ \A k \in i..j : text[k] \in Digit \cup {"-", "+", ".", "e"}

\* What may be the first half of a surrogate pair, and a hexadecimal digit that
\* JsonCall does not understand.
Surrogate == \E i \in DOMAIN text : text[i] = "u" /\ High(text, i + 1)
SmallLetter == Occurs("d")

\* The three copies of the grammar agree, whatever the callbacks of JsonCall hear:
\* what JsonParse accepts JsonCheck accepts, and the other way round but for numbers
\* longer than the buffer and surrogates; what JsonCall accepts JsonCheck accepts,
\* and JsonCall what JsonParse does, but for \u with b to f.  Texts that begin
\* with a comment are excluded: JsonCheck and JsonParse read its end again.
SameLanguage ==
  LET Verdicts(check, parse) ==
        /\ parse = "ok" => check = "ok"
        /\ check = "ok" /\ ~Surrogate /\ ~LongNumber => parse = "ok"
        /\ \A heard \in Audiences :
             LET Call(call) == /\ call = "ok" => check = "ok"
                               /\ parse = "ok" /\ ~SmallLetter => call = "ok"
             IN Call(JsonCall(text, heard, 0).v)
  IN (At(text, 1) \notin {"/", "nl"}) => Verdicts(checked.v, parsed.v)

\* When JsonParse fails, at whatever depth, every node it has made is destroyed;
\* when it succeeds, the tree owns all of them.
NothingLeaks(r) ==
  IF r.v = "ok" THEN r.gone = <<>> /\ r.own = r.made ELSE r.made = ToSet(r.gone)

\* No value is destroyed twice.  A key is when its object fails after the value has
\* been added (json_parse_object destroys the key it has handed over): at most one
\* key of a text, as only the object that fails itself gets there.
ValueDestroyedOnce(r) ==
  LET Times(n) == Cardinality({i \in DOMAIN r.gone : r.gone[i] = n})
      Twice == {n \in ToSet(r.gone) : Times(n) > 1}
  IN Cardinality(Twice) <= 1 /\ \A n \in Twice : n.kind = "key" /\ Times(n) = 2

\* In the log of c, whose boom-th callback threw, starts and ends are pairs.
Pairs(c, log, boom) ==
  LET thrown == boom \in DOMAIN log /\ log[boom].what = "start"
      EndsOf(i) == {j \in DOMAIN log : log[j].what = "end" /\ log[j].at = log[i].at}
  IN /\ \A i \in DOMAIN log : log[i].what = "start" /\ i # boom =>
          \E j \in EndsOf(i) :
            /\ EndsOf(i) = {j} /\ j > i /\ log[j].parent = log[i].parent
            /\ ~thrown => log[j].target = log[i].at
            /\ log[j].noerror => boom \notin i..j - 1
     /\ ~thrown => c.cb = 0
     /\ c.v = "ok" => \A j \in DOMAIN log : log[j].noerror

\* Whatever the callbacks hear and whichever of them throws: a container whose start
\* has returned gets its end, once, with the parent of its start and by the table
\* that start has installed, and when no start throws the first table is back.  (When
\* a start throws, its parent's end is taken from the table of the container that
\* never was.)  A reading that succeeds tells no end of an error, and one in whose
\* container a callback has thrown tells its end of it.
EndsPaired ==
  LET Paired(c, boom) == Pairs(c, c.log, boom)
  IN \A heard \in Audiences : \A boom \in 0..Len(JsonCall(text, heard, 0).log) :
       Paired(JsonCall(text, heard, boom), boom)

\* With all callbacks JsonCall tells of exactly the nodes that JsonParse makes of the
\* same text, each once and in the order of the text.
ToldAsBuilt ==
  LET Values(nodes) == {n.at : n \in {m \in nodes : m.kind = "value"}}
      Same(told, values) ==
        /\ \A i, j \in DOMAIN told : i < j => told[i].at < told[j].at
        /\ {told[i].at : i \in DOMAIN told} = values \ {Min(values)}
      Agree(p, c) ==
        p.v = "ok" /\ c.v = "ok" =>
          Same(SelectSeq(c.log, LAMBDA e : e.what # "end" /\ e.at > 0), Values(p.made))
  IN Agree(parsed, called)

\* Readers and scanners stop where the text does, and comments where they end.
Boundaries == TypeOK /\ ScannersStay(text) /\ BlockComments(text)

\* Every node is owned by the tree or destroyed, and a value not twice.
NodesOwned ==
  LET Owned(r) == NothingLeaks(r) /\ ValueDestroyedOnce(r) IN Owned(parsed)
=============================================================================
