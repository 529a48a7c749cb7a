------------------------------- MODULE Lexer -------------------------------
(***************************************************************************)
(* The JavaScript scanner (crates/inty/src/frontends/javascript/lexer).   *)
(*                                                                         *)
(* A source text is a sequence of atoms.  A word or a run of digits is one *)
(* atom, every other atom is one character, so that the cases where a      *)
(* character decides (longest match, escapes, comment ends, nesting) are   *)
(* decided here as they are in the scanner.                                *)
(*                                                                         *)
(* The scanner is a record: the text, the position i of the next atom, the *)
(* tokens so far, whether a `/` would start a regex, the template depth,   *)
(* the last identifier, the annotations and aliases collected so far, and  *)
(* whether scanning failed.  A token carries nl, whether a line terminator *)
(* separates it from the token before it.                                  *)
(***************************************************************************)
EXTENDS Integers, Sequences, SequencesExt

Tick     == "tick"                                  \* the template quote
Nul      == "nul"
Newlines == {"\n", "\r"}
Blanks   == Newlines \cup {" ", "\t"}
Digits   == {"0", "1", "2", "5", "10"}
Marks    == {"(", ")", "{", "}", "[", "]", ",", ";", ":", "?", "~", "+", "-", "*", "/", "%", "<",
             ">", "=", "!", "&", "|", "^", ".", "\"", "'", Tick, "\\", "$", "#", "@", "\f",
             Nul}
Eof      == "<eof>"
IsWord(c) == c \notin Blanks \cup Digits \cup Marks \cup {Eof}

Keywords == {"var", "let", "const", "class", "extends", "super", "async", "await", "function",
             "if", "else", "while", "do", "for", "in", "of", "return", "throw", "try", "catch",
             "finally", "switch", "case", "default", "break", "continue", "new", "delete",
             "typeof", "void", "instanceof", "this", "null", "true", "false", "import", "export",
             "from", "as"}

Glue(atoms) == FoldLeft(LAMBDA a, b : a \o b, "", atoms)

Scanner(text) ==
    [text |-> text, i |-> 1, toks |-> <<>>, re |-> TRUE, depth |-> 0, last |-> "",
     anns |-> <<>>, aliases |-> <<>>, from |-> 1, ok |-> TRUE]

At(s, j)     == IF j \in 1..Len(s.text) THEN s.text[j] ELSE Eof
Fail(s)      == [s EXCEPT !.ok = FALSE]
Goto(s, j)   == [s EXCEPT !.i = j]
Find(s, i, P(_)) ==
    IF \E j \in i..Len(s.text) : P(j)
    THEN CHOOSE j \in i..Len(s.text) : P(j) /\ \A m \in i..(j - 1) : ~P(m)
    ELSE Len(s.text) + 1

(***************************************************************************)
(* After these tokens a `/` divides; after every other one it opens a      *)
(* regex.  from is where the text between this token and the next starts.  *)
(***************************************************************************)
EndsOperand == {"ident", "number", "string", "regex", "nosub", "tail", ")", "]", "}", "++", "--",
                "this", "true", "false", "null"}

Push(s, t, v, j) ==
    [s EXCEPT !.toks = Append(@, [t |-> t, v |-> v,
                                  nl |-> \E m \in s.from..(s.i - 1) : s.text[m] \in Newlines]),
              !.i = j, !.from = j]
update_regex_context(s, t, v) ==
    [s EXCEPT !.re = t \notin EndsOperand, !.last = IF t = "ident" THEN v ELSE @]
Emit(s, t, v, j) == update_regex_context(Push(s, t, v, j), t, v)

(***************************************************************************)
(* Operators: the longest spelling that the text continues with.           *)
(***************************************************************************)
scan_plus         == {<<"+">>, <<"+", "+">>, <<"+", "=">>}
scan_minus        == {<<"-">>, <<"-", "-">>, <<"-", "=">>}
scan_star         == {<<"*">>, <<"*", "*">>, <<"*", "*", "=">>, <<"*", "=">>}
scan_slash        == {<<"/">>, <<"/", "=">>}
scan_percent      == {<<"%">>, <<"%", "=">>}
scan_less_than    == {<<"<">>, <<"<", "<">>, <<"<", "<", "=">>, <<"<", "=">>}
scan_greater_than == {<<">">>, <<">", ">">>, <<">", ">", ">">>, <<">", ">", ">", "=">>,
                      <<">", ">", "=">>, <<">", "=">>}
scan_equals       == {<<"=">>, <<"=", "=">>, <<"=", "=", "=">>, <<"=", ">">>}
scan_exclamation  == {<<"!">>, <<"!", "=">>, <<"!", "=", "=">>}
scan_ampersand    == {<<"&">>, <<"&", "&">>, <<"&", "&", "=">>, <<"&", "=">>}
scan_pipe         == {<<"|">>, <<"|", "|">>, <<"|", "|", "=">>, <<"|", "=">>}
scan_caret        == {<<"^">>, <<"^", "=">>}
scan_question(s)  == {<<"?">>, <<"?", "?">>, <<"?", "?", "=">>}
                     \cup (IF At(s, s.i + 2) \in Digits THEN {} ELSE {<<"?", ".">>})
scan_single       == {<<c>> : c \in {"(", ")", "{", "[", "]", ",", ";", ":", "~"}}
scan_dot          == {<<".">>, <<".", ".", ".">>}

Spellings(s) ==
    LET c == At(s, s.i)
    IN  CASE c = "+" -> scan_plus
          [] c = "-" -> scan_minus
          [] c = "*" -> scan_star
          [] c = "/" -> scan_slash
          [] c = "%" -> scan_percent
          [] c = "<" -> scan_less_than
          [] c = ">" -> scan_greater_than
          [] c = "=" -> scan_equals
          [] c = "!" -> scan_exclamation
          [] c = "&" -> scan_ampersand
          [] c = "|" -> scan_pipe
          [] c = "^" -> scan_caret
          [] c = "?" -> scan_question(s)
          [] c = "." -> scan_dot
          [] OTHER   -> scan_single
Matches(s) == {o \in Spellings(s) : \A n \in DOMAIN o : o[n] = At(s, s.i + n - 1)}
Longest(s) == CHOOSE o \in Matches(s) : \A q \in Matches(s) : Len(q) <= Len(o)
Operator(s, o) == Emit(s, Glue(o), Glue(o), s.i + Len(o))

(***************************************************************************)
(* Escapes of strings and templates: [v, n] is the text an escape stands   *)
(* for and the atoms it takes after the backslash.  x and u take the hex   *)
(* digits that follow; an unknown escape is the character itself.          *)
(***************************************************************************)
HexDigits(s, j) ==
    CASE At(s, j) = "000c" -> <<"\f">> [] At(s, j) = "0000" -> <<Nul>> [] OTHER -> <<>>
scan_escape(s, j, template) ==
    CASE At(s, j) = "n" -> [v |-> <<"\n">>, n |-> 1]
      [] At(s, j) = "t" -> [v |-> <<"\t">>, n |-> 1]
      [] At(s, j) = "r" -> [v |-> <<"\r">>, n |-> 1]
      [] At(s, j) = "0" -> [v |-> <<Nul>>, n |-> 1]
      [] At(s, j) \in {"x", "u"} -> [v |-> HexDigits(s, j + 1), n |-> 2]
      [] template /\ At(s, j) = "\n" -> [v |-> <<>>, n |-> 1]
      [] OTHER -> [v |-> <<At(s, j)>>, n |-> 1]

(***************************************************************************)
(* The characters of a string up to its quote, or of a template up to its    *)
(* quote or "${": the content and the position after it, or a failure.           *)
(***************************************************************************)
NoChars == [v |-> <<>>, i |-> 0, sub |-> FALSE, ok |-> FALSE]
RECURSIVE ScanChars(_, _, _, _)
ScanChars(s, j, v, quote) ==
    LET c == At(s, j)
        e == scan_escape(s, j + 1, quote = Tick)
    IN  CASE c = quote -> [v |-> v, i |-> j + 1, sub |-> FALSE, ok |-> TRUE]
          [] c = Eof -> NoChars
          [] c = "\n" /\ quote # Tick -> NoChars
          [] c = "$" /\ quote = Tick /\ At(s, j + 1) = "{" ->
                [v |-> v, i |-> j + 2, sub |-> TRUE, ok |-> TRUE]
          [] c = "\\" ->
                IF At(s, j + 1) = Eof \/ (At(s, j + 1) \in {"x", "u"} /\ e.v = <<>>)
                THEN NoChars
                ELSE ScanChars(s, j + 1 + e.n, v \o e.v, quote)
          [] OTHER -> ScanChars(s, j + 1, Append(v, c), quote)

scan_string(s) ==
    LET r == ScanChars(s, s.i + 1, <<>>, At(s, s.i))
    IN  IF r.ok THEN Emit(s, "string", r.v, r.i) ELSE Fail(s)

scan_template_literal(s) ==
    LET r == ScanChars(s, s.i + 1, <<>>, Tick)
    IN  IF ~r.ok THEN Fail(s)
        ELSE IF r.sub THEN Emit([s EXCEPT !.depth = @ + 1], "head", r.v, r.i)
        ELSE Emit(s, "nosub", r.v, r.i)

scan_template_continuation(s) ==
    LET r == ScanChars(s, s.i + 1, <<>>, Tick)
    IN  IF ~r.ok THEN Fail(s)
        ELSE IF r.sub THEN Emit(s, "middle", r.v, r.i)
        ELSE Emit([s EXCEPT !.depth = @ - 1], "tail", r.v, r.i)

(***************************************************************************)
(* A regex ends at the first slash that is neither escaped nor in a class. *)
(***************************************************************************)
RECURSIVE RegexEnd(_, _, _)
RegexEnd(s, j, inClass) ==
    CASE At(s, j) \in {"\n", Eof} -> 0
      [] At(s, j) = "/" /\ ~inClass -> j
      [] At(s, j) = "[" -> RegexEnd(s, j + 1, TRUE)
      [] At(s, j) = "]" -> RegexEnd(s, j + 1, FALSE)
      [] At(s, j) = "\\" -> RegexEnd(s, j + 2, inClass)
      [] OTHER -> RegexEnd(s, j + 1, inClass)

scan_regex_literal(s) ==
    LET e == RegexEnd(s, s.i + 1, FALSE)
        flags == IF IsWord(At(s, e + 1)) THEN 1 ELSE 0
    IN  IF e = 0 \/ e > Len(s.text) THEN Fail(s)
        ELSE Emit(s, "regex", SubSeq(s.text, s.i + 1, e - 1) \o SubSeq(s.text, e, e + flags),
                  e + 1 + flags)

scan_slash_or_regex(s) == IF s.re THEN scan_regex_literal(s) ELSE Operator(s, Longest(s))

(***************************************************************************)
(* Numbers and names.  A zero with no digit, dot or radix behind it is a   *)
(* token of its own.  The value of a number is its shortest decimal        *)
(* spelling, for the exponent and the radix digits of the texts at hand.   *)
(***************************************************************************)
RadixValue    == [xF |-> "15", b1 |-> "1"]
RadixWords    == DOMAIN RadixValue
ExponentWords == {"e5"}
scan_decimal_digits(s, j) == Find(s, j, LAMBDA m : At(s, m) \notin Digits)

Fraction(s, j) ==      \* the digits from j on and the exponent behind them
    LET e == scan_decimal_digits(s, j)
    IN  [digits |-> Glue(SubSeq(s.text, j, e - 1)),
         exp    |-> IF At(s, e) \in ExponentWords THEN At(s, e) ELSE "",
         i      |-> IF At(s, e) \in ExponentWords THEN e + 1 ELSE e]
NumberValue(int, fr) ==
    CASE fr.exp # "" -> int \o (IF fr.digits = "" THEN "00000" ELSE fr.digits \o "0000")
      [] fr.digits = "" -> int
      [] OTHER -> (IF int = "" THEN "0" ELSE int) \o "." \o fr.digits
scan_number_after_dot(s, int, j) ==
    [v |-> NumberValue(int, Fraction(s, j)), i |-> Fraction(s, j).i]

scan_radix_number(s) == [v |-> RadixValue[At(s, s.i + 1)], i |-> s.i + 2]
scan_number(s) ==
    LET e   == scan_decimal_digits(s, s.i)
        int == Glue(SubSeq(s.text, s.i, e - 1))
        zero == At(s, s.i) = "0"
    IN  CASE zero /\ At(s, s.i + 1) \in RadixWords -> scan_radix_number(s)
          [] zero /\ At(s, s.i + 1) = "." -> scan_number_after_dot(s, "0", s.i + 2)
          [] zero /\ At(s, s.i + 1) \notin Digits -> [v |-> "0", i |-> s.i + 1]
          [] At(s, e) = "." -> scan_number_after_dot(s, int, e + 1)
          [] At(s, e) \in ExponentWords -> scan_number_after_dot(s, int, e)
          [] OTHER -> [v |-> int, i |-> e]

is_id_start(c)    == IsWord(c) \/ c = "$"
is_id_continue(c) == IsWord(c) \/ c \in Digits \cup {"$"}
NameEnd(s, j)     == Find(s, j, LAMBDA m : ~is_id_continue(At(s, m)))
NameAt(s, j)      == Glue(SubSeq(s.text, j, NameEnd(s, j) - 1))
scan_identifier(s) ==
    LET n == NameAt(s, s.i)
    IN  Emit(s, IF n \in Keywords THEN n ELSE "ident", n, NameEnd(s, s.i))
scan_private(s) ==
    IF is_id_start(At(s, s.i + 1))
    THEN Emit(s, "private", NameAt(s, s.i + 1), NameEnd(s, s.i + 1))
    ELSE Fail(s)

(***************************************************************************)
(* Annotation comments.  An annotation records how many tokens precede it: *)
(* it ends before every later token.                                       *)
(***************************************************************************)
skip_whitespace(s, j)  == Find(s, j, LAMBDA m : At(s, m) \notin Blanks)
CommentEndsAt(s, m)    == At(s, m) = "*" /\ At(s, m + 1) = "/"
read_until_comment_end(s, j) == Find(s, j, LAMBDA m : CommentEndsAt(s, m))
consume_comment_end(s, j) ==
    LET k == IF At(s, j) = "*" THEN j + 1 ELSE j
    IN  Goto(s, IF At(s, k) = "/" THEN k + 1 ELSE k)
Trim(s, i, j) ==
    LET a == skip_whitespace(s, i)
    IN  SelectSeq(SubSeq(s.text, a, j - 1), LAMBDA c : c \notin Blanks)
Annotate(s, name, content, kind) ==
    [s EXCEPT !.anns = Append(@, [name |-> name, content |-> content, kind |-> kind,
                                  at |-> Len(s.toks)])]

(***************************************************************************)
(* A declarator's type runs to a comma outside brackets and outside a      *)
(* where clause, or to the end of the comment.                             *)
(***************************************************************************)
RECURSIVE read_until_comma_or_end(_, _)
read_until_comma_or_end(s, c) ==
    LET ch    == At(s, c.j)
        top   == c.paren = 0 /\ c.brace = 0 /\ c.angle = 0 /\ c.bracket = 0
        where == c.where \/ (top /\ ch \in Blanks /\ At(s, c.j - 1) = "where"
                                /\ At(s, c.j - 2) \in Blanks \cup {">"} /\ c.j - 2 >= c.from)
        arrow == top /\ where /\ ch = ">" /\ At(s, c.j - 1) = "="
        step  == [c EXCEPT
                    !.j = @ + 1, !.where = where /\ ~arrow,
                    !.paren   = @ + (IF ch = "(" THEN 1 ELSE IF ch = ")" THEN -1 ELSE 0),
                    !.brace   = @ + (IF ch = "{" THEN 1 ELSE IF ch = "}" THEN -1 ELSE 0),
                    !.bracket = @ + (IF ch = "[" THEN 1 ELSE IF ch = "]" THEN -1 ELSE 0),
                    !.angle   = @ + (IF ch = "<" THEN 1
                                     ELSE IF ch = ">" /\ c.angle > 0 THEN -1 ELSE 0)]
    IN  IF ch = Eof \/ CommentEndsAt(s, c.j) \/ (ch = "," /\ top /\ ~where)
        THEN c.j
        ELSE read_until_comma_or_end(s, step)
TypeFrom(j) == [j |-> j, from |-> j, paren |-> 0, brace |-> 0, bracket |-> 0, angle |-> 0,
                where |-> FALSE]

RECURSIVE parse_var_annotations(_, _)
parse_var_annotations(s, j) ==
    LET n     == NameEnd(s, j)
        colon == skip_whitespace(s, n)
        from  == skip_whitespace(s, colon + 1)
        e     == read_until_comma_or_end(s, TypeFrom(from))
        next  == skip_whitespace(s, e)
        one   == Annotate(s, NameAt(s, j), Trim(s, from, e), "inline")
    IN  CASE n = j -> consume_comment_end(s, j)
          [] At(s, colon) # ":" -> consume_comment_end(s, colon)
          [] At(s, next) = "," -> parse_var_annotations(one, skip_whitespace(s, next + 1))
          [] OTHER -> consume_comment_end(one, next)

NamedAnnotation(s, j, kind) ==
    LET n == NameEnd(s, j)
        e == read_until_comment_end(s, n)
    IN  IF n = j THEN consume_comment_end(s, j)
        ELSE consume_comment_end(Annotate(s, NameAt(s, j), Trim(s, n, e), kind), e)
parse_function_annotation(s, j) == NamedAnnotation(s, j, "inline")
parse_class_annotation(s, j)    == NamedAnnotation(s, j, "class")

RECURSIVE AliasParams(_, _, _)
AliasParams(s, j, ps) ==      \* [ok, i, ps]: the parameters up to ">"
    LET a == skip_whitespace(s, j)
        n == NameEnd(s, a)
        b == skip_whitespace(s, n)
    IN  CASE n = a -> [ok |-> FALSE, i |-> a, ps |-> ps]
          [] At(s, b) = "," -> AliasParams(s, b + 1, Append(ps, NameAt(s, a)))
          [] At(s, b) = ">" -> [ok |-> TRUE, i |-> skip_whitespace(s, b + 1),
                                ps |-> Append(ps, NameAt(s, a))]
          [] OTHER -> [ok |-> FALSE, i |-> b, ps |-> ps]

parse_type_alias(s, j, nominal) ==
    LET n  == NameEnd(s, j)
        a  == skip_whitespace(s, n)
        ps == IF At(s, a) = "<" THEN AliasParams(s, a + 1, <<>>)
              ELSE [ok |-> TRUE, i |-> a, ps |-> <<>>]
        e  == read_until_comment_end(s, ps.i + 1)
        alias == [name |-> NameAt(s, j), params |-> ps.ps, body |-> Trim(s, ps.i + 1, e),
                  nominal |-> nominal]
    IN  IF n = j THEN consume_comment_end(s, j)
        ELSE IF ~ps.ok \/ At(s, ps.i) # "=" THEN consume_comment_end(s, ps.i)
        ELSE consume_comment_end([s EXCEPT !.aliases = Append(@, alias)], e)

(***************************************************************************)
(* The type behind the first @type tag of an ordinary doc comment: up to   *)
(* the matching brace, or to the end of the line.                          *)
(***************************************************************************)
TypeTagAt(s, i, e, m) ==
    /\ m + 2 < e /\ At(s, m) = "@" /\ At(s, m + 1) = "type"
    /\ m = i \/ At(s, m - 1) \in Blanks \cup {"*"}
    /\ At(s, m + 2) \in Blanks \cup {"{"}
extract_jsdoc_type_tag(s, i, e) ==
    LET m == Find(s, i, LAMBDA k : TypeTagAt(s, i, e, k))
        j == skip_whitespace(s, m + 2)
        Depth(k) == Len(SelectSeq(SubSeq(s.text, j, k), LAMBDA c : c = "{"))
                    - Len(SelectSeq(SubSeq(s.text, j, k), LAMBDA c : c = "}"))
        close == Find(s, j, LAMBDA k : Depth(k) = 0)
        eol   == Find(s, j, LAMBDA k : k >= e \/ At(s, k) \in Newlines \/ (k > j /\ At(s, k) = "@"))
        last  == IF At(s, j) = "{" THEN close ELSE eol
        from  == IF At(s, j) = "{" THEN j + 1 ELSE j
        body  == SelectSeq(Trim(s, from, last), LAMBDA c : At(s, j) = "{" \/ c # "*")
    IN  IF m >= e \/ j >= e \/ last > e \/ (At(s, j) # "{" /\ body = <<>>) THEN s
        ELSE Annotate(s, "", body, "jsdoc")

BlockComment(s, j) ==
    LET e == read_until_comment_end(s, j)
    IN  IF e > Len(s.text) THEN Fail(s) ELSE extract_jsdoc_type_tag(Goto(s, e + 2), j, e)

DocComment(s, j) ==      \* j: the first atom behind /** and blanks
    LET kw == At(s, j)
        k  == skip_whitespace(s, j + 1)
    IN  CASE kw \in {"var", "const", "let"} -> parse_var_annotations(s, k)
          [] kw = "function" -> parse_function_annotation(s, k)
          [] kw = "class" -> parse_class_annotation(s, k)
          [] kw = "type" -> parse_type_alias(s, k, FALSE)
          [] kw = "nominal" ->
                IF At(s, k) = "type" THEN parse_type_alias(s, skip_whitespace(s, k + 1), TRUE)
                ELSE Goto(s, k)
          [] kw = "export" /\ At(s, k) \in {"var", "const", "let"} ->
                parse_var_annotations(s, skip_whitespace(s, k + 1))
          [] kw = "export" /\ At(s, k) = "function" ->
                parse_function_annotation(s, skip_whitespace(s, k + 1))
          [] kw = "export" -> BlockComment(s, k)
          [] OTHER -> BlockComment(s, j)

InlineComment(s, j) ==
    LET e == read_until_comment_end(s, j)
        r == IF s.last = "" THEN s ELSE Annotate(s, s.last, Trim(s, j, e), "inline")
    IN  consume_comment_end(r, e)

RECURSIVE skip_whitespace_and_comments(_)
skip_whitespace_and_comments(s) ==
    LET j == skip_whitespace(s, s.i)
        hash == s.i = 1 /\ At(s, 1) = "#" /\ At(s, 2) = "!"
        line == Find(s, j, LAMBDA m : At(s, m) = "\n")
    IN  CASE ~s.ok -> s
          [] hash -> skip_whitespace_and_comments(Goto(s, line))
          [] At(s, j) = "/" /\ At(s, j + 1) = "/" -> skip_whitespace_and_comments(Goto(s, line))
          [] At(s, j) = "/" /\ At(s, j + 1) = "*" ->
                skip_whitespace_and_comments(
                    CASE At(s, j + 2) = ":" -> InlineComment(s, j + 3)
                      [] At(s, j + 2) = "*" -> DocComment(s, skip_whitespace(s, j + 3))
                      [] OTHER -> BlockComment(s, j + 2))
          [] OTHER -> Goto(s, j)

(***************************************************************************)
(* One token, and all of them.  A number that starts with a dot and a      *)
(* spread leave through an early return, past the regex context.           *)
(***************************************************************************)
Dot(s) ==
    CASE Longest(s) = <<".", ".", ".">> -> Push(s, "...", "...", s.i + 3)
      [] At(s, s.i + 1) \in Digits ->
            LET n == scan_number_after_dot(s, "", s.i + 1) IN Push(s, "number", n.v, n.i)
      [] OTHER -> Operator(s, <<".">>)

next_token(s) ==
    LET c == At(s, s.i)
    IN  CASE c \in {"\"", "'"} -> scan_string(s)
          [] c = Tick -> scan_template_literal(s)
          [] c = "}" -> IF s.depth > 0 THEN scan_template_continuation(s)
                        ELSE Emit(s, "}", "}", s.i + 1)
          [] c = "/" -> scan_slash_or_regex(s)
          [] c = "." -> Dot(s)
          [] c = "#" -> scan_private(s)
          [] c \in Digits -> Emit(s, "number", scan_number(s).v, scan_number(s).i)
          [] is_id_start(c) -> scan_identifier(s)
          [] c \in {"\\", "@", "\f", Nul} -> Fail(s)
          [] OTHER -> Operator(s, Longest(s))

RECURSIVE Scan(_)
Scan(s) ==
    LET t == skip_whitespace_and_comments(s)
    IN  IF ~t.ok \/ t.i > Len(t.text) THEN t ELSE Scan(next_token(t))

tokenize(text) == Scan(Scanner(text))
=============================================================================
