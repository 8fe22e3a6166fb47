-------------------------------- MODULE Json ---------------------------------
(***************************************************************************)
(* The JSON of the tools: a Value is built by set() calls, written to a    *)
(* line, possibly cut by a crash of the recorder, and parsed back with one *)
(* frame for each open array or object.  Text is a sequence of tokens;     *)
(* whitespace is left out, the digits of numbers too, but not whether a    *)
(* number was written as an integer.  A string is a sequence of classes of *)
(* characters, which differ in how they are escaped.                       *)
(***************************************************************************)
EXTENDS Integers, Sequences, FiniteSets, SequencesExt

CONSTANTS Chars,      \* the classes of characters of strings
          Keys,       \* the keys set() is called with
          Values,     \* the values it is called with
          Depth,      \* how deep each of them is nested, and each value in them
          MaxDepth,   \* bound on it
          MaxSets     \* bound on the calls

\* The types; items of an array are values, of an object <<key, value>>.
Scalar(type, value) == [type |-> type, value |-> value]
Array(items) == [type |-> "array", value |-> items]
Object(items) == [type |-> "object", value |-> items]

\* The values in a value.
Inner(v) ==
  CASE v.type = "array"  -> v.value
    [] v.type = "object" -> [i \in DOMAIN v.value |-> v.value[i][2]]
    [] OTHER             -> <<>>

Nested == DOMAIN Depth

KeysDiffer(items) == \A i, j \in DOMAIN items : items[i][1] = items[j][1] => i = j

IsValue(v) ==
  /\ v = Scalar(v.type, v.value)
  /\ \/ v.type \in {"null", "true", "false", "int"}
     \/ v.type = "double" /\ v.value \in {"finite", "nan", "inf", "-inf"}
     \/ v.type = "string" /\ v.value \in Seq(Chars)
     \/ v.type = "array" /\ v.value \in Seq(Nested)
     \/ v.type = "object" /\ v.value \in Seq(Keys \X Nested) /\ KeysDiffer(v.value)

\* Strings are UTF-8, in which the halves of a pair are no characters.
ASSUME JsonAssumption ==
  /\ MaxSets \in Nat /\ MaxDepth \in Nat
  /\ Chars \cap {"high", "low"} = {} /\ Values \subseteq Nested
  /\ \A v \in Nested :
       /\ IsValue(v) /\ Depth[v] \in 0 .. MaxDepth
       /\ \A i \in DOMAIN Inner(v) : Depth[Inner(v)[i]] < Depth[v]

VARIABLES document,   \* the Value built, an object
          sets,       \* calls of set() (history)
          text,       \* what is in the file, as tokens
          intact,     \* nothing was cut off (history)
          pos,        \* p_
          calls,      \* the open parse_array and parse_object calls, innermost last
          expects,    \* what the innermost call reads next
          parsed      \* the value returned last

jsonVars == <<document, sets, text, intact, pos, calls, expects, parsed>>

JsonInit ==
  /\ document = Object(<<>>) /\ sets = 0 /\ text = <<>> /\ intact = TRUE
  /\ pos = 1 /\ calls = <<>> /\ expects = "nothing" /\ parsed = Scalar("null", "none")
-----------------------------------------------------------------------------
\* Value::set: replaces in place, or appends.
SetItem(items, key, value) ==
  IF \E i \in DOMAIN items : items[i][1] = key
  THEN [i \in DOMAIN items |-> IF items[i][1] = key THEN <<key, value>> ELSE items[i]]
  ELSE Append(items, <<key, value>>)

Sign(s) == [kind |-> "sign", v |-> s]

\* write_string: what stands for each character.  Beyond 16 bits it is a pair.
Escaped(string) ==
  FlattenSeq([i \in DOMAIN string |->
                IF string[i] = "astral" THEN <<"high", "low">> ELSE <<string[i]>>])

\* Mutated: NaN and the infinities are written as null.
NumberNull(v) == [kind |-> IF v.value = "finite" THEN "float" ELSE "null", v |-> "none"]

\* write_double: the three that are not finite have names.
Number(v) == [kind |-> IF v.value = "finite" THEN "float" ELSE v.value, v |-> "none"]

\* The parts of an array or object, a comma behind each but the last.
Enclosed(open, parts, close) ==
  IF parts = <<>> THEN <<Sign(open), Sign(close)>>
  ELSE <<Sign(open)>> \o
       FlattenSeq([i \in DOMAIN parts |->
                     Append(parts[i], Sign(IF i < Len(parts) THEN "comma" ELSE close))])

\* A value, inner being how the values in it are written.
Tokens(v, inner) ==
  CASE v.type = "double" -> <<Number(v)>>
    [] v.type = "string" -> <<[kind |-> "string", v |-> Escaped(v.value)]>>
    [] v.type = "array"  -> Enclosed("begin_array", inner, "end_array")
    [] v.type = "object" ->
         Enclosed("begin_object",
                  [i \in DOMAIN inner |->
                     <<[kind |-> "string", v |-> <<v.value[i][1]>>], Sign("colon")>> \o inner[i]],
                  "end_object")
    [] OTHER             -> <<[kind |-> v.type, v |-> v.value]>>

Written[v \in Nested] == Tokens(v, [i \in DOMAIN Inner(v) |-> Written[Inner(v)[i]]])

Write(v) == Tokens(v, [i \in DOMAIN Inner(v) |-> Written[Inner(v)[i]]])

Set ==
  /\ text = <<>> /\ intact /\ sets < MaxSets
  /\ sets' = sets + 1
  /\ \E key \in Keys, value \in Values :
       document' = Object(SetItem(document.value, key, value))
  /\ UNCHANGED <<text, intact, pos, calls, expects, parsed>>

\* dumps
Dump ==
  /\ text = <<>> /\ intact
  /\ text' = Write(document)
  /\ UNCHANGED <<document, sets, intact, pos, calls, expects, parsed>>

\* A crash leaves a first part, its last token whole or not.
Cut ==
  /\ text # <<>> /\ intact /\ expects = "nothing"
  /\ \E n \in 0 .. Len(text) - 1 :
       \/ text' = SubSeq(text, 1, n)
       \/ /\ text[n + 1].kind # "sign"
          /\ text' = Append(SubSeq(text, 1, n), [kind |-> "part", v |-> text[n + 1].kind])
  /\ intact' = FALSE
  /\ UNCHANGED <<document, sets, pos, calls, expects, parsed>>
-----------------------------------------------------------------------------
Token == IF pos <= Len(text) THEN text[pos] ELSE [kind |-> "eof", v |-> "none"]

Is(sign) == Token.kind = "sign" /\ Token.v = sign

Advance == pos' = pos + 1

Fail == expects' = "failed" /\ UNCHANGED <<pos, calls, parsed>>

\* parse_string: the units between the quotes, pairs joined again.  A key is
\* one unit that stands for itself.
IsPair(units, i) ==
  i \in 1 .. Len(units) - 1 /\ units[i] = "high" /\ units[i + 1] = "low"

Unescaped(units) ==
  FlattenSeq([i \in DOMAIN units |->
                IF IsPair(units, i) THEN <<>>
                ELSE <<IF IsPair(units, i - 1) THEN "astral" ELSE units[i]>>])

\* What a token reads as; a part of a number is a number, even its sign alone,
\* of a string or of a name it is not.
ScalarOf(token) ==
  CASE token.kind = "string" -> Scalar("string", Unescaped(token.v))
    [] token.kind = "float"  -> Scalar("double", "finite")
    [] token.kind \in {"nan", "inf", "-inf"} -> Scalar("double", token.kind)
    [] token.kind = "part"   -> Scalar("int", "none")
    [] OTHER -> Scalar(token.kind, token.v)

ReadsAsScalar(token) ==
  IF token.kind = "part" THEN token.v \in {"int", "float", "-inf"}
  ELSE token.kind \notin {"sign", "eof"}

\* A value is complete: it is the document, or an item of the open frame.
Return(value, open) ==
  /\ parsed' = value
  /\ IF open = <<>>
     THEN calls' = <<>> /\ expects' = "end"
     ELSE /\ calls' = [open EXCEPT ![Len(open)].items =
                          IF open[Len(open)].type = "array" THEN Append(@, value)
                          ELSE SetItem(@, open[Len(open)].key, value)]
          /\ expects' = "separator"

ParseValue ==
  /\ expects = "value" \/ (expects = "first_item" /\ ~Is("end_array"))
  /\ IF Is("begin_array") \/ Is("begin_object")
     THEN /\ calls' = Append(calls, [type |-> IF Is("begin_array") THEN "array" ELSE "object",
                                       items |-> <<>>, key |-> "none"])
          /\ expects' = IF Is("begin_array") THEN "first_item" ELSE "first_key"
          /\ Advance /\ UNCHANGED parsed
     ELSE IF ReadsAsScalar(Token)
          THEN Return(ScalarOf(Token), calls) /\ Advance
          ELSE Fail
  /\ UNCHANGED <<document, sets, text, intact>>

ParseKey ==
  /\ expects = "key" \/ (expects = "first_key" /\ ~Is("end_object"))
  /\ IF Token.kind = "string"
     THEN /\ calls' = [calls EXCEPT ![Len(calls)].key = Token.v[1]]
          /\ expects' = "colon" /\ Advance /\ UNCHANGED parsed
     ELSE Fail
  /\ UNCHANGED <<document, sets, text, intact>>

ParseColon ==
  /\ expects = "colon"
  /\ IF Is("colon") THEN expects' = "value" /\ Advance /\ UNCHANGED <<calls, parsed>> ELSE Fail
  /\ UNCHANGED <<document, sets, text, intact>>

Innermost == calls[Len(calls)]

Closes == Is(IF Innermost.type = "array" THEN "end_array" ELSE "end_object")

\* The end of an array or object, empty or after an item.
ParseClose ==
  /\ expects \in {"first_item", "first_key", "separator"} /\ Closes
  /\ Return(Scalar(Innermost.type, Innermost.items), Front(calls))
  /\ Advance
  /\ UNCHANGED <<document, sets, text, intact>>

ParseComma ==
  /\ expects = "separator" /\ ~Closes
  /\ IF Is("comma")
     THEN /\ expects' = IF Innermost.type = "array" THEN "value" ELSE "key"
          /\ Advance /\ UNCHANGED <<calls, parsed>>
     ELSE Fail
  /\ UNCHANGED <<document, sets, text, intact>>

\* parse_document: its first call and its check of the end.
StartParse ==
  /\ expects = "nothing" /\ (text # <<>> \/ ~intact)
  /\ expects' = "value"
  /\ UNCHANGED <<document, sets, text, intact, pos, calls, parsed>>

EndParse ==
  /\ expects = "end"
  /\ IF Token.kind = "eof" THEN expects' = "done" /\ UNCHANGED <<pos, calls, parsed>> ELSE Fail
  /\ UNCHANGED <<document, sets, text, intact>>

JsonNext ==
  \/ Set \/ Dump \/ Cut \/ StartParse \/ EndParse
  \/ ParseValue \/ ParseKey \/ ParseColon \/ ParseClose \/ ParseComma

JsonSpec == JsonInit /\ [][JsonNext]_jsonVars
-----------------------------------------------------------------------------
(***************************************************************************)
(* A line is read back as the value that was written, types, order and     *)
(* last values of its keys included, or is refused; and it is refused      *)
(* exactly when some of it is missing.  No key of it is there twice, which *)
(* at() would not see (json.hpp:139-177, 199-542).                         *)
(***************************************************************************)
LineIsWholeOrRefused ==
  /\ expects = "done" =>
       /\ intact /\ parsed = document
       /\ KeysDiffer(parsed.value)
  /\ expects = "failed" => ~intact
=============================================================================
