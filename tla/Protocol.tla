------------------------------ MODULE Protocol ------------------------------
(***************************************************************************)
(* The text side of the WebSocket bridge of lacal (Protocol.cpp and the    *)
(* keys of Client::concreteSubs): how a command line is cut into fields,   *)
(* which words are tokens, how a wildcard is matched.  OwpServer works     *)
(* with what these functions return.                                       *)
(*                                                                         *)
(* A text is a sequence of characters; one character stands for all that   *)
(* the functions treat alike ("a" and "b" for token characters, "," for a  *)
(* visible character no token has).                                        *)
(***************************************************************************)
EXTENDS Integers, Sequences, FiniteSetsExt, SequencesExt

Blanks     == {"sp", "tab", "cr", "lf"}     \* what trim removes
Separators == Blanks \cup {"vt", "ff"}      \* what operator>> skips
TokenChars == {"a", "b"}

Trim(s) ==
    LET ink == {i \in DOMAIN s : s[i] \notin Blanks} IN
    IF ink = {} THEN <<>> ELSE SubSeq(s, Min(ink), Max(ink))

ValidToken(s) == s # <<>> /\ \A i \in DOMAIN s : s[i] \in TokenChars

Cut(s) ==
    LET blank == {i \in DOMAIN s : s[i] = "sp"} IN
    IF blank = {} THEN [op |-> s, rest |-> <<>>]
                  ELSE [op   |-> SubSeq(s, 1, Min(blank) - 1),
                        rest |-> Trim(SubSeq(s, Min(blank) + 1, Len(s)))]

FirstFieldUntrimmed(line) == Cut(line)
FirstField(line) == Cut(Trim(line))         \* op = <<>>: the line is ignored

(* The fields before a separator, and the characters of the next one.       *)
Finish(at) == IF at.field = <<>> THEN at.fields ELSE Append(at.fields, at.field)
Read(at, char) ==
    IF char \in Separators THEN [fields |-> Finish(at), field |-> <<>>]
    ELSE [fields |-> at.fields, field |-> Append(at.field, char)]

SplitFields(s) ==
    LET after[i \in 0 .. Len(s)] ==
          IF i = 0 THEN [fields |-> <<>>, field |-> <<>>] ELSE Read(after[i - 1], s[i])
    IN  Finish(after[Len(s)])

(* The loop of globMatch: p characters of the pattern and t of the text are *)
(* behind; star is where the last * was met, -1 for none, and match how     *)
(* much of the text was behind when that * was last tried.  Where the loop  *)
(* ends, or gives up, a turn changes nothing.                               *)
AtEnd(pattern, p) == p = Len(pattern)
OnlyStars(pattern, p) == \A i \in p + 1 .. Len(pattern) : pattern[i] = "*"

Beginning == [p |-> 0, t |-> 0, star |-> -1, match |-> 0]
Turn(pattern, text, at) ==
    LET p == at.p
        t == at.t
        more == t < Len(text)
        same == p < Len(pattern) /\ pattern[p + 1] \in {"?", text[t + 1]}
        wild == p < Len(pattern) /\ pattern[p + 1] = "*"
    IN  CASE more /\ same ->
               [at EXCEPT !.p = p + 1, !.t = t + 1]
          [] more /\ ~same /\ wild ->
               [at EXCEPT !.p = p + 1, !.star = p, !.match = t]
          [] more /\ ~same /\ ~wild /\ at.star # -1 ->
               [at EXCEPT !.p = at.star + 1, !.t = at.match + 1, !.match = at.match + 1]
          [] OTHER -> at

GlobMatch(pattern, text) ==
    LET turns == (Len(pattern) + 1) * (Len(text) + 1)
        Loop[n \in 0 .. turns] == IF n = 0 THEN Beginning ELSE Turn(pattern, text, Loop[n - 1])
    IN  Loop[turns].t = Len(text) /\ OnlyStars(pattern, Loop[turns].p)

(* A key of concreteSubs and the test XUNSUB selects keys with.             *)
KeyText(stream, topic, name) == stream \o <<"lf">> \o topic \o <<"lf">> \o name

StartsWith(stream, key) == IsPrefix(stream, key)
IsOfStream(stream, key) == IsPrefix(stream \o <<"lf">>, key)

-----------------------------------------------------------------------------
Texts(chars, n) == UNION {[1 .. k -> chars] : k \in 0 .. n}

(* A line whose first field is a token is cut the same way by handleLine,   *)
(* which looks for a space, and by the handlers, which split at any white   *)
(* space: no mix of blanks makes a command lose, gain or shift a field, and *)
(* only a line without fields is ignored (ClientSession.cpp:232-235).       *)
CutAlike(line) ==
    LET first == FirstField(line)
        fields == SplitFields(line)
    IN  /\ first.op = <<>> => fields = <<>>
        /\ ValidToken(first.op) => fields = <<first.op>> \o SplitFields(first.rest)

FieldsAgree == \A line \in Texts({"a", "sp", "tab", "vt"}, 5) : CutAlike(line)

(* globMatch, which goes back to the last * only, decides what wildcards    *)
(* mean: the text can be cut into one piece per character of the pattern,   *)
(* any piece for *, one character for ?, that character for another.  (Not  *)
(* so for texts with a * in them, which no topic or message has.)           *)
Matches(pattern, text) ==
    \E cut \in [0 .. Len(pattern) -> 0 .. Len(text)] :
        /\ cut[0] = 0
        /\ cut[Len(pattern)] = Len(text)
        /\ \A i \in DOMAIN pattern :
             IF pattern[i] = "*" THEN cut[i - 1] <= cut[i]
             ELSE /\ cut[i] = cut[i - 1] + 1
                  /\ pattern[i] \in {"?", text[cut[i]]}

GlobAgrees ==
    \A pattern \in Texts({"a", "b", "?", "*"}, 3), text \in Texts({"a", "b"}, 4) :
        GlobMatch(pattern, text) <=> Matches(pattern, text)

(* The keys of concreteSubs tell streams, topics and messages apart, and    *)
(* XUNSUB of one stream leaves the keys of every other stream alone, one    *)
(* whose stream-id begins with the same characters included                 *)
(* (ClientSession.cpp:124, 154).                                            *)
KeysApart ==
    LET Ids == {s \in Texts({"a", "b", "sp", "lf"}, 2) : ValidToken(s)}
        Name == Texts({"a", "b"}, 2)
        Key == Ids \X {<<"a">>, <<"a", "b">>} \X Name
        Text(k) == KeyText(k[1], k[2], k[3])
    IN  /\ \A k \in Key, s \in Ids : IsOfStream(s, Text(k)) <=> k[1] = s
        /\ \A k1, k2 \in Key : Text(k1) = Text(k2) => k1 = k2
=============================================================================
