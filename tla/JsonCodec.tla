------------------------------ MODULE JsonCodec ------------------------------
(***************************************************************************)
(* The JSON encoding (externalizer/json) as the generated handlers drive    *)
(* it.  An object is the function from its keys to their values, a text    *)
(* and a number stand for themselves, an enumeration's value for its name. *)
(***************************************************************************)
EXTENDS Accessors, TLC

CONSTANT NaN                \* a float that is not a number

(* emit_value: "%g" keeps six digits of a float (below 10^7).               *)
Emitted(t, v) == IF t = "float" /\ v # NaN /\ v >= 1000000
                 THEN 10 * ((v + 5) \div 10) ELSE v

(* toName, and fromName, which knows the name of every value but "invalid". *)
toName(t, v) == IF v \in 0..Schema[t].items THEN v ELSE -1

RECURSIVE Document(_, _)
ChoiceMembers(l, v) ==
    IF Schema[l].variants = <<>> \/ v.ord[l] = 0 THEN <<>>
    ELSE Chosen(l, v).name :> Document(Chosen(l, v).type, v.alt[Chosen(l, v).name])
FieldMembers(f, s) ==
    CASE IsList(f)     -> f.name :> [i \in DOMAIN s |-> Document(f.type, s[i])]
      [] IsOptional(f) -> IF s.has THEN f.name :> Document(f.type, s.val) ELSE <<>>
      [] OTHER         -> f.name :> Document(f.type, s)
LevelMembers(l, v) ==
    FoldLeft(LAMBDA d, f : d @@ FieldMembers(f, v.slot[f.name]),
             ChoiceMembers(l, v), Schema[l].fields)
Document(t, v) ==
    CASE t \in Primitives    -> Emitted(t, v)
      [] t \in DOMAIN Schema ->
           IF IsEnum(t) THEN toName(t, v)
           ELSE FoldLeft(LAMBDA d, l : d @@ LevelMembers(l, v), <<>>, LevelsOf[t])

(* The scalars and names a message shows: <<type, value>>.                  *)
RECURSIVE Leaves(_, _)
SlotLeaves(f, s) ==
    CASE IsList(f)     -> UNION {Leaves(f.type, s[i]) : i \in DOMAIN s}
      [] IsOptional(f) -> IF s.has THEN Leaves(f.type, s.val) ELSE {}
      [] OTHER         -> Leaves(f.type, s)
Leaves(t, v) ==
    CASE t \in Primitives    -> {<<t, v>>}
      [] t \in DOMAIN Schema ->
           IF IsEnum(t) THEN {<<t, v>>}
           ELSE UNION {SlotLeaves(Fields[t][n], v.slot[n]) : n \in DOMAIN v.slot}
                \cup UNION {Leaves(Chosen(l, v).type, v.alt[Chosen(l, v).name]) :
                            l \in {l \in DOMAIN v.ord : v.ord[l] > 0}}

(* A float that is not a number is written "nan", which no JSON text is.    *)
Parses(t, v) == <<"float", NaN>> \notin Leaves(t, v)

-----------------------------------------------------------------------------
(* Reading a document of type t over r.val; r.ok is FALSE once an exception *)
(* is thrown, which leaves the parts read before it.                       *)
RECURSIVE FromDocument(_, _, _)
RECURSIVE FromItems(_, _, _)
FromItems(r, f, docs) ==
    IF docs = <<>> \/ ~r.ok THEN r
    ELSE LET x == FromDocument([r EXCEPT !.val = New(f.type, 0)], f.type, Head(docs))
         IN  IF x.ok /\ Room(f, Len(r.val) + 1)
             THEN FromItems([x EXCEPT !.val = Append(r.val, @)], f, Tail(docs))
             ELSE [x EXCEPT !.ok = FALSE, !.val = r.val]
FromMember(r, f, d) ==
    LET present == f.name \in DOMAIN d
        opened  == FromDocument([r EXCEPT !.val = @.val], f.type, d[f.name])
    IN  CASE IsOptional(f) /\ ~present -> [r EXCEPT !.val.has = FALSE]
          [] IsOptional(f) /\ present  -> [opened EXCEPT !.val = [has |-> TRUE, val |-> @]]
          [] ~IsOptional(f) /\ ~present -> [r EXCEPT !.ok = FALSE]
          [] IsList(f) /\ present      -> FromItems([r EXCEPT !.val = <<>>], f, d[f.name])
          [] OTHER                     -> FromDocument(r, f.type, d[f.name])
FromField(r, f, d) ==
    IF ~r.ok THEN r
    ELSE LET x == FromMember([r EXCEPT !.val = @.slot[f.name]], f, d)
         IN  [x EXCEPT !.val = [r.val EXCEPT !.slot[f.name] = x.val]]
FromVariant(r, l, i, d) ==
    LET v == Schema[l].variants[i]
    IN  IF ~r.ok \/ v.name \notin DOMAIN d THEN r
        ELSE LET x == FromDocument([r EXCEPT !.val = @.alt[v.name]], v.type, d[v.name])
             IN  [x EXCEPT !.val = [r.val EXCEPT !.ord[l] = i, !.alt[v.name] = x.val]]
FromChoiceLastWins(r, l, d) ==          \* mutant: matches are not counted
    FoldLeft(LAMBDA y, i : FromVariant(y, l, i, d), r,
             [i \in DOMAIN Schema[l].variants |-> i])
FromChoice(r, l, d) ==
    LET x == FoldLeft(LAMBDA y, i : FromVariant(y, l, i, d), r,
                      [i \in DOMAIN Schema[l].variants |-> i])
        matched == {v \in ToSet(Schema[l].variants) : v.name \in DOMAIN d}
    IN  [x EXCEPT !.ok = @ /\ \A v, w \in matched : v = w]
FromLevel(r, l, d) ==
    FoldLeft(LAMBDA x, f : FromField(x, f, d),
             FromChoice([r EXCEPT !.ok = @ /\ l \in Registered], l, d), Schema[l].fields)
FromDocument(r, t, d) ==
    CASE t \in Primitives    -> [r EXCEPT !.val = d]
      [] t \in DOMAIN Schema ->
           IF IsEnum(t)
           THEN IF r.ok /\ t \in Registered /\ d # -1 THEN [r EXCEPT !.val = d]
                ELSE [r EXCEPT !.ok = FALSE]
           ELSE FoldLeft(LAMBDA x, l : FromLevel(x, l, d), r, LevelsOf[t])
=============================================================================
