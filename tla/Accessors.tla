------------------------------ MODULE Accessors ------------------------------
(***************************************************************************)
(* The classes the schema compiler generates (tools/schema_compiler/       *)
(* compiler.py, with the lists of include/uci/base).  The schema is a      *)
(* constant: an enumeration has a number of items, a complex type a base   *)
(* type, at most one choice (its variants) and a sequence of fields.  An   *)
(* accessor of a complex type is its private members: a slot per field,    *)
(* own and inherited, an ordinal per class with a choice, and a value for  *)
(* every variant, chosen or not.                                           *)
(***************************************************************************)
EXTENDS Integers, Sequences, SequencesExt

CONSTANTS Schema,       \* type name -> [items] or [base, variants, fields]
          MessageTypes, \* the message types of the subset configuration
          Values,       \* primitive type -> the values an application sets
          Junk,         \* what the memory of a new accessor may hold
          MaxItems,     \* bound on the length of an unbounded list
          None          \* no base type

Scalars    == {"unsignedByte", "unsignedShort", "unsignedInt", "float"}
Primitives == Scalars \cup {"string", "UUID"}
IsEnum(t)  == "items" \in DOMAIN Schema[t]

(* How the parser classifies an element by its bounds (-1: unbounded); the  *)
(* templates look for a list first, then for a UUID, then for an optional. *)
IsList(f)     == f.max = -1 \/ f.max > 1
IsOptional(f) == f.min = 0 /\ f.max = 1 /\ f.type # "UUID"

-----------------------------------------------------------------------------
(* The subset of the types that is generated: a worklist from the requested *)
(* messages over base types, fields and variants.                          *)
Uses(t) == IF IsEnum(t) THEN {}
           ELSE {Schema[t].base}
                \cup {f.type : f \in ToSet(Schema[t].fields)}
                \cup {v.type : v \in ToSet(Schema[t].variants)}

RECURSIVE CollectRequired(_, _)
CollectRequired(required, pending) ==
    IF pending = {} THEN required
    ELSE LET t    == CHOOSE t \in pending : TRUE
             rest == pending \ {t}
         IN  IF t \in required \/ t \notin DOMAIN Schema
             THEN CollectRequired(required, rest)
             ELSE CollectRequired(required \cup {t}, rest \cup Uses(t))

(* The types whose handlers register_all_cdr_handlers and                   *)
(* register_all_json_handlers enter in the registries.                     *)
Registered == CollectRequired({}, MessageTypes)

-----------------------------------------------------------------------------
(* A class and its base classes, the base first: every generated function   *)
(* calls the base class's before it treats the members of its own class.   *)
RECURSIVE Levels(_)
Levels(t) == IF Schema[t].base = None THEN <<t>>
             ELSE Append(Levels(Schema[t].base), t)

Complex  == {t \in DOMAIN Schema : ~IsEnum(t)}
LevelsOf == [t \in Complex |-> Levels(t)]

(* The fields and the variants of a type by their names, its classes with   *)
(* a choice, and the variant an accessor with ordinal v.ord[l] > 0 shows.  *)
Table(members) == [n \in {m.name : m \in members} |-> CHOOSE m \in members : m.name = n]
Fields   == [t \in Complex |-> Table(UNION {ToSet(Schema[l].fields) : l \in ToSet(LevelsOf[t])})]
Variants == [t \in Complex |-> Table(UNION {ToSet(Schema[l].variants) : l \in ToSet(LevelsOf[t])})]
ChoiceLevels == [t \in Complex |-> {l \in ToSet(LevelsOf[t]) : Schema[l].variants # <<>>}]
Chosen(l, v) == Schema[l].variants[v.ord[l]]

(* A new accessor.  Scalars have no initialiser in the generated class.     *)
(* (Items that are written over before they are shown are made with 0.)     *)
RECURSIVE New(_, _)
NewSlot(f, junk) == CASE IsList(f)     -> <<>>
                      [] IsOptional(f) -> [has |-> FALSE, val |-> New(f.type, junk)]
                      [] OTHER         -> New(f.type, junk)
New(t, junk) ==
    CASE t \in Scalars    -> junk
      [] t = "string"     -> <<>>
      [] t = "UUID"       -> 0
      [] t \in DOMAIN Schema ->
           IF IsEnum(t) THEN 0
           ELSE [slot |-> [n \in DOMAIN Fields[t] |-> NewSlot(Fields[t][n], junk)],
                 ord  |-> [l \in ChoiceLevels[t] |-> 0],
                 alt  |-> [n \in DOMAIN Variants[t] |-> New(Variants[t][n].type, junk)]]

-----------------------------------------------------------------------------
(* BoundedListImpl::push_back and resize throw past maxOccurs.              *)
RoomPastMax(f, n) == f.max = -1 \/ n <= f.max + 1       \* mutant: off by one
Room(f, n) == f.max = -1 \/ n <= f.max

(* What resize appends: list elements of a scalar type are initialised.     *)
Blank(t, junk) == IF t \in Scalars THEN 0 ELSE New(t, junk)

Resized(f, s, n, junk) ==
    [i \in 1..n |-> IF i <= Len(s) THEN s[i] ELSE Blank(f.type, junk)]

(* The lengths a list can be given; MaxItems bounds one without a maximum.  *)
Lengths(f) == {n \in 0 .. (IF f.max = -1 THEN MaxItems ELSE f.max + 1) : Room(f, n)}

(* What one call of an application may leave of a value of type t: a setter *)
(* of an enumeration takes any EnumerationItem, the sentinels included;    *)
(* the reference that get, enable or choose returns may be changed in turn. *)
RECURSIVE Calls(_, _)
Items(t) == {New(t, 0)} \cup Calls(t, New(t, 0))
ListCalls(f, s) ==
    {Append(s, x) : x \in {x \in Items(f.type) : Len(s) + 1 \in Lengths(f)}}
    \cup {Resized(f, s, n, j) : n \in Lengths(f), j \in Junk}
    \cup UNION {{[s EXCEPT ![i] = x] : x \in Calls(f.type, s[i])} : i \in DOMAIN s}
OptionalCalls(f, s) ==
    [has : {TRUE}, val : {s.val} \cup Calls(f.type, s.val)]
    \cup [has : {FALSE}, val : {s.val}]
SlotCalls(f, s) == CASE IsList(f)     -> ListCalls(f, s)
                     [] IsOptional(f) -> OptionalCalls(f, s)
                     [] OTHER         -> Calls(f.type, s)
ChoiceCalls(l, v) ==
    {[v EXCEPT !.ord[l] = 0]} \cup
    UNION {LET n == Schema[l].variants[i].name IN
           {[v EXCEPT !.ord[l] = i, !.alt[n] = x] :
              x \in {v.alt[n]} \cup Calls(Schema[l].variants[i].type, v.alt[n])} :
           i \in DOMAIN Schema[l].variants}
Calls(t, v) ==
    CASE t \in Primitives -> Values[t]
      [] t \in DOMAIN Schema ->
           IF IsEnum(t) THEN 0 .. Schema[t].items + 1
           ELSE UNION {{[v EXCEPT !.slot[n] = s] : s \in SlotCalls(Fields[t][n], v.slot[n])} :
                       n \in DOMAIN v.slot}
                \cup UNION {ChoiceCalls(l, v) : l \in DOMAIN v.ord}

(* copy(): lists are rebuilt; the storage of an optional or a variant that  *)
(* rhs does not show is left as it was.                                     *)
RECURSIVE Copied(_, _, _)
CopiedSlotNeverCleared(f, s, r) ==      \* mutant: an absent optional is not copied
    CASE IsList(f)     -> [i \in DOMAIN r |-> Copied(f.type, New(f.type, 0), r[i])]
      [] IsOptional(f) -> [has |-> s.has \/ r.has,
                           val |-> IF r.has THEN Copied(f.type, s.val, r.val) ELSE s.val]
      [] OTHER         -> Copied(f.type, s, r)
CopiedSlot(f, s, r) ==
    CASE IsList(f)     -> [i \in DOMAIN r |-> Copied(f.type, New(f.type, 0), r[i])]
      [] IsOptional(f) -> [has |-> r.has,
                           val |-> IF r.has THEN Copied(f.type, s.val, r.val) ELSE s.val]
      [] OTHER         -> Copied(f.type, s, r)
Copied(t, v, rhs) ==
    CASE t \in Primitives -> rhs
      [] t \in DOMAIN Schema ->
           IF IsEnum(t) THEN rhs
           ELSE [slot |-> [n \in DOMAIN v.slot |->
                             CopiedSlot(Fields[t][n], v.slot[n], rhs.slot[n])],
                 ord  |-> rhs.ord,
                 alt  |-> [n \in DOMAIN v.alt |->
                             IF \E l \in DOMAIN rhs.ord : rhs.ord[l] > 0 /\ Chosen(l, rhs).name = n
                             THEN Copied(Variants[t][n].type, v.alt[n], rhs.alt[n])
                             ELSE v.alt[n]]]
=============================================================================
