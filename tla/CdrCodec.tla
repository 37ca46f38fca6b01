------------------------------- MODULE CdrCodec -------------------------------
(***************************************************************************)
(* The CDR encoding (externalizer/cdr) as the generated handlers drive it.  *)
(* A text is the sequence of its characters' codes.                        *)
(***************************************************************************)
EXTENDS Accessors

CONSTANT UuidText           \* UUID -> its text

Width(t) == CASE t = "unsignedByte"  -> 1
              [] t = "unsignedShort" -> 2
              [] OTHER               -> 4

(* The size n with the padding an item of the given alignment needs.        *)
Align(n, alignment) == n + ((alignment - (n % alignment)) % alignment)

(* Big endian, the k-th octet from the right.                               *)
ByteOf(n, k) == (n \div 256^k) % 256

(* A writer: the bytes so far, and whether no handler was missing.          *)
Writer(bytes) == [buf |-> bytes, ok |-> TRUE]

WriteNumber(w, width, n) ==
    [w EXCEPT !.buf = @ \o [i \in 1..(Align(Len(@), width) - Len(@)) |-> 0]
                        \o [i \in 1..width |-> ByteOf(n, width - i)]]
WriteText(w, s) == [WriteNumber(w, 4, Len(s) + 1) EXCEPT !.buf = @ \o s \o <<0>>]

Lookup(c, t) == [c EXCEPT !.ok = @ /\ t \in Registered]

(* A value of type t; of a complex type, the base class first, and in each  *)
(* class the choice before the fields.                                     *)
RECURSIVE Encode(_, _, _)
EncodeChoice(w, l, v) ==
    IF Schema[l].variants = <<>> THEN w
    ELSE LET x == WriteNumber(w, 4, v.ord[l])
         IN  IF v.ord[l] = 0 THEN x
             ELSE Encode(x, Chosen(l, v).type, v.alt[Chosen(l, v).name])
EncodeField(w, f, s) ==
    CASE IsList(f)     -> FoldLeft(LAMBDA x, item : Encode(x, f.type, item),
                                   WriteNumber(w, 4, Len(s)), s)
      [] IsOptional(f) -> IF s.has THEN Encode(WriteNumber(w, 1, 1), f.type, s.val)
                          ELSE WriteNumber(w, 1, 0)
      [] OTHER         -> Encode(w, f.type, s)
EncodeLevel(w, l, v) ==
    FoldLeft(LAMBDA x, f : EncodeField(x, f, v.slot[f.name]),
             EncodeChoice(Lookup(w, l), l, v), Schema[l].fields)
Encode(w, t, v) ==
    CASE t \in Scalars       -> WriteNumber(w, Width(t), v)
      [] t = "string"        -> WriteText(w, v)
      [] t = "UUID"          -> WriteText(w, UuidText[v])
      [] t \in DOMAIN Schema ->
           IF IsEnum(t) THEN WriteNumber(Lookup(w, t), 4, v)
           ELSE FoldLeft(LAMBDA x, l : EncodeLevel(x, l, v), w, LevelsOf[t])

-----------------------------------------------------------------------------
(* A reader: the offset, whether nothing has been thrown, and the value     *)
(* being read, as far as it has been written over.                         *)
Reader(off, value) == [off |-> off, ok |-> TRUE, val |-> value]

ReadNumberUnaligned(r, buf, width) ==   \* mutant: the padding is not skipped
    IF ~r.ok \/ r.off + width > Len(buf) THEN [r EXCEPT !.ok = FALSE]
    ELSE [r EXCEPT !.off = @ + width,
                   !.val = FoldLeft(LAMBDA n, b : n * 256 + b, 0,
                                    SubSeq(buf, r.off + 1, r.off + width))]
ReadNumber(r, buf, width) ==
    LET at == Align(r.off, width)
    IN  IF ~r.ok \/ at + width > Len(buf) THEN [r EXCEPT !.ok = FALSE]
        ELSE [r EXCEPT !.off = at + width,
                       !.val = FoldLeft(LAMBDA n, b : n * 256 + b, 0,
                                        SubSeq(buf, at + 1, at + width))]
ReadTextPastTheEnd(r, buf) ==           \* mutant: off by one in check_bounds
    LET n == ReadNumber(r, buf, 4)
    IN  IF ~n.ok THEN [n EXCEPT !.val = r.val]
        ELSE IF n.val = 0 THEN [n EXCEPT !.val = <<>>]
        ELSE IF n.off + n.val > Len(buf) + 1 THEN [n EXCEPT !.ok = FALSE, !.val = r.val]
        ELSE [n EXCEPT !.off = @ + n.val, !.val = SubSeq(buf, n.off + 1, n.off + n.val - 1)]
ReadText(r, buf) ==
    LET n == ReadNumber(r, buf, 4)
    IN  IF ~n.ok THEN [n EXCEPT !.val = r.val]
        ELSE IF n.val = 0 THEN [n EXCEPT !.val = <<>>]
        ELSE IF n.off + n.val > Len(buf) THEN [n EXCEPT !.ok = FALSE, !.val = r.val]
        ELSE [n EXCEPT !.off = @ + n.val, !.val = SubSeq(buf, n.off + 1, n.off + n.val - 1)]
ReadUuid(r, buf) ==
    LET s == ReadText(r, buf)
    IN  IF ~s.ok THEN s
        ELSE IF \E u \in Values["UUID"] : UuidText[u] = s.val
             THEN [s EXCEPT !.val = CHOOSE u \in Values["UUID"] : UuidText[u] = s.val]
             ELSE [s EXCEPT !.ok = FALSE, !.val = r.val]

(* Reads a value of type t over r.val.  Whatever is thrown leaves the parts *)
(* read before it; a list keeps the items that were complete.              *)
Unentered(x, t) == ~x.ok /\ t \in Primitives  \* thrown before enable or choose
RECURSIVE Decode(_, _, _)
RECURSIVE DecodeItems(_, _, _, _)
DecodeItems(r, buf, f, n) ==
    IF n = 0 \/ ~r.ok THEN r
    ELSE LET x == Decode([r EXCEPT !.val = New(f.type, 0)], buf, f.type)
         IN  IF x.ok /\ Room(f, Len(r.val) + 1)
             THEN DecodeItems([x EXCEPT !.val = Append(r.val, @)], buf, f, n - 1)
             ELSE [x EXCEPT !.ok = FALSE, !.val = r.val]
DecodeListAppending(r, buf, f) ==       \* mutant: no clear()
    LET n == ReadNumber(r, buf, 4)
    IN  IF n.ok THEN DecodeItems([n EXCEPT !.val = r.val], buf, f, n.val) ELSE n
DecodeList(r, buf, f) ==
    LET n == ReadNumber(r, buf, 4)
    IN  IF n.ok THEN DecodeItems([n EXCEPT !.val = <<>>], buf, f, n.val) ELSE n
DecodeOptional(r, buf, f) ==
    LET flag == ReadNumber([r EXCEPT !.val = 0], buf, 1)
        x    == Decode([flag EXCEPT !.val = r.val.val], buf, f.type)
    IN  IF ~flag.ok \/ flag.val = 0 THEN [flag EXCEPT !.val = r.val]
        ELSE IF Unentered(x, f.type) THEN [x EXCEPT !.val = r.val]
        ELSE [x EXCEPT !.val = [has |-> TRUE, val |-> x.val]]
DecodeSlot(r, buf, f) ==
    CASE IsList(f)     -> DecodeList(r, buf, f)
      [] IsOptional(f) -> DecodeOptional(r, buf, f)
      [] OTHER         -> Decode(r, buf, f.type)
DecodeField(r, buf, f) ==
    IF ~r.ok THEN r
    ELSE LET x == DecodeSlot([r EXCEPT !.val = @.slot[f.name]], buf, f)
         IN  [x EXCEPT !.val = [r.val EXCEPT !.slot[f.name] = x.val]]
DecodeChoice(r, buf, l) ==
    IF ~r.ok \/ Schema[l].variants = <<>> THEN r
    ELSE LET n == ReadNumber([r EXCEPT !.val = 0], buf, 4)
         IN  IF ~n.ok \/ n.val \notin DOMAIN Schema[l].variants
             THEN [n EXCEPT !.val = r.val]
             ELSE LET v == Schema[l].variants[n.val]
                      x == Decode([n EXCEPT !.val = r.val.alt[v.name]], buf, v.type)
                  IN  [x EXCEPT !.val = IF Unentered(x, v.type) THEN r.val
                                        ELSE [r.val EXCEPT !.ord[l] = n.val,
                                                           !.alt[v.name] = x.val]]
DecodeLevel(r, buf, l) ==
    FoldLeft(LAMBDA x, f : DecodeField(x, buf, f),
             DecodeChoice(Lookup(r, l), buf, l), Schema[l].fields)
Decode(r, buf, t) ==
    CASE t = "string"        -> ReadText(r, buf)
      [] t = "UUID"          -> ReadUuid(r, buf)
      [] t \in Scalars       -> ReadNumber(r, buf, Width(t))
      [] t \in DOMAIN Schema ->
           IF IsEnum(t) THEN ReadNumber(Lookup(r, t), buf, 4)
           ELSE FoldLeft(LAMBDA x, l : DecodeLevel(x, buf, l), r, LevelsOf[t])
=============================================================================
