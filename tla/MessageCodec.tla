---------------------------- MODULE MessageCodec ----------------------------
(***************************************************************************)
(* An application fills an accessor (obj) call by call, and another one of  *)
(* the same type (peer) takes its content over: through a CDR or a JSON    *)
(* externalizer or with copy(), again and again, after earlier reads that  *)
(* succeeded or failed.                                                    *)
(***************************************************************************)
EXTENDS CdrCodec, JsonCodec

VARIABLES type,   \* the message type
          obj,    \* the accessor the application fills
          peer,   \* the accessor that is read into
          threw   \* the last call threw a UCIException

vars == <<type, obj, peer, threw>>

Init == /\ type \in MessageTypes
        /\ obj  \in {New(type, j) : j \in Junk}
        /\ peer \in {New(type, j) : j \in Junk}
        /\ threw = FALSE

(* A setter, enable, clear, choose or list call of the application.         *)
Call == /\ obj' \in Calls(type, obj)
        /\ threw' = FALSE
        /\ UNCHANGED <<type, peer>>

Reset == /\ peer' \in {New(type, j) : j \in Junk}
         /\ threw' = FALSE
         /\ UNCHANGED <<type, obj>>

Copy == /\ peer' = Copied(type, peer, obj)
        /\ threw' = FALSE
        /\ UNCHANGED <<type, obj>>

Take(r) == /\ peer' = r.val
           /\ threw' = ~r.ok
           /\ UNCHANGED <<type, obj>>

(* CdrExternalizer: the target is read over as it is.                       *)
WriteCdr       == Encode(Writer(<<>>), type, obj).buf
FromCdr(bytes) == Decode(Reader(0, peer), bytes, type)
Cuts           == LET all == WriteCdr IN {SubSeq(all, 1, n) : n \in 0 .. Len(all) - 1}

ReadCdr    == Take(FromCdr(WriteCdr))
ReadCutCdr == \E bytes \in Cuts : Take(FromCdr(bytes))

(* JsonExternalizer: the text is parsed, and the target reset before it is  *)
(* read into.                                                              *)
FromJsonOver(d, junk) == FromDocument(Reader(0, peer), type, d)   \* mutant: no reset()
FromJson(d, junk) == FromDocument(Reader(0, New(type, junk)), type, d)

ReadJson  == /\ Parses(type, obj)
             /\ \E junk \in Junk : Take(FromJson(Document(type, obj), junk))
ReadNoJson == /\ ~Parses(type, obj)
              /\ Take([val |-> peer, ok |-> FALSE])

(* A document somebody edited: members are missing, variants are added.     *)
AllMembers ==
    FoldSet(LAMBDA l, d : FoldLeft(LAMBDA e, i : e @@ ChoiceMembers(l, [obj EXCEPT !.ord[l] = i]),
                                   d, [i \in DOMAIN Schema[l].variants |-> i]),
            Document(type, obj), ChoiceLevels[type])
Edited == LET all == AllMembers
          IN  {[k \in keys |-> all[k]] : keys \in SUBSET DOMAIN all}
ReadEditedJson == /\ Parses(type, obj)
                  /\ \E d \in Edited, junk \in Junk : Take(FromJson(d, junk))

Next == \/ Call \/ Reset \/ Copy \/ ReadCdr \/ ReadCutCdr
        \/ ReadJson \/ ReadNoJson \/ ReadEditedJson

Spec == Init /\ [][Next]_vars
-----------------------------------------------------------------------------
(* What the getters show of a value: not the storage of an absent optional  *)
(* or of a variant that is not chosen.  JSON shows rounded floats.         *)
RECURSIVE Shown(_, _, _)
ShownSlot(f, s, json) ==
    CASE IsList(f)     -> [i \in DOMAIN s |-> Shown(f.type, s[i], json)]
      [] IsOptional(f) -> IF s.has THEN <<Shown(f.type, s.val, json)>> ELSE <<>>
      [] OTHER         -> Shown(f.type, s, json)
ShownChoice(l, v, json) ==
    IF v.ord[l] = 0 THEN <<>>
    ELSE <<v.ord[l], Shown(Chosen(l, v).type, v.alt[Chosen(l, v).name], json)>>
Shown(t, v, json) ==
    CASE t \in Primitives    -> IF json THEN Emitted(t, v) ELSE v
      [] t \in DOMAIN Schema ->
           IF IsEnum(t) THEN v
           ELSE [field   |-> [n \in DOMAIN v.slot |->
                                ShownSlot(Fields[t][n], v.slot[n], json)],
                 variant |-> [l \in DOMAIN v.ord |-> ShownChoice(l, v, json)]]

(* new shows all that old shows, except in optionals and choices that old   *)
(* leaves out.                                                             *)
RECURSIVE Covers(_, _, _)
CoversSlot(f, new, old) ==
    CASE IsList(f)     -> ShownSlot(f, new, FALSE) = ShownSlot(f, old, FALSE)
      [] IsOptional(f) -> old.has => new.has /\ Covers(f.type, new.val, old.val)
      [] OTHER         -> Covers(f.type, new, old)
Covers(t, new, old) ==
    IF t \in Primitives \/ IsEnum(t) THEN new = old
    ELSE /\ \A n \in DOMAIN old.slot : CoversSlot(Fields[t][n], new.slot[n], old.slot[n])
         /\ \A l \in DOMAIN old.ord : old.ord[l] > 0 =>
              LET n == Chosen(l, old).name
              IN  /\ new.ord[l] = old.ord[l]
                  /\ Covers(Chosen(l, old).type, new.alt[n], old.alt[n])

(* Every list within the bounds of its field.                               *)
RECURSIVE Shaped(_, _)
ShapedSlot(f, s) ==
    CASE IsList(f)     -> (f.max # -1 => Len(s) <= f.max) /\ \A i \in DOMAIN s : Shaped(f.type, s[i])
      [] IsOptional(f) -> s.has \in BOOLEAN /\ Shaped(f.type, s.val)
      [] OTHER         -> Shaped(f.type, s)
Shaped(t, v) ==
    \/ t \in Primitives
    \/ IsEnum(t) /\ v \in Nat
    \/ /\ ~IsEnum(t)
       /\ \A n \in DOMAIN Fields[t] : ShapedSlot(Fields[t][n], v.slot[n])
       /\ \A l \in ChoiceLevels[t] : v.ord[l] \in 0..Len(Schema[l].variants)
       /\ \A n \in DOMAIN Variants[t] : Shaped(Variants[t][n].type, v.alt[n])

(* Both accessors stay well formed, no bounded list holding more items than *)
(* its element allows, whatever is called or read.                         *)
TypeOK == /\ type \in MessageTypes
          /\ Shaped(type, obj)
          /\ Shaped(type, peer)
          /\ threw \in BOOLEAN

(* What CDR writes and reads into a new accessor, as DdsReader does, shows  *)
(* the same, whatever calls filled the accessor: alignment, the order of   *)
(* members and the handlers of nested types agree on both sides, and the   *)
(* subset holds every handler that is looked up.                           *)
CdrFaithful ==
    (\E junk \in Junk : peer = New(type, junk)) =>
       LET r == FromCdr(WriteCdr)
       IN  r.ok /\ Shown(type, r.val, FALSE) = Shown(type, obj, FALSE)

(* CdrExternalizer::read into a used accessor leaves nothing of the message *)
(* out; it may keep only optionals and choices the message has not got.    *)
CdrKeepsOnlyTheAbsent ==
    LET r == FromCdr(WriteCdr) IN r.ok /\ Covers(type, r.val, obj)

(* The bounds checks of the decoder refuse every message that is cut short. *)
CutRefused == \A bytes \in Cuts : ~FromCdr(bytes).ok

(* A JSON text the externalizer wrote replaces the content of any accessor, *)
(* floats to six digits, unless it shows an enumeration value without a    *)
(* name, when it is refused.                                               *)
Unnamed(t, v) == \E leaf \in Leaves(t, v) :
                   leaf[1] \in DOMAIN Schema /\ leaf[2] > Schema[leaf[1]].items
JsonReplaces ==
    Parses(type, obj) => \A junk \in Junk :
       LET r == FromJson(Document(type, obj), junk)
       IN  IF Unnamed(type, obj) THEN ~r.ok
           ELSE r.ok /\ Shown(type, r.val, TRUE) = Shown(type, obj, TRUE)

(* A document that is accepted is what the accessor would write: nothing of *)
(* it is dropped, defaulted or, with two variants of a choice, decided.    *)
AcceptedAsWritten ==
    Parses(type, obj) => \A d \in Edited, junk \in Junk :
       LET r == FromJson(d, junk) IN r.ok => Document(type, r.val) = d

(* copy() makes a used accessor show what its source shows.                 *)
CopyShowsTheSame == Shown(type, Copied(type, peer, obj), FALSE) = Shown(type, obj, FALSE)
=============================================================================
