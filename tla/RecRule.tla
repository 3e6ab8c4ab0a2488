------------------------------- MODULE RecRule ------------------------------
(***************************************************************************)
(* cyc::PAttr and cyc::RecRule: what a schema's fields are and where they  *)
(* lie in a record.  An attribute is [id, type, count, bits, offset], with *)
(* bits[p + 1] the id of the bit named at position p, or 0.  A definition  *)
(* of bits is a list of names and of numbers of bits to skip.              *)
(***************************************************************************)
EXTENDS Integers, Sequences, SequencesExt

TypeSize ==
  [Undefine |-> 0, Bool |-> 1, Char |-> 1, Void |-> 1, Int8 |-> 1, UInt8 |-> 1,
   Int16 |-> 2, UInt16 |-> 2, Int32 |-> 4, UInt32 |-> 4, Int64 |-> 8, UInt64 |-> 8,
   Float |-> 4, Double |-> 8, Ptr |-> 8]

IntegerTypes ==
  {"Bool", "Int8", "UInt8", "Int16", "UInt16", "Int32", "UInt32", "Int64", "UInt64"}

(* Types are written by name; "Void" is not among the names read back. *)
TypeFromString(name) == IF name \in DOMAIN TypeSize \ {"Void"} THEN name ELSE "Undefine"

Named(name) == [name |-> name, skip |-> 0]
SkipBits(n) == [name |-> "", skip |-> n]
IsNamed(def) == def.name # ""

(* A field as it is declared; "defs" is empty for a plain field. *)
Field(name, type, count, defs) == [name |-> name, type |-> type, count |-> count, defs |-> defs]
-----------------------------------------------------------------------------
(* The constructor of PAttr with bit definitions: it stops at the first one *)
(* that lies beyond the base type.                                          *)
PlaceBits(field) ==
  LET total == TypeSize[field.type] * 8
      Place(acc, def) ==
        IF acc.fails \/ Len(acc.bits) >= total \/ Len(acc.bits) + def.skip > total
          THEN [acc EXCEPT !.fails = TRUE]
          ELSE [acc EXCEPT !.bits = @ \o (IF IsNamed(def) THEN <<def.name>>
                                          ELSE [i \in 1 .. def.skip |-> ""])]
  IN  FoldLeft(Place, [bits |-> <<>>, fails |-> field.defs # <<>> /\ field.type \notin IntegerTypes],
               field.defs)

(* Trailing reserved bits are not stored. *)
Trimmed(bits) ==
  SubSeq(bits, 1, Max({0} \cup {i \in DOMAIN bits : bits[i] # 0}))

(* The names a field looks up in PReg, in order; none for a wrong type. *)
NamesOf(field) ==
  IF field.defs # <<>> /\ field.type \notin IntegerTypes THEN <<>>
  ELSE <<field.name>> \o SelectSeq(PlaceBits(field).bits, LAMBDA n : n # "")

PAttr(field, ids) ==
  LET names == PlaceBits(field).bits
  IN  [id |-> ids[field.name], type |-> field.type,
       count |-> IF field.defs = <<>> THEN field.count ELSE 1,
       bits |-> Trimmed([i \in DOMAIN names |-> IF names[i] = "" THEN 0 ELSE ids[names[i]]]),
       offset |-> 0]

SizeOfAttr(a) == TypeSize[a.type] * a.count
-----------------------------------------------------------------------------
(* buildHeader: every record begins with its time stamp. *)
TimeStampField == Field("TimeStamp", "Double", 1, <<>>)

(* A stable sort by decreasing size of an element: an attribute's place is *)
(* behind all that are larger and those of its size declared before it.     *)
Precedes(attrs, j, k) ==
  \/ TypeSize[attrs[j].type] > TypeSize[attrs[k].type]
  \/ TypeSize[attrs[j].type] = TypeSize[attrs[k].type] /\ j < k

SortedPlace(attrs, k) == 1 + Cardinality({j \in DOMAIN attrs : Precedes(attrs, j, k)})

SortedBySize(attrs) ==
  [p \in DOMAIN attrs |-> attrs[CHOOSE k \in DOMAIN attrs : SortedPlace(attrs, k) = p]]

(* Fields follow each other without gaps: where each of them ends. *)
EndsOf(attrs) ==
  LET end[k \in 0 .. Len(attrs)] == IF k = 0 THEN 0 ELSE end[k - 1] + SizeOfAttr(attrs[k])
  IN  end

Packed(attrs) ==
  [attrs |-> [k \in DOMAIN attrs |-> [attrs[k] EXCEPT !.offset = EndsOf(attrs)[k - 1]]],
   size  |-> EndsOf(attrs)[Len(attrs)]]

LargestElement(attrs) == Max({1} \cup {TypeSize[a.type] : a \in ToSet(attrs)})

(* Mutant of RoundUp: only whole units count. *)
RoundDown(n, unit) == (n \div unit) * unit

RoundUp(n, unit) == ((n + unit - 1) \div unit) * unit

(* RecRule::init: layout, then the caches by id, where the last attribute   *)
(* with an id wins; a bit named twice makes it throw.                       *)
InitRule(fields, align, ids) ==
  LET user   == [k \in DOMAIN fields |-> PAttr(fields[k], ids)]
      packed == Packed(<<PAttr(TimeStampField, ids)>> \o (IF align THEN SortedBySize(user) ELSE user))
      named  == SelectSeq(FlattenSeq([k \in DOMAIN packed.attrs |-> packed.attrs[k].bits]),
                          LAMBDA b : b # 0)
  IN  [attrs |-> packed.attrs,
       size  |-> IF align THEN RoundUp(packed.size, LargestElement(packed.attrs)) ELSE packed.size,
       fails |-> ~IsInjective(named)]

(* The attribute the caches point to for a field's id, if there is one. *)
HasField(rule, id) == \E k \in DOMAIN rule.attrs : rule.attrs[k].id = id
AttrOf(rule, id) == rule.attrs[Max({k \in DOMAIN rule.attrs : rule.attrs[k].id = id})]

OffsetById(rule, id) == IF HasField(rule, id) THEN AttrOf(rule, id).offset ELSE 0
TypeById(rule, id) ==
  IF HasField(rule, id) /\ AttrOf(rule, id).type # "Undefine" THEN AttrOf(rule, id).type ELSE "Void"

BitRef(rule, id) ==
  LET owners == SelectSeq(rule.attrs, LAMBDA a : Contains(a.bits, id))
  IN  IF owners = <<>> THEN [fieldId |-> 0, bitPos |-> 0]
      ELSE [fieldId |-> owners[1].id,
            bitPos  |-> SelectInSeq(owners[1].bits, LAMBDA b : b = id) - 1]
-----------------------------------------------------------------------------
(* toText: one line per attribute; a run of reserved bits becomes a number, *)
(* the last run reaching to the end of the type.                            *)
DefsOf(attr, names) ==
  LET total == SizeOfAttr(attr) * 8
      Bit(p) == IF p <= Len(attr.bits) THEN attr.bits[p] ELSE 0
      Add(defs, p) ==
        IF Bit(p) # 0 THEN Append(defs, Named(names[Bit(p)]))
        ELSE IF defs # <<>> /\ ~IsNamed(Last(defs))
          THEN [defs EXCEPT ![Len(defs)].skip = @ + 1]
          ELSE Append(defs, SkipBits(1))
  IN  IF attr.bits = <<>> THEN <<>> ELSE FoldLeft(Add, <<>>, [p \in 1 .. total |-> p])

ToText(rule, names) ==
  [k \in DOMAIN rule.attrs |->
     LET a == rule.attrs[k]
     IN  Field(names[a.id], a.type, a.count, DefsOf(a, names))]

(* fromText: the lines of the system header are skipped, the layout is the  *)
(* packed one whatever the rule was made with.                              *)
FieldsFromText(text) ==
  LET user == SelectSeq(text, LAMBDA l : l.name # TimeStampField.name)
  IN  [k \in DOMAIN user |-> [user[k] EXCEPT !.type = TypeFromString(@)]]

FromText(text, ids) == InitRule(FieldsFromText(text), FALSE, ids)
=============================================================================
