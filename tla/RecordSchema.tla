---------------------------- MODULE RecordSchema ----------------------------
(***************************************************************************)
(* Schemas in use: threads that declare fields and bits at the same time,  *)
(* each name looked up in the process-wide registry cyc::PReg, the rules   *)
(* they build, and a cyc::Record written through one of them.  A record's  *)
(* memory is the set of its bits that are set ("lanes", counted from the   *)
(* first bit of the first byte); a value written is all zeros or all ones. *)
(***************************************************************************)
EXTENDS RecRule, FiniteSets

CONSTANTS Builders,      \* threads that build rules
          Declarations,  \* what they declare: [fields, align]
          MaxSets        \* bound: writes to the record

VARIABLES idToName,  \* m_idToName
          nameToId,  \* m_nameToId
          builder,   \* what each thread has got
          record     \* a record, its rule, and the rule rebuilt from text

schemaVars == <<idToName, nameToId, builder, record>>

NoRule == [attrs |-> <<>>, size |-> 0, fails |-> FALSE]

(* "want": the names to look up, "got": the ids found so far. *)
IdleBuilder ==
  [pc |-> "idle", decl |-> [fields |-> <<>>, align |-> FALSE],
   want |-> <<>>, got |-> <<>>, rule |-> NoRule]

(* "said" is what was written last, by field, element and lane. *)
NoData == [open |-> FALSE, decl |-> IdleBuilder.decl, rule |-> NoRule, copy |-> NoRule,
           mem |-> {}, said |-> {}, sets |-> 0]

SchemaInit ==
  /\ idToName = <<>> /\ nameToId = [n \in {} |-> 0]
  /\ builder = [t \in Builders |-> IdleBuilder]
  /\ record = NoData
-----------------------------------------------------------------------------
(* The names a declaration looks up: those of its fields, up to the first   *)
(* that throws, and at last the header's.                                   *)
Lookups(decl) ==
  LET bad  == {k \in DOMAIN decl.fields : PlaceBits(decl.fields[k]).fails}
      upTo == IF bad = {} THEN Len(decl.fields) ELSE Min(bad)
  IN  FlattenSeq([k \in 1 .. upTo |-> NamesOf(decl.fields[k])])
        \o (IF bad = {} THEN <<TimeStampField.name>> ELSE <<>>)

(* Declarations are finite lists of fields with names. *)
Fields == [name : STRING, type : DOMAIN TypeSize, count : Nat,
           defs : Seq([name : STRING, skip : Nat])]

ASSUME DeclarationsAssumption ==
  \A decl \in Declarations :
     decl.fields \in Seq(Fields) /\ decl.align \in BOOLEAN /\ Lookups(decl) \in Seq(STRING)

Wanted(t) == builder[t].want[Len(builder[t].got) + 1]
LooksUp(t, pc) == builder[t].pc = pc /\ Len(builder[t].got) < Len(builder[t].want)

Declare(t) ==
  /\ builder[t].pc = "idle" /\ ~record.open
  /\ \E decl \in Declarations :
       builder' = [builder EXCEPT ![t].pc = "find", ![t].decl = decl, ![t].want = Lookups(decl)]
  /\ UNCHANGED <<idToName, nameToId, record>>

Gets(t, id) == builder' = [builder EXCEPT ![t].got = Append(@, id), ![t].pc = "find"]

(* PReg::getID under the shared lock ... *)
Find(t) ==
  /\ LooksUp(t, "find")
  /\ IF Wanted(t) \in DOMAIN nameToId THEN Gets(t, nameToId[Wanted(t)])
                                      ELSE builder' = [builder EXCEPT ![t].pc = "insert"]
  /\ UNCHANGED <<idToName, nameToId, record>>

Register(name) ==
  /\ idToName' = Append(idToName, name)
  /\ nameToId' = [n \in DOMAIN nameToId \cup {name} |->
                    IF n = name THEN Len(idToName) + 1 ELSE nameToId[n]]

(* Mutant of Insert: the name is not looked up again under the lock. *)
InsertUnchecked(t) ==
  /\ LooksUp(t, "insert")
  /\ Register(Wanted(t)) /\ Gets(t, Len(idToName) + 1)
  /\ UNCHANGED record

(* ... and, if the name was not there, under the exclusive one. *)
Insert(t) ==
  /\ LooksUp(t, "insert")
  /\ IF Wanted(t) \in DOMAIN nameToId
       THEN Gets(t, nameToId[Wanted(t)]) /\ UNCHANGED <<idToName, nameToId>>
       ELSE Register(Wanted(t)) /\ Gets(t, Len(idToName) + 1)
  /\ UNCHANGED record

(* The ids a thread has got, by name. *)
IdsOf(t) ==
  [n \in ToSet(builder[t].want) |->
     builder[t].got[CHOOSE i \in DOMAIN builder[t].got : builder[t].want[i] = n]]

Build(t) ==
  LET decl == builder[t].decl
      fit  == \A k \in DOMAIN decl.fields : ~PlaceBits(decl.fields[k]).fails
      rule == IF fit THEN InitRule(decl.fields, decl.align, IdsOf(t)) ELSE NoRule
  IN  /\ builder[t].pc = "find" /\ Len(builder[t].got) = Len(builder[t].want)
      /\ builder' = IF fit /\ ~rule.fails
                      THEN [builder EXCEPT ![t].pc = "built", ![t].rule = rule]
                      ELSE [builder EXCEPT ![t].pc = "failed"]
      /\ UNCHANGED <<idToName, nameToId, record>>
-----------------------------------------------------------------------------
(* A cleared record of a rule, and the rule a receiver rebuilds from its    *)
(* text.  Bound: only a thread that worked alone goes on to a record.       *)
Open(t) ==
  LET rule == builder[t].rule
  IN  /\ ~record.open /\ builder[t].pc = "built"
      /\ \A u \in Builders \ {t} : builder[u].pc = "idle"
      /\ record' = [NoData EXCEPT !.open = TRUE, !.decl = builder[t].decl, !.rule = rule,
                                  !.copy = FromText(ToText(rule, idToName), nameToId)]
      /\ UNCHANGED <<idToName, nameToId, builder>>

(* The first lane of an element of a field, as a rule places it. *)
FirstLane(rule, id, index) ==
  8 * (OffsetById(rule, id) + index * TypeSize[TypeById(rule, id)])

LanesOf(type) == 0 .. 8 * TypeSize[type] - 1

(* A true bool is the byte 1; setValue writes nothing for other types. *)
Pattern(type, on) == IF ~on THEN {} ELSE IF type = "Bool" THEN {0} ELSE LanesOf(type)

Writes(mem, said) ==
  /\ record.open /\ record.sets < MaxSets
  /\ record' = [record EXCEPT !.mem = mem, !.said = said, !.sets = @ + 1]
  /\ UNCHANGED <<idToName, nameToId, builder>>

SetValue(id, index, on) ==
  LET type  == TypeById(record.rule, id)
      first == FirstLane(record.rule, id, index)
      place(lanes) == {first + l : l \in lanes}
      given(lanes) == {<<id, index, l>> : l \in lanes}
  IN  /\ type # "Void"
      /\ Writes((record.mem \ place(LanesOf(type))) \cup place(Pattern(type, on)),
                (record.said \ given(LanesOf(type))) \cup given(Pattern(type, on)))

(* Mutant of BitLane: the bit is looked for in the first byte of its field. *)
BitLaneFirstByte(rule, bit) ==
  LET ref == BitRef(rule, bit) IN 8 * OffsetById(rule, ref.fieldId) + (ref.bitPos % 8)

(* Where a rule finds a named bit. *)
BitLane(rule, bit) ==
  LET ref == BitRef(rule, bit)
  IN  8 * (OffsetById(rule, ref.fieldId) + ref.bitPos \div 8) + (ref.bitPos % 8)

(* The bits that were declared, as <<bit, field, position>>. *)
DeclaredBits ==
  UNION {{<<nameToId[PlaceBits(f).bits[p]], nameToId[f.name], p - 1>> :
            p \in {q \in DOMAIN PlaceBits(f).bits : PlaceBits(f).bits[q] # ""}} :
         f \in ToSet(record.decl.fields)}

SetBit(bit, field, pos, on) ==
  LET lane == BitLane(record.rule, bit)
      cell == <<field, 0, pos>>
  IN  Writes(IF on THEN record.mem \cup {lane} ELSE record.mem \ {lane},
             IF on THEN record.said \cup {cell} ELSE record.said \ {cell})

(* memset over the record's size. *)
ClearRecord == Writes(record.mem \ (0 .. 8 * record.rule.size - 1), {})

WritesRecord ==
  \/ \E k \in DOMAIN record.rule.attrs, on \in BOOLEAN :
       \E i \in 0 .. record.rule.attrs[k].count - 1 : SetValue(record.rule.attrs[k].id, i, on)
  \/ \E b \in DeclaredBits, on \in BOOLEAN : SetBit(b[1], b[2], b[3], on)
  \/ ClearRecord

SchemaNext ==
  \/ \E t \in Builders : Declare(t) \/ Find(t) \/ Insert(t) \/ Build(t) \/ Open(t)
  \/ WritesRecord

SchemaSpec == SchemaInit /\ [][SchemaNext]_schemaVars
-----------------------------------------------------------------------------
(* getID() from several threads at once: a name has one id and an id one    *)
(* name, for ever the same, so that rules built on different threads agree. *)
RegistryIsOneToOne ==
  /\ IsInjective(idToName)
  /\ DOMAIN nameToId = ToSet(idToName)
  /\ \A t \in Builders : \A i \in DOMAIN builder[t].got :
       nameToId[builder[t].want[i]] = builder[t].got[i]

Bytes(attr) == attr.offset .. attr.offset + SizeOfAttr(attr) - 1

(* RecRule.h:57-69: fields do not overlap and lie inside the record; the    *)
(* aligned layout puts every field, also of the next record in a buffer, at *)
(* a multiple of its element's size, without gaps between the fields.       *)
LayoutIsSound ==
  \A t \in Builders : builder[t].pc = "built" =>
    LET rule  == builder[t].rule
        attrs == ToSet(rule.attrs)
        used  == UNION {Bytes(a) : a \in attrs}
    IN  /\ \A a, b \in attrs : a # b => Bytes(a) \cap Bytes(b) = {}
        /\ used = 0 .. Cardinality(used) - 1
        /\ IF builder[t].decl.align
             THEN /\ rule.size - Cardinality(used) \in 0 .. LargestElement(rule.attrs) - 1
                  /\ \A a \in attrs : TypeSize[a.type] > 0 =>
                       a.offset % TypeSize[a.type] = 0 /\ rule.size % TypeSize[a.type] = 0
             ELSE rule.size = Cardinality(used)

ReadsBack(rule) ==
  /\ \A a \in ToSet(record.rule.attrs) : \A i \in 0 .. a.count - 1 :
       LET first == FirstLane(rule, a.id, i)
       IN  \A l \in LanesOf(a.type) : first + l \in record.mem <=> <<a.id, i, l>> \in record.said
  /\ \A b \in DeclaredBits :
       BitLane(rule, b[1]) \in record.mem <=> <<b[2], 0, b[3]>> \in record.said

(* Every field and every bit of a record reads back as it was written last, *)
(* whatever else was written, and so does it for a receiver that has only   *)
(* the text of the schema (test_Core.cpp:401: the "schema survives a        *)
(* toText/fromText round-trip").  Excepted is a schema with a Void field,   *)
(* which reads as Undefine, of size 0.                                      *)
FieldsKeepTheirValues ==
  record.open =>
    /\ ReadsBack(record.rule)
    /\ (\A a \in ToSet(record.rule.attrs) : a.type # "Void") => ReadsBack(record.copy)
=============================================================================
