--------------------------- MODULE RetentionProofs ---------------------------
(***************************************************************************)
(* What decode retains, for every schema, options and input: the limits of *)
(* collections, the enum policies, required fields, and that rejecting     *)
(* duplicates leaves nothing ambiguous.                                    *)
(*                                                                         *)
(* Each activation keeps its own message in order (Kept), and a callee     *)
(* what it was called for (Link): a packed loop counts with the elements   *)
(* of its caller, and a submessage was no duplicate when it began.         *)
(***************************************************************************)
EXTENDS DecoderProofs, FiniteSetTheorems

Strict(o) == o.duplicates = "Reject"

\* The collections of a node are within the limits.
Held(n, o) ==
  /\ \A f \in RepeatedField : Len(Items(n.rep[f])) <= o.max_repeated_values
  /\ \A f \in MapField : /\ IsFiniteSet(Keys(n.map[f]))
                         /\ Cardinality(Keys(n.map[f])) <= o.max_map_entries

\* A field that is not a map holds declared numbers only.
Checked(f, o) ==
  Desc[f].enum = "closed" \/ (Desc[f].enum # "not" /\ o.enum_values = "RejectUnknown")

\* The values of a map field are declared, or the default.
CheckedValues(f, o) == Desc[f].enum # "not" /\ o.enum_values = "RejectUnknown"

Declared(n, o) ==
  /\ \A f \in ScalarField : Checked(f, o) => n.scalar[f] \in KnownValue \cup {None}
  /\ \A f \in RepeatedField : Checked(f, o) => Items(n.rep[f]) \in Seq(KnownValue)
  /\ \A f \in MapField : \A k \in Scalar :
       CheckedValues(f, o) => n.map[f][k] \in KnownValue \cup {0, None}

\* The message at an address has the required fields of a type.
Completed(m, a, type) ==
  \A f \in Field : Desc[f].owner = type /\ Desc[f].card = "required" => HasAt(m, a, f)

Complete(m) == \A a \in DOMAIN m : a # <<>> => Completed(m, a, Desc[a[Len(a)]].child)

Contents(m, o) ==
  /\ Held(m[<<>>], o) /\ Complete(m)
  /\ \A a \in DOMAIN m : Declared(m[a], o)

\* A trail without duplicates.
Single(audit) ==
  /\ \A j \in DOMAIN audit : audit[j].tag \in {"SchemaField", "UnknownField", "UnknownMessage"}
  /\ \A f \in SingularField : \A i, j \in Occurrences(audit, Slot(f)) : i = j

Unambiguous(m, o) ==
  /\ \A a \in DOMAIN m : Single(m[a].audit) /\ OneofExclusiveAt(m, a) /\ Held(m[a], o)
  /\ \A a \in DOMAIN m : a # <<>> => <<Head(a)>> \in DOMAIN m
  /\ \A f \in SingularField : Occurrences(m[<<>>].audit, Slot(f)) # {} => \E g \in Slot(f) : Has(m, g)

Kept(fr, o) ==
  /\ Contents(fr.msg, o)
  /\ Strict(o) => Unambiguous(fr.msg, o)
  /\ fr.kind = "entry" /\ CheckedValues(fr.via, o) => fr.val \in KnownValue \cup {None}

\* A caller and its callee.
Link(caller, fr, o) ==
  /\ caller.kind # "packed"
  /\ fr.kind = "packed" =>
       Len(Items(caller.msg[<<>>].rep[fr.via])) + Len(Items(fr.msg[<<>>].rep[fr.via]))
         <= o.max_repeated_values
  /\ fr.kind = "message" =>
       /\ fr.type = Desc[fr.via].child /\ Desc[fr.via].child # None
       /\ Strict(o) /\ fr.via \in MessageField => ~Duplicate(caller.msg, fr.via)
       /\ fr.via \in MapField => caller.via = fr.via

KeptStack(s, o) ==
  /\ \A i \in 1 .. Len(s) : Kept(s[i], o)
  /\ \A i \in 2 .. Len(s) : Link(s[i - 1], s[i], o)

Inv2 ==
  /\ KeptStack(stack, options)
  /\ status = "ok" => \A i \in 1 .. Len(stack) : ~MissingRequired(stack[i])

-----------------------------------------------------------------------------
(* Messages.                                                               *)

\* Another message with the same fields at the same addresses.
SameContents(n, m) ==
  /\ DOMAIN n = DOMAIN m
  /\ \A a \in DOMAIN m : /\ n[a].scalar = m[a].scalar
                         /\ n[a].rep = m[a].rep /\ n[a].map = m[a].map

\* Whether a singular field is present is in the scalars and the addresses.
LEMMA HasSingular ==
  ASSUME NEW m, NEW a, NEW f \in SingularField
  PROVE  /\ f \in ScalarField => (HasAt(m, a, f) <=> m[a].scalar[f] # None)
         /\ f \in MessageField => (HasAt(m, a, f) <=> Append(a, f) \in DOMAIN m)
         /\ f \in ScalarField \/ f \in MessageField
BY DEF HasAt, SingularField, ScalarField, MessageField, RepeatedField, MapField

\* A required field is singular.
LEMMA RequiredIsSingular ==
  ASSUME NEW f \in Field, Desc[f].card = "required"
  PROVE  f \in SingularField
BY DEF SingularField

\* Presence follows from the contents.
LEMMA HasSame ==
  ASSUME NEW m, NEW n, SameContents(n, m), NEW a \in DOMAIN m
  PROVE  \A f \in Field : HasAt(n, a, f) <=> HasAt(m, a, f)
BY DEF HasAt, SameContents

\* A message with the same contents keeps what is promised of them.
LEMMA ContentsSame ==
  ASSUME NEW m, IsMessage(m), NEW n, NEW o, SameContents(n, m), Contents(m, o)
  PROVE  Contents(n, o)
<1>1. <<>> \in DOMAIN m
  BY DEF IsMessage
<1>2. Held(n[<<>>], o)
  BY <1>1 DEF Held, SameContents, Contents
<1>3. Complete(n)
  BY HasSame DEF Complete, Completed, Contents, SameContents
<1>4. ASSUME NEW a \in DOMAIN n PROVE Declared(n[a], o)
  BY <1>4 DEF Declared, SameContents, Contents
<1> QED BY <1>2, <1>3, <1>4 DEF Contents

\* The parts of Unambiguous that are not about the trail.
LEMMA FieldsSame ==
  ASSUME NEW m, IsMessage(m), NEW n, NEW o, SameContents(n, m), Unambiguous(m, o)
  PROVE  /\ \A a \in DOMAIN n : OneofExclusiveAt(n, a) /\ Held(n[a], o)
         /\ \A a \in DOMAIN n : a # <<>> => <<Head(a)>> \in DOMAIN n
<1>1. ASSUME NEW a \in DOMAIN n PROVE OneofExclusiveAt(n, a)
  <2>1. a \in DOMAIN m /\ OneofExclusiveAt(m, a)
    BY DEF SameContents, Unambiguous
  <2>2. \A f \in Field : HasAt(n, a, f) <=> HasAt(m, a, f)
    BY <2>1, HasSame
  <2>3. \A f \in SingularField : f \in Field /\ Siblings(f) \subseteq Field
    BY DEF SingularField, Siblings
  <2> QED BY <2>1, <2>2, <2>3 DEF OneofExclusiveAt
<1>2. ASSUME NEW a \in DOMAIN n PROVE Held(n[a], o)
  BY DEF Held, SameContents, Unambiguous
<1> QED BY <1>1, <1>2 DEF SameContents, Unambiguous

\* The oneof of a field is the same for all its members.
LEMMA SlotsAgree ==
  ASSUME NEW f \in Field, NEW g \in Slot(f)
  PROVE  g \in Field /\ f \in Slot(g) /\ Slot(g) = Slot(f)
BY DEF Slot, Siblings

\* A record of a field that is not singular is in no slot.
LEMMA SlotOfSingular ==
  ASSUME NEW f \in SingularField, NEW g \in Slot(f)
  PROVE  g \in SingularField
BY SiblingsAreSingular DEF Slot, SingularField

\* A message with the same contents and trails is as unambiguous.
LEMMA UnambiguousSame ==
  ASSUME NEW m, IsMessage(m), NEW n, NEW o, SameContents(n, m), Unambiguous(m, o),
         \A a \in DOMAIN m : n[a].audit = m[a].audit
  PROVE  Unambiguous(n, o)
<1>1. <<>> \in DOMAIN m
  BY DEF IsMessage
<1>2. \A a \in DOMAIN n : Single(n[a].audit)
  BY DEF Unambiguous, SameContents
<1>3. \A f \in SingularField : Occurrences(n[<<>>].audit, Slot(f)) # {} => \E g \in Slot(f) : Has(n, g)
  <2>1. \A f \in Field : HasAt(n, <<>>, f) <=> HasAt(m, <<>>, f)
    BY <1>1, HasSame
  <2>2. \A f \in SingularField : Slot(f) \subseteq Field
    BY SlotOfSingular DEF SingularField
  <2>3. n[<<>>].audit = m[<<>>].audit
    BY <1>1
  <2> QED BY <2>1, <2>2, <2>3 DEF Unambiguous, Has
<1> QED BY <1>2, <1>3, FieldsSame DEF Unambiguous


\* A fresh message has nothing to check.
LEMMA NewKept ==
  ASSUME NEW o \in DecodeOptions
  PROVE  Contents(New, o) /\ Unambiguous(New, o)
<1>1. DOMAIN New = {<<>>} /\ New[<<>>] = EmptyNode
  BY DEF New
<1>2. Held(EmptyNode, o)
  <2>1. \A f \in RepeatedField : Items(EmptyNode.rep[f]) = <<>>
    BY DEF EmptyNode, Items
  <2>2. \A f \in MapField : Keys(EmptyNode.map[f]) = {}
    BY DEF EmptyNode, Keys, NoEntry
  <2>3. Len(<<>>) = 0 /\ o.max_repeated_values \in Nat /\ o.max_map_entries \in Nat
    BY DEF DecodeOptions
  <2>4. \A f \in RepeatedField : Len(Items(EmptyNode.rep[f])) <= o.max_repeated_values
    BY <2>1, <2>3
  <2>5. IsFiniteSet({}) /\ Cardinality({}) = 0
    BY FS_EmptySet
  <2>6. \A f \in MapField : /\ IsFiniteSet(Keys(EmptyNode.map[f]))
                            /\ Cardinality(Keys(EmptyNode.map[f])) <= o.max_map_entries
    BY <2>2, <2>3, <2>5
  <2> QED BY <2>4, <2>6 DEF Held
<1>3. Declared(EmptyNode, o)
  BY DEF Declared, EmptyNode, Items, NoEntry
<1>4. Complete(New)
  BY <1>1 DEF Complete
<1>5. OneofExclusiveAt(New, <<>>)
  <2>1. Fits(New, 0, 0)
    BY FreshFits
  <2> QED BY <2>1 DEF Fits
<1>6. EmptyNode.audit = <<>> /\ DOMAIN <<>> = {}
  BY DEF EmptyNode
<1>7. Single(EmptyNode.audit)
  BY <1>6 DEF Single, Occurrences
<1>8. \A f : Occurrences(EmptyNode.audit, Slot(f)) = {}
  BY <1>6 DEF Occurrences
<1> QED BY <1>1, <1>2, <1>3, <1>4, <1>5, <1>7, <1>8 DEF Contents, Unambiguous

-----------------------------------------------------------------------------
(* The trail and the unknown fields.                                       *)

\* A record, an unknown field or a demotion changes no field.
LEMMA TrailOnly ==
  ASSUME NEW m, IsMessage(m)
  PROVE  /\ \A r \in AuditRecord : SameContents(PushAudit(m, r), m)
         /\ \A e \in Seq(UnknownEntry) : SameContents(PushUnknown(m, e), m)
         /\ \A S : SameContents(DemoteIn(m, S), m)
<1>1. \A a \in DOMAIN m : m[a] \in Node
  BY DEF IsMessage
<1>2. ASSUME NEW r \in AuditRecord PROVE SameContents(PushAudit(m, r), m)
  <2>1. SameFields(PushAudit(m, r), m)
    BY PushAuditTyped
  <2>2. \A a \in DOMAIN m : a # <<>> => PushAudit(m, r)[a] = m[a]
    BY DEF PushAudit
  <2> QED BY <2>1, <2>2 DEF SameContents, SameFields
<1>3. ASSUME NEW e \in Seq(UnknownEntry) PROVE SameContents(PushUnknown(m, e), m)
  <2>1. SameFields(PushUnknown(m, e), m)
    BY PushUnknownTyped
  <2>2. \A a \in DOMAIN m : a # <<>> => PushUnknown(m, e)[a] = m[a]
    BY DEF PushUnknown
  <2> QED BY <2>1, <2>2 DEF SameContents, SameFields
<1>4. ASSUME NEW S PROVE SameContents(DemoteIn(m, S), m)
  <2>1. SameFields(DemoteIn(m, S), m)
    BY DemoteInTyped
  <2>2. \A a \in DOMAIN m : a # <<>> => DemoteIn(m, S)[a] = m[a]
    BY DEF DemoteIn
  <2> QED BY <2>1, <2>2 DEF SameContents, SameFields
<1> QED BY <1>2, <1>3, <1>4

\* An unknown field, under whatever policy, changes neither fields nor trail.
LEMMA UnknownKept ==
  ASSUME NEW m, IsMessage(m), NEW o, Contents(m, o), Strict(o) => Unambiguous(m, o),
         NEW e \in Seq(UnknownEntry)
  PROVE  /\ Contents(PushUnknown(m, e), o) /\ Contents(KeepUnknown(m, e), o)
         /\ Strict(o) => Unambiguous(PushUnknown(m, e), o) /\ Unambiguous(KeepUnknown(m, e), o)
         /\ IsMessage(PushUnknown(m, e)) /\ IsMessage(KeepUnknown(m, e))
<1> DEFINE n == PushUnknown(m, e)
<1>1. IsMessage(n) /\ SameContents(n, m)
  BY PushUnknownTyped, TrailOnly
<1>2. \A a \in DOMAIN m : n[a].audit = m[a].audit
  <2>1. \A a \in DOMAIN m : a # <<>> => n[a] = m[a]
    BY DEF PushUnknown
  <2>2. n[<<>>] = [m[<<>>] EXCEPT !.unknown = @ \o e] /\ m[<<>>] \in Node
    BY DEF PushUnknown, IsMessage
  <2>3. n[<<>>].audit = m[<<>>].audit
    BY <2>2 DEF Node
  <2> QED BY <2>1, <2>3
<1> HIDE DEF n
<1>3. Contents(n, o) /\ (Strict(o) => Unambiguous(n, o))
  BY <1>1, <1>2, ContentsSame, UnambiguousSame
<1> QED BY <1>1, <1>3 DEF KeepUnknown, n

\* A demotion changes no field, and rejecting duplicates leaves none to make.
LEMMA DemotedKept ==
  ASSUME NEW m, IsMessage(m), NEW o, Contents(m, o), Strict(o) => Unambiguous(m, o),
         NEW f, NEW duplicate, NEW merged, Strict(o) => ~duplicate
  PROVE  /\ Contents(DemoteDisplaced(m, f, duplicate, merged), o)
         /\ Strict(o) => Unambiguous(DemoteDisplaced(m, f, duplicate, merged), o)
         /\ IsMessage(DemoteDisplaced(m, f, duplicate, merged))
         /\ SameContents(DemoteDisplaced(m, f, duplicate, merged), m)
<1> DEFINE S == Siblings(f) \cup {f}
<1>1. IsMessage(DemoteIn(m, S)) /\ SameContents(DemoteIn(m, S), m)
  BY DemoteInTyped, TrailOnly
<1>2. Contents(DemoteIn(m, S), o)
  BY <1>1, ContentsSame
<1>3. SameContents(m, m)
  BY DEF SameContents
<1>4. CASE duplicate /\ ~merged
  <2>1. DemoteDisplaced(m, f, duplicate, merged) = DemoteIn(m, S)
    BY <1>4 DEF DemoteDisplaced
  <2> HIDE DEF S
  <2> QED BY <1>1, <1>2, <1>4, <2>1
<1>5. CASE ~(duplicate /\ ~merged)
  <2>1. DemoteDisplaced(m, f, duplicate, merged) = m
    BY <1>5 DEF DemoteDisplaced
  <2> QED BY <1>3, <2>1
<1> QED BY <1>4, <1>5

\* What a record must be when duplicates are rejected: the first of its slot,
\* and that of a field that is present.
Recordable(m, tag, f) ==
  /\ tag \in {"SchemaField", "UnknownField", "UnknownMessage"}
  /\ \A g \in SingularField : f \in Slot(g) /\ tag # "UnknownField" =>
       Occurrences(m[<<>>].audit, Slot(g)) = {} /\ \E h \in Slot(g) : Has(m, h)

\* A record pushed keeps what is promised of a message.
LEMMA RecordedKept ==
  ASSUME NEW m, IsMessage(m), NEW o, Contents(m, o), Strict(o) => Unambiguous(m, o),
         NEW r \in AuditRecord, Strict(o) => Recordable(m, r.tag, r.field)
  PROVE  /\ Contents(PushAudit(m, r), o)
         /\ Strict(o) => Unambiguous(PushAudit(m, r), o)
<1> DEFINE n   == PushAudit(m, r)
           old == m[<<>>].audit
           new == n[<<>>].audit
<1>1. IsMessage(n) /\ SameContents(n, m) /\ <<>> \in DOMAIN m
  BY PushAuditTyped, TrailOnly DEF IsMessage
<1>2. Contents(n, o)
  BY <1>1, ContentsSame
<1>3. \A a \in DOMAIN m : a # <<>> => n[a] = m[a]
  BY DEF PushAudit
<1>4. old \in Seq(AuditRecord) /\ new = Append(old, r)
  <2>1. n[<<>>] = [m[<<>>] EXCEPT !.audit = Append(@, r)] /\ m[<<>>] \in Node
    BY <1>1 DEF PushAudit, IsMessage
  <2> QED BY <2>1 DEF Node
<1>5. /\ Len(old) \in Nat /\ DOMAIN new = 1 .. Len(old) + 1 /\ DOMAIN old = 1 .. Len(old)
      /\ \A j \in 1 .. Len(old) : new[j] = old[j]
      /\ new[Len(old) + 1] = r
  BY <1>4
<1> HIDE DEF n, old, new
<1>6. ASSUME Strict(o) PROVE Unambiguous(n, o)
  <2>1. Single(old) /\ Recordable(m, r.tag, r.field) /\ Unambiguous(m, o)
    BY <1>1, <1>6 DEF Unambiguous, old
  <2>2. ASSUME NEW g \in SingularField
        PROVE  /\ Occurrences(new, Slot(g)) \subseteq Occurrences(old, Slot(g)) \cup {Len(old) + 1}
               /\ Len(old) + 1 \in Occurrences(new, Slot(g))
                    => Occurrences(old, Slot(g)) = {} /\ \E h \in Slot(g) : Has(m, h)
    <3>1. Occurrences(new, Slot(g)) \subseteq Occurrences(old, Slot(g)) \cup {Len(old) + 1}
      BY <1>5 DEF Occurrences
    <3>2. ASSUME Len(old) + 1 \in Occurrences(new, Slot(g))
          PROVE  Occurrences(old, Slot(g)) = {} /\ \E h \in Slot(g) : Has(m, h)
      <4>1. r.field \in Slot(g) /\ r.tag # "UnknownField"
        BY <1>5, <3>2 DEF Occurrences
      <4> QED BY <2>1, <4>1 DEF Recordable, old
    <3> QED BY <3>1, <3>2
  <2>3. \A j \in DOMAIN new : new[j].tag \in {"SchemaField", "UnknownField", "UnknownMessage"}
    BY <1>5, <2>1 DEF Single, Recordable
  <2>4. ASSUME NEW g \in SingularField, NEW i \in Occurrences(new, Slot(g)),
               NEW j \in Occurrences(new, Slot(g))
        PROVE  i = j
    BY <2>1, <2>2 DEF Single
  <2>5. Single(new)
    BY <2>3, <2>4 DEF Single
  <2>6. \A a \in DOMAIN n : Single(n[a].audit)
    BY <1>1, <1>3, <2>1, <2>5 DEF Unambiguous, SameContents, new
  <2>7. \A g \in Field : Has(n, g) <=> Has(m, g)
    BY <1>1, HasSame DEF Has
  <2>8. ASSUME NEW g \in SingularField, Occurrences(new, Slot(g)) # {}
        PROVE  \E h \in Slot(g) : Has(n, h)
    <3>1. \E h \in Slot(g) : Has(m, h)
      <4>1. CASE Len(old) + 1 \in Occurrences(new, Slot(g))
        BY <2>2, <4>1
      <4>2. CASE Len(old) + 1 \notin Occurrences(new, Slot(g))
        BY <2>1, <2>2, <2>8, <4>2 DEF Unambiguous, old
      <4> QED BY <4>1, <4>2
    <3>2. Slot(g) \subseteq Field
      BY SlotOfSingular DEF SingularField
    <3> QED BY <2>7, <3>1, <3>2
  <2> QED BY <1>1, <2>1, <2>6, <2>8, FieldsSame DEF Unambiguous, new
<1> QED BY <1>2, <1>6 DEF n

-----------------------------------------------------------------------------
(* Repeated fields and maps.                                               *)

\* Another vector of a repeated field or other entries of a map field.
Elsewhere(n, m) ==
  /\ DOMAIN n = DOMAIN m /\ n[<<>>].scalar = m[<<>>].scalar /\ n[<<>>].audit = m[<<>>].audit
  /\ \A a \in DOMAIN m : a # <<>> => n[a] = m[a]

\* A message written at its root keeps what is promised of it.
LEMMA ElsewhereKept ==
  ASSUME NEW m, IsMessage(m), NEW n, NEW o, Elsewhere(n, m), Contents(m, o),
         Strict(o) => Unambiguous(m, o), Held(n[<<>>], o), Declared(n[<<>>], o)
  PROVE  Contents(n, o) /\ (Strict(o) => Unambiguous(n, o))
<1>1. <<>> \in DOMAIN m
  BY DEF IsMessage
<1>2. \A a \in DOMAIN m : \A f \in SingularField : HasAt(n, a, f) <=> HasAt(m, a, f)
  <2> TAKE a \in DOMAIN m
  <2> TAKE f \in SingularField
  <2>1. n[a].scalar = m[a].scalar /\ DOMAIN n = DOMAIN m
    BY <1>1 DEF Elsewhere
  <2> QED BY <2>1, HasSingular
<1>3. Complete(n)
  BY <1>2, RequiredIsSingular DEF Complete, Completed, Contents, Elsewhere
<1>4. \A a \in DOMAIN n : Declared(n[a], o)
  BY DEF Contents, Elsewhere
<1>5. ASSUME Strict(o) PROVE Unambiguous(n, o)
  <2>1. Unambiguous(m, o)
    BY <1>5
  <2>2. \A a \in DOMAIN n : Single(n[a].audit) /\ Held(n[a], o)
    BY <2>1 DEF Unambiguous, Elsewhere
  <2>3. \A a \in DOMAIN n : OneofExclusiveAt(n, a)
    <3> TAKE a \in DOMAIN n
    <3>1. a \in DOMAIN m /\ OneofExclusiveAt(m, a)
      BY <2>1 DEF Unambiguous, Elsewhere
    <3>2. \A f \in SingularField : \A g \in Siblings(f) : g \in SingularField
      BY SiblingsAreSingular DEF SingularField
    <3> QED BY <1>2, <3>1, <3>2 DEF OneofExclusiveAt
  <2>4. \A f \in SingularField : Occurrences(n[<<>>].audit, Slot(f)) # {} => \E g \in Slot(f) : Has(n, g)
    <3>1. n[<<>>].audit = m[<<>>].audit
      BY <1>1 DEF Elsewhere
    <3> QED BY <1>1, <1>2, <2>1, <3>1, SlotOfSingular DEF Unambiguous, Has
  <2>5. \A a \in DOMAIN n : a # <<>> => <<Head(a)>> \in DOMAIN n
    BY <2>1 DEF Unambiguous, Elsewhere
  <2> QED BY <2>2, <2>3, <2>4, <2>5 DEF Unambiguous
<1> QED BY <1>3, <1>4, <1>5 DEF Contents

\* A stored vector is the one that is read back.
LEMMA SetRepItems ==
  ASSUME NEW m, IsMessage(m), NEW f \in RepeatedField, NEW xs \in Seq(Value)
  PROVE  IsMessage(SetRep(m, f, xs)) /\ Items(SetRep(m, f, xs)[<<>>].rep[f]) = xs
<1> DEFINE n == SetRep(m, f, xs)
<1>1. IsMessage(n) /\ n[<<>>] = [m[<<>>] EXCEPT !.rep = [@ EXCEPT ![f] = xs]]
  <2>1. IsMessage(n)
    BY SetRepTyped
  <2>2. DOMAIN n = DOMAIN m /\ n[<<>>] = [m[<<>>] EXCEPT !.rep = [@ EXCEPT ![f] = xs]]
    BY SetRepTyped
  <2> QED BY <2>1, <2>2
<1> HIDE DEF n
<1>2. m[<<>>] \in Node
  BY DEF IsMessage
<1>3. n[<<>>].rep[f] = xs
  BY <1>1, <1>2 DEF Node
<1>4. Items(n[<<>>].rep[f]) = xs
  BY <1>3, ValueAssumption DEF Items, Value
<1> QED BY <1>1, <1>4 DEF n

\* Storing a vector within the limit, of declared numbers.
LEMMA SetRepKept ==
  ASSUME NEW m, IsMessage(m), NEW o, Contents(m, o), Strict(o) => Unambiguous(m, o),
         NEW f \in RepeatedField, NEW xs \in Seq(Value),
         Len(xs) <= o.max_repeated_values, Checked(f, o) => xs \in Seq(KnownValue)
  PROVE  /\ Contents(SetRep(m, f, xs), o)
         /\ Strict(o) => Unambiguous(SetRep(m, f, xs), o)
<1> DEFINE n == SetRep(m, f, xs)
<1>1. /\ DOMAIN n = DOMAIN m /\ m[<<>>] \in Node
      /\ n[<<>>] = [m[<<>>] EXCEPT !.rep = [@ EXCEPT ![f] = xs]]
  <2>1. m[<<>>] \in Node
    BY DEF IsMessage
  <2>2. DOMAIN n = DOMAIN m /\ n[<<>>] = [m[<<>>] EXCEPT !.rep = [@ EXCEPT ![f] = xs]]
    BY ONLY IsMessage(m), f \in RepeatedField, xs \in Seq(Value), SetRepTyped
  <2> QED BY <2>1, <2>2
<1>2. /\ n[<<>>].scalar = m[<<>>].scalar /\ n[<<>>].audit = m[<<>>].audit
      /\ n[<<>>].map = m[<<>>].map /\ n[<<>>].rep = [m[<<>>].rep EXCEPT ![f] = xs]
      /\ m[<<>>].rep \in [RepeatedField -> Seq(Value) \cup {None}]
  BY <1>1 DEF Node
<1>3. \A a \in DOMAIN m : a # <<>> => n[a] = m[a]
  BY DEF SetRep
<1> HIDE DEF n
<1>4. /\ n[<<>>].rep[f] = xs
      /\ \A g \in RepeatedField : g # f => n[<<>>].rep[g] = m[<<>>].rep[g]
  BY <1>2
<1>5. Items(xs) = xs
  BY ValueAssumption DEF Items, Value
<1>6. Elsewhere(n, m)
  BY <1>1, <1>2, <1>3 DEF Elsewhere
<1>7. Held(m[<<>>], o) /\ Declared(m[<<>>], o)
  BY DEF Contents, IsMessage
<1>8. Held(n[<<>>], o)
  BY <1>2, <1>4, <1>5, <1>7 DEF Held
<1>9. Declared(n[<<>>], o)
  BY <1>2, <1>4, <1>5, <1>7 DEF Declared
<1> QED BY <1>6, <1>8, <1>9, ElsewhereKept DEF n

\* An entry joins its map, whose limit has been checked when the key is new.
LEMMA SetMapKept ==
  ASSUME NEW m, IsMessage(m), NEW o \in DecodeOptions, Contents(m, o),
         Strict(o) => Unambiguous(m, o),
         NEW f \in MapField, NEW k \in Scalar, NEW v \in Value,
         k \in Keys(m[<<>>].map[f]) \/ Cardinality(Keys(m[<<>>].map[f])) < o.max_map_entries,
         CheckedValues(f, o) => v \in KnownValue \cup {0}
  PROVE  /\ Contents(SetMap(m, f, PutEntry(m[<<>>].map[f], k, v)), o)
         /\ Strict(o) => Unambiguous(SetMap(m, f, PutEntry(m[<<>>].map[f], k, v)), o)
<1> DEFINE e == m[<<>>].map[f]
           x == PutEntry(e, k, v)
           n == SetMap(m, f, x)
<1>1. e \in Entries /\ m[<<>>] \in Node /\ m[<<>>].map \in [MapField -> Entries]
  <2>1. m[<<>>] \in Node
    BY DEF IsMessage
  <2>2. m[<<>>].map \in [MapField -> Entries]
    BY <2>1, NodeParts
  <2> QED BY <2>1, <2>2
<1>2. v # None
  BY ValueAssumption DEF Value
<1>3. /\ x \in Entries /\ x[k] = v
      /\ \A j \in Scalar : j # k => x[j] = e[j]
  <2> HIDE DEF e
  <2> QED BY <1>1 DEF PutEntry, Entries
<1>4. Keys(x) = Keys(e) \cup {k}
  <2> HIDE DEF x, e
  <2> QED BY <1>2, <1>3 DEF Keys
<1>5. IsFiniteSet(Keys(e)) /\ Cardinality(Keys(e)) \in Nat /\ Cardinality(Keys(e)) <= o.max_map_entries
  <2>1. IsFiniteSet(Keys(e)) /\ Cardinality(Keys(e)) <= o.max_map_entries
    BY DEF Contents, Held
  <2> HIDE DEF e
  <2> QED BY <2>1, FS_CardinalityType
<1>6. IsFiniteSet(Keys(x)) /\ Cardinality(Keys(x)) <= o.max_map_entries
  <2>1. IsFiniteSet(Keys(e) \cup {k})
        /\ Cardinality(Keys(e) \cup {k}) =
             IF k \in Keys(e) THEN Cardinality(Keys(e)) ELSE Cardinality(Keys(e)) + 1
    BY <1>5, FS_AddElement
  <2>2. o.max_map_entries \in Nat
    BY DEF DecodeOptions
  <2> HIDE DEF x
  <2> QED BY <1>4, <1>5, <2>1, <2>2
<1> HIDE DEF x
<1>7. /\ DOMAIN n = DOMAIN m
      /\ n[<<>>] = [m[<<>>] EXCEPT !.map = [@ EXCEPT ![f] = x]]
  <2>1. x \in Entries
    BY <1>3
  <2> QED BY <2>1, SetMapTyped
<1>8. /\ n[<<>>].scalar = m[<<>>].scalar /\ n[<<>>].audit = m[<<>>].audit
      /\ n[<<>>].rep = m[<<>>].rep /\ n[<<>>].map = [m[<<>>].map EXCEPT ![f] = x]
  BY <1>1, <1>7 DEF Node
<1>9. \A a \in DOMAIN m : a # <<>> => n[a] = m[a]
  BY DEF SetMap
<1> HIDE DEF n
<1>10. /\ n[<<>>].map[f] = x
       /\ \A g \in MapField : g # f => n[<<>>].map[g] = m[<<>>].map[g]
  BY <1>1, <1>8
<1>11. Elsewhere(n, m)
  BY <1>7, <1>8, <1>9 DEF Elsewhere
<1>12. Held(m[<<>>], o) /\ Declared(m[<<>>], o)
  BY DEF Contents, IsMessage
<1>13. Held(n[<<>>], o)
  BY <1>6, <1>8, <1>10, <1>12 DEF Held
<1>14. Declared(n[<<>>], o)
  <2>1. \A j \in Scalar : CheckedValues(f, o) => x[j] \in KnownValue \cup {0, None}
    BY <1>3, <1>12 DEF Declared
  <2> QED BY <1>8, <1>10, <1>12, <2>1 DEF Declared
<1> QED BY <1>11, <1>13, <1>14, ElsewhereKept DEF n, x

-----------------------------------------------------------------------------
(* Singular fields.                                                        *)

\* Removing the siblings of f takes whole submessages away.
LEMMA DisplaceParts ==
  ASSUME NEW m, IsMessage(m), NEW f \in Field
  PROVE  /\ IsMessage(Displace(m, f))
         /\ DOMAIN Displace(m, f) = {b \in DOMAIN m : \A g \in Siblings(f) : ~Under(g, b)}
         /\ \A a \in DOMAIN Displace(m, f) : a # <<>> => Displace(m, f)[a] = m[a]
         /\ Displace(m, f)[<<>>].rep = m[<<>>].rep
         /\ Displace(m, f)[<<>>].map = m[<<>>].map
         /\ Displace(m, f)[<<>>].audit = m[<<>>].audit
         /\ \A g \in ScalarField : Displace(m, f)[<<>>].scalar[g] =
                                     IF g \in Siblings(f) THEN None ELSE m[<<>>].scalar[g]
<1> DEFINE n == Displace(m, f)
<1>1. /\ IsMessage(n)
      /\ DOMAIN n = {b \in DOMAIN m : \A g \in Siblings(f) : ~Under(g, b)}
      /\ n[<<>>] = [m[<<>>] EXCEPT !.scalar = [g \in ScalarField |->
                                     IF g \in Siblings(f) THEN None ELSE @[g]]]
  BY RemoveFieldsTyped DEF Displace
<1>2. \A a \in DOMAIN n : a # <<>> => n[a] = m[a]
  BY <1>1 DEF Displace, RemoveFields
<1> HIDE DEF n
<1>3. m[<<>>] \in Node
  BY DEF IsMessage
<1>4. /\ n[<<>>].rep = m[<<>>].rep /\ n[<<>>].map = m[<<>>].map
      /\ n[<<>>].audit = m[<<>>].audit
      /\ \A g \in ScalarField : n[<<>>].scalar[g] = IF g \in Siblings(f) THEN None ELSE m[<<>>].scalar[g]
  BY <1>1, <1>3 DEF Node
<1> QED BY <1>1, <1>2, <1>4 DEF n

\* An address that is extended by a field keeps its first part.
LEMMA ExtendedAddress ==
  ASSUME NEW S, NEW a \in Seq(S), a # <<>>, NEW g \in S
  PROVE  Append(a, g) # <<>> /\ Head(Append(a, g)) = Head(a)
OBVIOUS

\* Displacing the siblings of a field keeps what is promised of a message.
LEMMA DisplacedContents ==
  ASSUME NEW m, IsMessage(m), NEW o, Contents(m, o), NEW f \in Field
  PROVE  Contents(Displace(m, f), o)
<1> DEFINE n == Displace(m, f)
<1>1. /\ IsMessage(n)
      /\ DOMAIN n = {b \in DOMAIN m : \A g \in Siblings(f) : ~Under(g, b)}
      /\ \A a \in DOMAIN n : a # <<>> => n[a] = m[a]
      /\ n[<<>>].rep = m[<<>>].rep /\ n[<<>>].map = m[<<>>].map
      /\ \A g \in ScalarField : n[<<>>].scalar[g] = IF g \in Siblings(f) THEN None ELSE m[<<>>].scalar[g]
  BY DisplaceParts
<1> HIDE DEF n
<1>2. Held(n[<<>>], o)
  BY <1>1 DEF Contents, Held
<1>3. ASSUME NEW a \in DOMAIN n PROVE Declared(n[a], o)
  <2>1. Declared(m[a], o)
    BY <1>1 DEF Contents
  <2>2. CASE a # <<>>
    BY <1>1, <2>1, <2>2
  <2>3. CASE a = <<>>
    BY <1>1, <2>1, <2>3 DEF Declared
  <2> QED BY <2>2, <2>3
<1>4. ASSUME NEW a \in DOMAIN n, a # <<>>, NEW g \in Field,
             Desc[g].owner = Desc[a[Len(a)]].child, Desc[g].card = "required"
      PROVE  HasAt(n, a, g)
  <2>1. g \in SingularField
    BY <1>4, RequiredIsSingular
  <2>2. a \in DOMAIN m /\ a \in Seq(MessageField) /\ n[a] = m[a]
    BY <1>1, <1>4 DEF IsMessage
  <2>3. HasAt(m, a, g)
    BY <1>4, <2>2 DEF Contents, Complete, Completed
  <2>4. CASE g \in ScalarField
    BY <2>1, <2>2, <2>3, <2>4, HasSingular
  <2>5. CASE g \in MessageField
    <3>1. Append(a, g) \in DOMAIN m
      BY <2>1, <2>3, <2>5, HasSingular
    <3>2. Append(a, g) # <<>> /\ Head(Append(a, g)) = Head(a)
      BY <1>4, <2>2, <2>5, ExtendedAddress
    <3>3. \A h \in Siblings(f) : ~Under(h, Append(a, g))
      BY <1>1, <1>4, <3>2 DEF Under
    <3> QED BY <1>1, <2>1, <2>5, <3>1, <3>3, HasSingular
  <2> QED BY <2>1, <2>4, <2>5, HasSingular
<1>5. Complete(n)
  BY <1>4 DEF Complete, Completed
<1> QED BY <1>2, <1>3, <1>5 DEF Contents, n

\* Without a sibling there is nothing to remove.
LEMMA NothingDisplaced ==
  ASSUME NEW m, IsMessage(m), NEW f \in SingularField, ~Duplicate(m, f),
         \A a \in DOMAIN m : a # <<>> => <<Head(a)>> \in DOMAIN m
  PROVE  Displace(m, f) = m
<1> DEFINE n == Displace(m, f)
<1>1. f \in Field /\ <<>> \in DOMAIN m /\ m[<<>>] \in Node /\ m \in [DOMAIN m -> Node]
  BY DEF SingularField, IsMessage
<1>2. \A g \in Siblings(f) : g \in SingularField /\ ~HasAt(m, <<>>, g)
  BY <1>1, SiblingsAreSingular DEF Duplicate, Has
<1>3. ASSUME NEW g \in Siblings(f), NEW b \in DOMAIN m PROVE ~Under(g, b)
  <2> SUFFICES ASSUME Under(g, b) PROVE FALSE
    OBVIOUS
  <2>1. b # <<>> /\ Head(b) = g /\ b \in Seq(MessageField)
    BY DEF Under, IsMessage
  <2>2. g \in MessageField
    BY <2>1
  <2>3. Append(<<>>, g) = <<g>>
    OBVIOUS
  <2> QED BY <1>2, <2>1, <2>2, <2>3, HasSingular
<1>4. n = [a \in DOMAIN m |-> n[a]] /\ DOMAIN n = DOMAIN m
  <2>1. DOMAIN n = {b \in DOMAIN m : \A g \in Siblings(f) : ~Under(g, b)}
    BY <1>1, DisplaceParts
  <2>2. DOMAIN n = DOMAIN m
    BY <1>3, <2>1
  <2>3. n = [a \in DOMAIN n |-> n[a]]
    BY DEF Displace, RemoveFields
  <2> HIDE DEF n
  <2> QED BY <2>2, <2>3
<1>5. n[<<>>] = m[<<>>]
  <2>1. n[<<>>] = [m[<<>>] EXCEPT !.scalar = [g \in ScalarField |->
                                     IF g \in Siblings(f) THEN None ELSE @[g]]]
    BY RemoveFieldsTyped DEF Displace
  <2>2. m[<<>>].scalar \in [ScalarField -> Scalar \cup {None}]
    BY <1>1, NodeParts
  <2>3. \A g \in ScalarField : g \in Siblings(f) => m[<<>>].scalar[g] = None
    BY <1>2, HasSingular
  <2>4. [g \in ScalarField |-> IF g \in Siblings(f) THEN None ELSE m[<<>>].scalar[g]] = m[<<>>].scalar
    BY <2>2, <2>3
  <2> HIDE DEF n
  <2> QED BY <1>1, <2>1, <2>4 DEF Node
<1>6. \A a \in DOMAIN m : n[a] = m[a]
  <2>1. \A a \in DOMAIN n : a # <<>> => n[a] = m[a]
    BY <1>1, DisplaceParts
  <2> HIDE DEF n
  <2> QED BY <1>4, <1>5, <2>1
<1> HIDE DEF n
<1>7. m = [a \in DOMAIN m |-> m[a]]
  BY <1>1
<1> QED BY <1>4, <1>6, <1>7 DEF n

\* The record of an occurrence that is the only one of its slot.
LEMMA FirstOfSlot ==
  ASSUME NEW m, NEW f \in SingularField, Has(m, f), Occurrences(m[<<>>].audit, Slot(f)) = {}
  PROVE  Recordable(m, "SchemaField", f)
<1>1. f \in Slot(f) /\ f \in Field
  BY DEF Slot, SingularField
<1>2. ASSUME NEW g \in SingularField, f \in Slot(g)
      PROVE  Occurrences(m[<<>>].audit, Slot(g)) = {} /\ \E h \in Slot(g) : Has(m, h)
  <2>1. Slot(g) = Slot(f)
    BY <1>2, SlotsAgree DEF SingularField
  <2> QED BY <1>1, <2>1
<1> QED BY <1>2 DEF Recordable

\* Storing a scalar once its siblings are gone.
LEMMA SetScalarKept ==
  ASSUME NEW m, IsMessage(m), NEW o, Contents(m, o),
         NEW f \in ScalarField, NEW v \in Scalar, Checked(f, o) => v \in KnownValue,
         Strict(o) => Unambiguous(m, o) /\ ~Duplicate(m, f),
         OneofExclusiveAt(SetScalar(Displace(m, f), f, v), <<>>)
  PROVE  /\ Contents(SetScalar(Displace(m, f), f, v), o)
         /\ Strict(o) => /\ Unambiguous(SetScalar(Displace(m, f), f, v), o)
                         /\ Recordable(SetScalar(Displace(m, f), f, v), "SchemaField", f)
<1> DEFINE d == Displace(m, f)
           n == SetScalar(d, f, v)
<1>1. f \in SingularField /\ f \in Field
  BY DEF ScalarField, SingularField
<1>2. IsMessage(d) /\ Contents(d, o)
  BY <1>1, DisplaceParts, DisplacedContents
<1>3. Strict(o) => d = m
  BY <1>1, NothingDisplaced DEF Unambiguous
<1> HIDE DEF d
<1>4. /\ IsMessage(n) /\ DOMAIN n = DOMAIN d /\ d[<<>>] \in Node /\ <<>> \in DOMAIN d
      /\ n[<<>>] = [d[<<>>] EXCEPT !.scalar = [@ EXCEPT ![f] = v]]
  <2>1. d[<<>>] \in Node /\ <<>> \in DOMAIN d
    BY <1>2 DEF IsMessage
  <2>2. /\ IsMessage(n) /\ DOMAIN n = DOMAIN d
        /\ n[<<>>] = [d[<<>>] EXCEPT !.scalar = [@ EXCEPT ![f] = v]]
    BY <1>2, SetScalarTyped
  <2> QED BY <2>1, <2>2
<1>5. \A a \in DOMAIN d : a # <<>> => n[a] = d[a]
  BY DEF SetScalar
<1> HIDE DEF n
<1>6. /\ n[<<>>].rep = d[<<>>].rep /\ n[<<>>].map = d[<<>>].map /\ n[<<>>].audit = d[<<>>].audit
      /\ n[<<>>].scalar[f] = v
      /\ \A g \in ScalarField : g # f => n[<<>>].scalar[g] = d[<<>>].scalar[g]
  BY <1>4 DEF Node
<1>7. v # None
  BY ValueAssumption
<1>8. \A a \in DOMAIN d : \A g \in SingularField : a # <<>> => (HasAt(n, a, g) <=> HasAt(d, a, g))
  BY <1>4, <1>5, HasSingular
<1>9. \A g \in SingularField : HasAt(d, <<>>, g) => HasAt(n, <<>>, g)
  BY <1>4, <1>6, <1>7, HasSingular
<1>10. Contents(n, o)
  <2>1. Held(n[<<>>], o)
    BY <1>2, <1>6 DEF Contents, Held
  <2>2. Complete(n)
    BY <1>2, <1>4, <1>8, RequiredIsSingular DEF Complete, Completed, Contents
  <2>3. ASSUME NEW a \in DOMAIN n PROVE Declared(n[a], o)
    <3>1. Declared(d[a], o)
      BY <1>2, <1>4 DEF Contents
    <3>2. CASE a # <<>>
      BY <1>4, <1>5, <3>1, <3>2
    <3>3. CASE a = <<>>
      BY <1>6, <3>1, <3>3 DEF Declared
    <3> QED BY <3>2, <3>3
  <2> QED BY <2>1, <2>2, <2>3 DEF Contents
<1>11. ASSUME Strict(o) PROVE Unambiguous(n, o) /\ Recordable(n, "SchemaField", f)
  <2>1. d = m /\ Unambiguous(m, o) /\ ~Duplicate(m, f)
    BY <1>3, <1>11
  <2>2. \A a \in DOMAIN n : Single(n[a].audit) /\ Held(n[a], o)
    <3>1. \A a \in DOMAIN n : n[a].rep = m[a].rep /\ n[a].map = m[a].map /\ n[a].audit = m[a].audit
      BY <1>4, <1>5, <1>6, <2>1
    <3> QED BY <1>4, <2>1, <3>1 DEF Unambiguous, Held
  <2>3. ASSUME NEW a \in DOMAIN n PROVE OneofExclusiveAt(n, a)
    <3>1. CASE a = <<>>
      BY <3>1 DEF n, d
    <3>2. CASE a # <<>>
      <4>1. OneofExclusiveAt(m, a) /\ a \in DOMAIN d
        BY <1>4, <2>1 DEF Unambiguous
      <4>2. \A g \in SingularField : \A h \in Siblings(g) : h \in SingularField
        BY SiblingsAreSingular DEF SingularField
      <4> QED BY <1>8, <2>1, <3>2, <4>1, <4>2 DEF OneofExclusiveAt
    <3> QED BY <3>1, <3>2
  <2>4. \A a \in DOMAIN n : a # <<>> => <<Head(a)>> \in DOMAIN n
    BY <1>4, <2>1 DEF Unambiguous
  <2>5. \A g \in SingularField : Occurrences(n[<<>>].audit, Slot(g)) # {} => \E h \in Slot(g) : Has(n, h)
    <3>1. \A g \in SingularField : Slot(g) \subseteq SingularField
      BY SlotOfSingular
    <3> QED BY <1>6, <1>9, <2>1, <3>1 DEF Unambiguous, Has
  <2>6. Has(n, f)
    BY <1>1, <1>6, <1>7, HasSingular DEF Has
  <2>7. Occurrences(n[<<>>].audit, Slot(f)) = {}
    BY <1>1, <1>6, <2>1 DEF Unambiguous, Duplicate, Slot
  <2>8. Unambiguous(n, o)
    BY <2>2, <2>3, <2>4, <2>5 DEF Unambiguous
  <2>9. Recordable(n, "SchemaField", f)
    BY <1>1, <2>6, <2>7, FirstOfSlot
  <2> QED BY <2>8, <2>9
<1> QED BY <1>10, <1>11 DEF n, d

\* Where a node of a merged message comes from.
FromOld(n, d, a) == a \in DOMAIN d /\ n[a] = d[a]
FromSub(n, d, f, sub, a) ==
  \E b \in DOMAIN sub :
    /\ a = <<f>> \o b /\ Tail(a) = b
    /\ \/ a \in DOMAIN d /\ n[a] = MergeNode(d[a], sub[b])
       \/ a \notin DOMAIN d /\ n[a] = sub[b]

\* Each submessage of a merge is that of the message or of the one merged.
LEMMA MergeParts ==
  ASSUME NEW d, IsMessage(d), NEW sub, IsMessage(sub), NEW f \in MessageField
  PROVE  /\ \A a \in DOMAIN MergeMessage(d, f, sub) :
              FromOld(MergeMessage(d, f, sub), d, a) \/ FromSub(MergeMessage(d, f, sub), d, f, sub, a)
         /\ \A a \in DOMAIN d : ~Under(f, a) => MergeMessage(d, f, sub)[a] = d[a]
         /\ \A b \in DOMAIN sub :
              /\ <<f>> \o b \in Seq(MessageField) /\ <<f>> \o b # <<>>
              /\ Head(<<f>> \o b) = f /\ Tail(<<f>> \o b) = b
              /\ \A g \in MessageField : Append(<<f>> \o b, g) = <<f>> \o Append(b, g)
              /\ (<<f>> \o b)[Len(<<f>> \o b)] = IF b = <<>> THEN f ELSE b[Len(b)]
<1> DEFINE n == MergeMessage(d, f, sub)
<1>1. ASSUME NEW b \in DOMAIN sub
      PROVE  /\ <<f>> \o b \in Seq(MessageField) /\ <<f>> \o b # <<>>
             /\ Head(<<f>> \o b) = f /\ Tail(<<f>> \o b) = b
             /\ \A g \in MessageField : Append(<<f>> \o b, g) = <<f>> \o Append(b, g)
             /\ (<<f>> \o b)[Len(<<f>> \o b)] = IF b = <<>> THEN f ELSE b[Len(b)]
  <2>1. b \in Seq(MessageField)
    BY DEF IsMessage
  <2>2. <<f>> \o b \in Seq(MessageField) /\ Len(<<f>> \o b) = Len(b) + 1 /\ Len(b) \in Nat
    BY <2>1
  <2>3. <<f>> \o b # <<>> /\ Head(<<f>> \o b) = f /\ Tail(<<f>> \o b) = b
    BY <2>1
  <2>4. \A g \in MessageField : Append(<<f>> \o b, g) = <<f>> \o Append(b, g)
    BY <2>1
  <2>5. (<<f>> \o b)[Len(<<f>> \o b)] = IF b = <<>> THEN f ELSE b[Len(b)]
    BY <2>1, <2>2
  <2> QED BY <2>2, <2>3, <2>4, <2>5
<1>2. DOMAIN n = DOMAIN d \cup {<<f>> \o b : b \in DOMAIN sub}
  BY MergeMessageTyped
<1>3. \A a \in DOMAIN n :
        n[a] = IF ~Under(f, a) \/ Tail(a) \notin DOMAIN sub THEN d[a]
               ELSE IF a \in DOMAIN d THEN MergeNode(d[a], sub[Tail(a)])
               ELSE sub[Tail(a)]
  BY DEF MergeMessage
<1> HIDE DEF n
<1>4. ASSUME NEW a \in DOMAIN n PROVE FromOld(n, d, a) \/ FromSub(n, d, f, sub, a)
  <2>1. CASE ~Under(f, a) \/ Tail(a) \notin DOMAIN sub
    <3>1. ASSUME NEW b \in DOMAIN sub, a = <<f>> \o b PROVE FALSE
      <4>1. a # <<>> /\ Head(a) = f /\ Tail(a) = b
        BY <1>1, <3>1
      <4> QED BY <2>1, <4>1 DEF Under
    <3>2. a \in DOMAIN d
      BY <1>2, <3>1
    <3> QED BY <1>3, <2>1, <3>2 DEF FromOld
  <2>2. CASE Under(f, a) /\ Tail(a) \in DOMAIN sub
    <3>1. a = <<f>> \o Tail(a)
      <4>1. CASE a \in DOMAIN d
        <5>1. a \in Seq(MessageField) /\ a # <<>> /\ Head(a) = f
          BY <2>2, <4>1 DEF IsMessage, Under
        <5> QED BY <5>1
      <4>2. CASE a \notin DOMAIN d
        BY <1>1, <1>2, <4>2
      <4> QED BY <4>1, <4>2
    <3> QED BY <1>3, <2>2, <3>1 DEF FromSub
  <2> QED BY <2>1, <2>2
<1>5. \A a \in DOMAIN d : ~Under(f, a) => n[a] = d[a]
  BY <1>2, <1>3
<1> QED BY <1>1, <1>4, <1>5 DEF n

\* The values of two nodes together are declared when those of each are.
LEMMA MergeDeclared ==
  ASSUME NEW o, NEW p \in Node, NEW q \in Node, Declared(p, o), Declared(q, o)
  PROVE  Declared(MergeNode(p, q), o)
<1> DEFINE n == MergeNode(p, q)
<1>1. \A f \in ScalarField : n.scalar[f] = p.scalar[f] \/ n.scalar[f] = q.scalar[f]
  BY DEF MergeNode
<1>2. \A f \in MapField : \A k \in Scalar : n.map[f][k] = p.map[f][k] \/ n.map[f][k] = q.map[f][k]
  BY DEF MergeNode, MergeMap
<1>3. ASSUME NEW f \in RepeatedField, Checked(f, o)
      PROVE  Items(n.rep[f]) \in Seq(KnownValue)
  <2>1. Items(p.rep[f]) \in Seq(KnownValue) /\ Items(q.rep[f]) \in Seq(KnownValue)
    BY <1>3 DEF Declared
  <2>2. n.rep[f] = MergeRep(p.rep[f], q.rep[f])
    BY DEF MergeNode
  <2>3. CASE q.rep[f] = None
    BY <2>1, <2>2, <2>3 DEF MergeRep
  <2>4. CASE q.rep[f] # None
    <3>1. n.rep[f] = Items(p.rep[f]) \o Items(q.rep[f])
      BY <2>2, <2>4 DEF MergeRep, Items
    <3>2. n.rep[f] \in Seq(KnownValue)
      <4> HIDE DEF n
      <4> QED BY <2>1, <3>1, ConcatProperties
    <3> HIDE DEF n
    <3> QED BY <3>2, EmptySeq DEF Items
  <2> QED BY <2>3, <2>4
<1> HIDE DEF n
<1>4. \A f \in ScalarField : Checked(f, o) => n.scalar[f] \in KnownValue \cup {None}
  BY <1>1 DEF Declared
<1>5. \A f \in MapField : \A k \in Scalar :
        CheckedValues(f, o) => n.map[f][k] \in KnownValue \cup {0, None}
  BY <1>2 DEF Declared
<1>6. Declared(n, o)
  BY <1>3, <1>4, <1>5 DEF Declared
<1> QED BY <1>6 DEF n

\* A complete submessage joins its field: the result has what either had.
LEMMA MergedContents ==
  ASSUME NEW d, IsMessage(d), NEW o, Contents(d, o), NEW f \in MessageField,
         NEW sub, IsMessage(sub), Contents(sub, o), Completed(sub, <<>>, Desc[f].child)
  PROVE  Contents(MergeMessage(d, f, sub), o)
<1> DEFINE n == MergeMessage(d, f, sub)
<1>1. /\ DOMAIN n = DOMAIN d \cup {<<f>> \o b : b \in DOMAIN sub} /\ n[<<>>] = d[<<>>]
      /\ \A a \in DOMAIN n : FromOld(n, d, a) \/ FromSub(n, d, f, sub, a)
  <2>1. DOMAIN n = DOMAIN d \cup {<<f>> \o b : b \in DOMAIN sub} /\ n[<<>>] = d[<<>>]
    BY MergeMessageTyped
  <2>2. \A a \in DOMAIN n : FromOld(n, d, a) \/ FromSub(n, d, f, sub, a)
    BY MergeParts
  <2> QED BY <2>1, <2>2
<1>2. \A b \in DOMAIN sub :
        /\ \A g \in MessageField : Append(<<f>> \o b, g) = <<f>> \o Append(b, g)
        /\ (<<f>> \o b)[Len(<<f>> \o b)] = IF b = <<>> THEN f ELSE b[Len(b)]
  BY MergeParts
<1> HIDE DEF n
<1>3. Held(n[<<>>], o)
  BY <1>1 DEF Contents
<1>4. ASSUME NEW a \in DOMAIN n PROVE Declared(n[a], o)
  <2>1. CASE FromOld(n, d, a)
    BY <2>1 DEF FromOld, Contents
  <2>2. CASE FromSub(n, d, f, sub, a)
    <3>1. PICK b \in DOMAIN sub : \/ a \in DOMAIN d /\ n[a] = MergeNode(d[a], sub[b])
                                  \/ a \notin DOMAIN d /\ n[a] = sub[b]
      BY <2>2 DEF FromSub
    <3>2. Declared(sub[b], o) /\ sub[b] \in Node
      BY DEF Contents, IsMessage
    <3>3. a \in DOMAIN d => Declared(d[a], o) /\ d[a] \in Node
      BY DEF Contents, IsMessage
    <3> QED BY <3>1, <3>2, <3>3, MergeDeclared
  <2> QED BY <1>1, <2>1, <2>2
<1>5. ASSUME NEW a \in DOMAIN n, a # <<>>, NEW g \in Field,
             Desc[g].owner = Desc[a[Len(a)]].child, Desc[g].card = "required"
      PROVE  HasAt(n, a, g)
  <2>1. g \in SingularField
    BY <1>5, RequiredIsSingular
  <2>2. CASE FromOld(n, d, a)
    <3>1. HasAt(d, a, g) /\ a \in DOMAIN d /\ n[a] = d[a]
      BY <1>5, <2>2 DEF Contents, Complete, Completed, FromOld
    <3> QED BY <1>1, <2>1, <3>1, HasSingular
  <2>3. CASE FromSub(n, d, f, sub, a)
    <3>1. PICK b \in DOMAIN sub :
            /\ a = <<f>> \o b
            /\ \/ a \in DOMAIN d /\ n[a] = MergeNode(d[a], sub[b])
               \/ a \notin DOMAIN d /\ n[a] = sub[b]
      BY <2>3 DEF FromSub
    <3>2. HasAt(sub, b, g)
      BY <1>2, <1>5, <3>1 DEF Contents, Complete, Completed
    <3>3. CASE g \in ScalarField
      <4>1. sub[b].scalar[g] # None
        BY <2>1, <3>2, <3>3, HasSingular
      <4>2. n[a].scalar[g] # None
        BY <3>1, <3>3, <4>1 DEF MergeNode
      <4> QED BY <2>1, <3>3, <4>2, HasSingular
    <3>4. CASE g \in MessageField
      <4>1. Append(b, g) \in DOMAIN sub
        BY <2>1, <3>2, <3>4, HasSingular
      <4>2. Append(a, g) \in DOMAIN n
        BY <1>1, <1>2, <3>1, <3>4, <4>1
      <4> QED BY <2>1, <3>4, <4>2, HasSingular
    <3> QED BY <2>1, <3>3, <3>4, HasSingular
  <2> QED BY <1>1, <2>2, <2>3
<1>6. Complete(n)
  BY <1>5 DEF Complete, Completed
<1> QED BY <1>3, <1>4, <1>6 DEF Contents, n

\* A submessage that is no duplicate is stored as it is.
LEMMA StoredWhole ==
  ASSUME NEW m, IsMessage(m), NEW o, Unambiguous(m, o), NEW f \in MessageField, ~Duplicate(m, f),
         NEW sub, IsMessage(sub)
  PROVE  /\ \A a \in DOMAIN MergeMessage(m, f, sub) :
              \/ a \in DOMAIN m /\ MergeMessage(m, f, sub)[a] = m[a] /\ ~Under(f, a)
              \/ \E b \in DOMAIN sub : a = <<f>> \o b /\ MergeMessage(m, f, sub)[a] = sub[b]
         /\ \A b \in DOMAIN sub : <<f>> \o b \notin DOMAIN m
<1> DEFINE n == MergeMessage(m, f, sub)
<1>1. \A a \in DOMAIN m : ~Under(f, a)
  <2>1. f \in SingularField /\ f \in Field
    BY DEF MessageField, SingularField
  <2>2. ~HasAt(m, <<>>, f) /\ Append(<<>>, f) = <<f>>
    BY DEF Duplicate, Has
  <2>3. <<f>> \notin DOMAIN m
    BY <2>1, <2>2, HasSingular
  <2> QED BY <2>3 DEF Under, Unambiguous
<1>2. \A b \in DOMAIN sub : <<f>> \o b \notin DOMAIN m
  <2>1. \A b \in DOMAIN sub : Under(f, <<f>> \o b)
    BY MergeParts DEF Under
  <2> QED BY <1>1, <2>1
<1>3. \A a \in DOMAIN n : FromOld(n, m, a) \/ FromSub(n, m, f, sub, a)
  BY MergeParts
<1> HIDE DEF n
<1>4. \A a \in DOMAIN n : \/ a \in DOMAIN m /\ n[a] = m[a] /\ ~Under(f, a)
                          \/ \E b \in DOMAIN sub : a = <<f>> \o b /\ n[a] = sub[b]
  BY <1>1, <1>2, <1>3 DEF FromOld, FromSub
<1> QED BY <1>2, <1>4 DEF n

\* Its addresses are those of the submessage, one field further down.
LEMMA StoredBelow ==
  ASSUME NEW m, IsMessage(m), NEW o, Unambiguous(m, o), NEW f \in MessageField, ~Duplicate(m, f),
         NEW sub, IsMessage(sub)
  PROVE  /\ \A a \in DOMAIN m : a # <<>> => \A g \in SingularField :
              HasAt(MergeMessage(m, f, sub), a, g) <=> HasAt(m, a, g)
         /\ \A b \in DOMAIN sub : \A g \in SingularField :
              HasAt(MergeMessage(m, f, sub), <<f>> \o b, g) <=> HasAt(sub, b, g)
         /\ \A g \in SingularField : HasAt(m, <<>>, g) => HasAt(MergeMessage(m, f, sub), <<>>, g)
<1> DEFINE n == MergeMessage(m, f, sub)
<1>1. DOMAIN n = DOMAIN m \cup {<<f>> \o b : b \in DOMAIN sub} /\ n[<<>>] = m[<<>>]
  BY MergeMessageTyped
<1>2. /\ \A a \in DOMAIN n : \/ a \in DOMAIN m /\ n[a] = m[a] /\ ~Under(f, a)
                             \/ \E b \in DOMAIN sub : a = <<f>> \o b /\ n[a] = sub[b]
      /\ \A b \in DOMAIN sub : <<f>> \o b \notin DOMAIN m
  BY StoredWhole
<1>3. \A b \in DOMAIN sub :
        /\ <<f>> \o b # <<>> /\ Head(<<f>> \o b) = f /\ Tail(<<f>> \o b) = b
        /\ \A g \in MessageField : Append(<<f>> \o b, g) = <<f>> \o Append(b, g)
  BY MergeParts
<1> HIDE DEF n
<1>4. ASSUME NEW a \in DOMAIN m, a # <<>>, NEW g \in SingularField
      PROVE  HasAt(n, a, g) <=> HasAt(m, a, g)
  <2>1. n[a] = m[a] /\ ~Under(f, a)
    BY <1>1, <1>2
  <2>2. CASE g \in ScalarField
    BY <2>1, <2>2, HasSingular
  <2>3. CASE g \in MessageField
    <3>1. Append(a, g) # <<>> /\ Head(Append(a, g)) = Head(a)
      BY <1>4, <2>3, ExtendedAddress DEF IsMessage
    <3>2. \A b \in DOMAIN sub : Append(a, g) # <<f>> \o b
      BY <1>3, <1>4, <2>1, <3>1 DEF Under
    <3>3. Append(a, g) \in DOMAIN n <=> Append(a, g) \in DOMAIN m
      BY <1>1, <3>2
    <3> QED BY <2>3, <3>3, HasSingular
  <2> QED BY <2>2, <2>3, HasSingular
<1>5. ASSUME NEW b \in DOMAIN sub, NEW g \in SingularField
      PROVE  HasAt(n, <<f>> \o b, g) <=> HasAt(sub, b, g)
  <2>1. n[<<f>> \o b] = sub[b]
    <3>1. <<f>> \o b \in DOMAIN n /\ <<f>> \o b \notin DOMAIN m
      BY <1>1, <1>2
    <3>2. PICK c \in DOMAIN sub : <<f>> \o b = <<f>> \o c /\ n[<<f>> \o b] = sub[c]
      BY <1>2, <3>1
    <3>3. b = c
      BY <1>3, <3>2
    <3> QED BY <3>2, <3>3
  <2>2. CASE g \in ScalarField
    BY <2>1, <2>2, HasSingular
  <2>3. CASE g \in MessageField
    <3>1. Append(<<f>> \o b, g) = <<f>> \o Append(b, g)
      BY <1>3, <2>3
    <3>2. Append(b, g) \in DOMAIN sub => <<f>> \o Append(b, g) \in DOMAIN n
      BY <1>1
    <3>3. ASSUME <<f>> \o Append(b, g) \in DOMAIN n PROVE Append(b, g) \in DOMAIN sub
      <4>1. Append(b, g) \in Seq(MessageField) /\ b \in Seq(MessageField)
        BY <2>3 DEF IsMessage
      <4>2. /\ <<f>> \o Append(b, g) # <<>> /\ Head(<<f>> \o Append(b, g)) = f
            /\ Tail(<<f>> \o Append(b, g)) = Append(b, g)
        BY <4>1
      <4>3. PICK c \in DOMAIN sub : <<f>> \o Append(b, g) = <<f>> \o c
        BY <1>2, <3>3, <4>2 DEF Under
      <4> QED BY <1>3, <4>2, <4>3
    <3> QED BY <2>3, <3>1, <3>2, <3>3, HasSingular
  <2> QED BY <2>2, <2>3, HasSingular
<1>6. ASSUME NEW g \in SingularField, HasAt(m, <<>>, g) PROVE HasAt(n, <<>>, g)
  BY <1>1, <1>6, HasSingular
<1> QED BY <1>4, <1>5, <1>6 DEF n

\* Storing or merging a submessage.
LEMMA MergeKept ==
  ASSUME NEW m, IsMessage(m), NEW o, Contents(m, o), NEW f \in MessageField,
         NEW sub, IsMessage(sub), Contents(sub, o), Completed(sub, <<>>, Desc[f].child),
         Strict(o) => Unambiguous(m, o) /\ Unambiguous(sub, o) /\ ~Duplicate(m, f),
         OneofExclusiveAt(MergeMessage(Displace(m, f), f, sub), <<>>)
  PROVE  /\ Contents(MergeMessage(Displace(m, f), f, sub), o)
         /\ Strict(o) => /\ Unambiguous(MergeMessage(Displace(m, f), f, sub), o)
                         /\ Recordable(MergeMessage(Displace(m, f), f, sub), "SchemaField", f)
<1> DEFINE d == Displace(m, f)
           n == MergeMessage(d, f, sub)
<1>1. f \in SingularField /\ f \in Field
  BY DEF MessageField, SingularField
<1>2. IsMessage(d) /\ Contents(d, o)
  BY <1>1, DisplaceParts, DisplacedContents
<1>3. Strict(o) => d = m
  BY <1>1, NothingDisplaced DEF Unambiguous
<1> HIDE DEF d
<1>4. Contents(n, o)
  BY <1>2, MergedContents
<1>5. ASSUME Strict(o) PROVE Unambiguous(n, o) /\ Recordable(n, "SchemaField", f)
  <2>1. d = m /\ Unambiguous(m, o) /\ Unambiguous(sub, o) /\ ~Duplicate(m, f)
    BY <1>3, <1>5
  <2>2. DOMAIN n = DOMAIN m \cup {<<f>> \o b : b \in DOMAIN sub} /\ n[<<>>] = m[<<>>]
    BY <2>1, MergeMessageTyped
  <2>3. \A a \in DOMAIN n : \/ a \in DOMAIN m /\ n[a] = m[a] /\ ~Under(f, a)
                            \/ \E b \in DOMAIN sub : a = <<f>> \o b /\ n[a] = sub[b]
    BY <2>1, StoredWhole
  <2>4. /\ \A a \in DOMAIN m : a # <<>> => \A g \in SingularField : HasAt(n, a, g) <=> HasAt(m, a, g)
        /\ \A b \in DOMAIN sub : \A g \in SingularField :
              HasAt(n, <<f>> \o b, g) <=> HasAt(sub, b, g)
        /\ \A g \in SingularField : HasAt(m, <<>>, g) => HasAt(n, <<>>, g)
    BY <2>1, StoredBelow
  <2>5. \A b \in DOMAIN sub : Head(<<f>> \o b) = f
    BY MergeParts
  <2>6. OneofExclusiveAt(n, <<>>)
    BY DEF n, d
  <2> HIDE DEF n
  <2>7. \A a \in DOMAIN n : Single(n[a].audit) /\ Held(n[a], o)
    BY <2>1, <2>3 DEF Unambiguous
  <2>8. \A g \in SingularField : \A h \in Siblings(g) : h \in SingularField
    BY SiblingsAreSingular DEF SingularField
  <2>9. ASSUME NEW a \in DOMAIN n PROVE OneofExclusiveAt(n, a)
    <3>1. CASE a = <<>>
      BY <2>6, <3>1
    <3>2. CASE a \in DOMAIN m /\ a # <<>>
      <4>1. OneofExclusiveAt(m, a)
        BY <2>1, <3>2 DEF Unambiguous
      <4> QED BY <2>4, <2>8, <3>2, <4>1 DEF OneofExclusiveAt
    <3>3. ASSUME NEW b \in DOMAIN sub, a = <<f>> \o b PROVE OneofExclusiveAt(n, a)
      <4>1. OneofExclusiveAt(sub, b)
        BY <2>1 DEF Unambiguous
      <4> QED BY <2>4, <2>8, <3>3, <4>1 DEF OneofExclusiveAt
    <3> QED BY <2>3, <3>1, <3>2, <3>3
  <2>10. <<f>> \in DOMAIN n
    <3>1. <<f>> \o <<>> = <<f>> /\ <<>> \in DOMAIN sub
      BY DEF IsMessage
    <3> QED BY <2>2, <3>1
  <2>11. ASSUME NEW a \in DOMAIN n, a # <<>> PROVE <<Head(a)>> \in DOMAIN n
    BY <2>1, <2>2, <2>3, <2>5, <2>10, <2>11 DEF Unambiguous
  <2>12. \A g \in SingularField : Occurrences(n[<<>>].audit, Slot(g)) # {} => \E h \in Slot(g) : Has(n, h)
    <3>1. \A g \in SingularField : Slot(g) \subseteq SingularField
      BY SlotOfSingular
    <3> QED BY <2>1, <2>2, <2>4, <3>1 DEF Unambiguous, Has
  <2>13. Has(n, f)
    <3>1. Append(<<>>, f) = <<f>>
      OBVIOUS
    <3> QED BY <1>1, <2>10, <3>1, HasSingular DEF Has
  <2>14. Occurrences(n[<<>>].audit, Slot(f)) = {}
    BY <1>1, <2>1, <2>2 DEF Unambiguous, Duplicate, Slot
  <2>15. Unambiguous(n, o)
    BY <2>7, <2>9, <2>11, <2>12 DEF Unambiguous
  <2>16. Recordable(n, "SchemaField", f)
    BY <1>1, <2>13, <2>14, FirstOfSlot
  <2> QED BY <2>15, <2>16
<1> QED BY <1>4, <1>5 DEF n, d

-----------------------------------------------------------------------------
(* Activations and stacks.                                                 *)

\* The same activation, further on, of a frame that is no packed loop; a
\* packed loop has not moved.
Goes(g, old, o) ==
  /\ g \in Frame /\ Kept(g, o)
  /\ g.kind = old.kind /\ g.via = old.via /\ g.type = old.type
  /\ old.kind = "packed" => g.msg = old.msg

ResumesKept(below, old, o) == \A g : Goes(g, old, o) => KeptStack(Append(below, g), o)

\* The frame at some height is replaced and those above it dropped.
LEMMA KeptReplace ==
  ASSUME NEW s \in Seq(Frame), NEW o, KeptStack(s, o), NEW n \in 1 .. Len(s),
         NEW g, Kept(g, o), n > 1 => Link(s[n - 1], g, o)
  PROVE  KeptStack(Append(SubSeq(s, 1, n - 1), g), o)
<1> DEFINE t == SubSeq(s, 1, n - 1)
           u == Append(t, g)
<1>1. Len(s) \in Nat /\ n - 1 \in 0 .. Len(s) /\ n \in Nat
  BY LenProperties
<1>2. t \in Seq(Frame) /\ Len(t) = n - 1 /\ \A i \in 1 .. n - 1 : t[i] = s[i]
  BY <1>1, PrefixProperties
<1> HIDE DEF t
<1>3. Len(u) = n /\ (\A i \in 1 .. n - 1 : u[i] = s[i]) /\ u[n] = g
  BY <1>1, <1>2
<1> HIDE DEF u
<1>4. \A i \in 1 .. Len(u) : Kept(u[i], o)
  BY <1>1, <1>3 DEF KeptStack
<1>5. \A i \in 2 .. Len(u) : Link(u[i - 1], u[i], o)
  BY <1>1, <1>3 DEF KeptStack
<1> QED BY <1>4, <1>5 DEF KeptStack, u, t

\* A stack with a kept activation put on top is kept.
LEMMA KeptPush ==
  ASSUME NEW s, NEW o, s \in Seq(Frame), s # <<>>, KeptStack(s, o),
         NEW g, Kept(g, o), Link(s[Len(s)], g, o)
  PROVE  KeptStack(Append(s, g), o)
<1> DEFINE u == Append(s, g)
<1>1. /\ Len(s) \in Nat /\ Len(s) >= 1 /\ Len(u) = Len(s) + 1
      /\ (\A i \in 1 .. Len(s) : u[i] = s[i]) /\ u[Len(s) + 1] = g
  BY EmptySeq
<1> HIDE DEF u
<1>2. \A i \in 1 .. Len(u) : Kept(u[i], o)
  BY <1>1 DEF KeptStack
<1>3. \A i \in 2 .. Len(u) : Link(u[i - 1], u[i], o)
  BY <1>1 DEF KeptStack
<1> QED BY <1>2, <1>3 DEF KeptStack, u

\* The activation at the top, and its caller when it has one.
LEMMA KeptTop ==
  ASSUME Inv, Inv2, status = "decoding"
  PROVE  /\ stack \in Seq(Frame) /\ Len(stack) \in Nat \ {0} /\ options \in DecodeOptions
         /\ Top \in Frame /\ IsMessage(Top.msg) /\ Goes(Top, Top, options)
         /\ ResumesKept(Below(1), Top, options)
<1>1. stack \in Seq(Frame) /\ Len(stack) \in Nat \ {0}
  BY EmptySeq DEF Inv, StackOK
<1>2. Top \in Frame /\ IsMessage(Top.msg) /\ options \in DecodeOptions
  BY ReadingProperties, OptionsAssumption DEF Fits, Inv
<1>3. Kept(Top, options)
  BY <1>1 DEF Inv2, KeptStack, Top
<1>4. ASSUME NEW g, Goes(g, Top, options) PROVE KeptStack(Append(Below(1), g), options)
  <2>1. Len(stack) > 1 => Link(stack[Len(stack) - 1], g, options)
    <3>1. Len(stack) > 1 => Link(stack[Len(stack) - 1], Top, options)
      BY <1>1 DEF Inv2, KeptStack, Top
    <3> QED BY <1>4, <3>1 DEF Link, Goes
  <2> QED BY <1>1, <1>4, <2>1, KeptReplace DEF Inv2, Goes, Below
<1> QED BY <1>1, <1>2, <1>3, <1>4 DEF Goes, ResumesKept

\* The caller of the innermost activation can resume.
LEMMA KeptCaller ==
  ASSUME Inv, Inv2, status = "decoding", Top.kind # "message" \/ Top.via # None \/ Len(stack) > 1
  PROVE  /\ Len(stack) > 1
         /\ Caller \in Frame /\ IsMessage(Caller.msg) /\ Goes(Caller, Caller, options)
         /\ ResumesKept(Below(2), Caller, options) /\ Link(Caller, Top, options)
<1>1. stack \in Seq(Frame) /\ Len(stack) \in Nat \ {0}
  BY KeptTop
<1>2. Len(stack) > 1 /\ Caller \in Frame /\ IsMessage(Caller.msg)
  BY ReadingProperties, CallerProperties DEF Later, Sound, Fits
<1>3. Kept(Caller, options) /\ Link(Caller, Top, options)
  BY <1>1, <1>2 DEF Inv2, KeptStack, Top, Caller
<1>4. ASSUME NEW g, Goes(g, Caller, options) PROVE KeptStack(Append(Below(2), g), options)
  <2> DEFINE n == Len(stack) - 1
  <2>1. n > 1 => Link(stack[n - 1], g, options)
    <3>1. n > 1 => Link(stack[n - 1], Caller, options)
      BY <1>1, <1>2 DEF Inv2, KeptStack, Caller
    <3>2. Caller.kind # "packed"
      BY <1>3 DEF Link
    <3> QED BY <1>4, <3>1, <3>2 DEF Link, Goes
  <2>2. n \in 1 .. Len(stack) /\ n - 1 = Len(stack) - 2
    BY <1>1, <1>2
  <2>3. KeptStack(Append(SubSeq(stack, 1, n - 1), g), options)
    <3> HIDE DEF n
    <3> QED BY <1>1, <1>4, <2>1, <2>2, KeptReplace DEF Inv2, Goes
  <2> QED BY <2>2, <2>3 DEF Below
<1> QED BY <1>1, <1>2, <1>3, <1>4 DEF Goes, ResumesKept

\* An activation other than a packed loop goes on with another message, and
\* past the bytes it has read.
LEMMA GoesMessage ==
  ASSUME NEW g, NEW old, NEW o, Goes(g, old, o), g.kind # "packed",
         NEW m, IsMessage(m), Contents(m, o), Strict(o) => Unambiguous(m, o)
  PROVE  /\ Goes([g EXCEPT !.msg = m], old, o)
         /\ [g EXCEPT !.msg = m].left = g.left /\ [g EXCEPT !.msg = m].msg = m
         /\ [g EXCEPT !.msg = m].kind = g.kind
<1> DEFINE new == [g EXCEPT !.msg = m]
<1>1. /\ new \in Frame /\ new.kind = g.kind /\ new.via = g.via /\ new.type = g.type
      /\ new.msg = m /\ new.left = g.left /\ new.val = g.val
  BY MessageSet DEF Goes, Frame
<1> HIDE DEF new
<1>2. Goes(new, old, o)
  BY <1>1 DEF Goes, Kept
<1> QED BY <1>1, <1>2 DEF new

\* An activation that only consumes input goes on.
LEMMA GoesConsume ==
  ASSUME NEW g, NEW old, NEW o, Goes(g, old, o), NEW n \in Nat, n <= g.left
  PROVE  Goes(Consume(g, n), old, o) /\ Consume(g, n).msg = g.msg /\ Consume(g, n).kind = g.kind
<1> DEFINE new == Consume(g, n)
<1>1. /\ new \in Frame /\ new.kind = g.kind /\ new.via = g.via /\ new.type = g.type
      /\ new.msg = g.msg /\ new.val = g.val
  <2>1. g.left - n \in Nat
    BY DEF Goes, Frame
  <2> QED BY <2>1 DEF Goes, Frame, Consume
<1> HIDE DEF new
<1>2. Goes(new, old, o)
  BY <1>1 DEF Goes, Kept
<1> QED BY <1>1, <1>2 DEF new

\* An activation that consumes input and takes a kept message goes on.
LEMMA GoesOn ==
  ASSUME NEW g, NEW old, NEW o, Goes(g, old, o), g.kind # "packed",
         NEW m, IsMessage(m), Contents(m, o), Strict(o) => Unambiguous(m, o),
         NEW n \in Nat, n <= g.left
  PROVE  /\ Goes(Consume([g EXCEPT !.msg = m], n), old, o)
         /\ Consume([g EXCEPT !.msg = m], n).msg = m
         /\ Consume([g EXCEPT !.msg = m], n).kind = g.kind
<1> DEFINE new == [g EXCEPT !.msg = m]
<1>1. Goes(new, old, o) /\ new.left = g.left /\ new.msg = m /\ new.kind = g.kind
  BY GoesMessage
<1> HIDE DEF new
<1>2. Goes(Consume(new, n), old, o) /\ Consume(new, n).msg = m /\ Consume(new, n).kind = g.kind
  BY <1>1, GoesConsume
<1> QED BY <1>2 DEF new

\* An error leaves no activation.
LEMMA FailKept ==
  ASSUME Fail
  PROVE  Inv2'
<1>1. KeptStack(<<>>, options)
  BY EmptySeq DEF KeptStack
<1> QED BY <1>1 DEF Inv2, Fail

\* A stack advanced keeps what is promised of it.
LEMMA AdvanceKept ==
  ASSUME status = "decoding", NEW frames, KeptStack(frames, options), Advance(frames)
  PROVE  Inv2'
BY DEF Inv2, Advance

\* An activation goes on without a record.
LEMMA GoOnKept ==
  ASSUME status = "decoding", NEW below, NEW fr, NEW old,
         ResumesKept(below, old, options), Goes(fr, old, options),
         stack' = Append(below, fr), UNCHANGED <<options, status>>
  PROVE  Inv2'
BY DEF ResumesKept, Inv2

\* A call: the caller goes past the occurrence and its callee starts.
LEMMA CallKept ==
  ASSUME Inv, Inv2, status = "decoding", NEW fr, Goes(fr, Top, options),
         NEW callee, Kept(callee, options), Link(fr, callee, options),
         Advance(Below(1) \o <<fr, callee>>)
  PROVE  Inv2'
<1> DEFINE t == Append(Below(1), fr)
<1>1. KeptStack(t, options)
  BY KeptTop DEF ResumesKept
<1>2. Below(1) \in Seq(Frame) /\ fr \in Frame
  BY PopOK, ReadingProperties DEF Inv, StackOK, Below, Goes
<1>3. t \in Seq(Frame) /\ t # <<>> /\ t[Len(t)] = fr
  BY <1>2, AppendProperties
<1>4. Append(t, callee) = Below(1) \o <<fr, callee>>
  BY <1>2
<1> HIDE DEF t
<1>5. KeptStack(Append(t, callee), options)
  BY <1>1, <1>3, KeptPush
<1> QED BY <1>4, <1>5, AdvanceKept

\* An occurrence that is recorded in the frame of an activation.
LEMMA CommitKept ==
  ASSUME Inv, Inv2, status = "decoding",
         NEW below, NEW fr, NEW old, ResumesKept(below, old, options), Goes(fr, old, options),
         fr.kind # "packed",
         NEW tag \in AuditTag, NEW f \in Field \cup {None},
         NEW payload \in Seq(Value \cup Wire), NEW size \in Nat, NEW counted,
         Strict(options) => Recordable(fr.msg, tag, f),
         Commit(below, fr, tag, f, payload, size, counted)
  PROVE  Inv2'
<1> DEFINE bytes  == IF options.audit_mode = "Full" THEN size ELSE 0
           record == [tag |-> tag, field |-> f, payload |-> payload, bytes |-> bytes]
           m      == PushAudit(fr.msg, record)
           new    == [fr EXCEPT !.msg = m]
<1>1. bytes \in Nat
  OBVIOUS
<1>2. CASE Fail
  BY <1>2, FailKept
<1>3. CASE stack' = Append(below, new) /\ UNCHANGED <<options, status>>
  <2>1. record \in AuditRecord /\ record.tag = tag /\ record.field = f
    BY <1>1 DEF AuditRecord
  <2> HIDE DEF record
  <2>2. IsMessage(fr.msg) /\ Contents(fr.msg, options)
        /\ (Strict(options) => Unambiguous(fr.msg, options))
    <3>1. fr.msg \in Message
      BY DEF Goes, Frame
    <3> QED BY <3>1, MessageSet DEF Goes, Kept
  <2>3. /\ IsMessage(m) /\ Contents(m, options)
        /\ Strict(options) => Unambiguous(m, options)
    BY <2>1, <2>2, RecordedKept, PushAuditTyped
  <2> HIDE DEF m
  <2>4. Goes(new, old, options)
    BY <2>3, GoesMessage
  <2> HIDE DEF new
  <2> QED BY <1>3, <2>4, GoOnKept
<1> QED BY <1>2, <1>3 DEF Commit

-----------------------------------------------------------------------------
(* Every action keeps what is retained in order.                           *)

\* A fresh activation.
LEMMA NewFrameKept ==
  ASSUME NEW o \in DecodeOptions, NEW type, NEW via, NEW depth, NEW left, NEW size
  PROVE  /\ Kept(MessageFrame(type, via, depth, left, size), o)
         /\ Kept(PackedFrame(via, depth, left, size), o)
         /\ Kept(EntryFrame(via, depth, left, size), o)
         /\ Kept(GroupFrame(depth, left, size), o)
BY NewKept DEF Kept, MessageFrame, PackedFrame, EntryFrame, GroupFrame

\* Records that no singular field counts.
LEMMA OtherRecords ==
  ASSUME NEW m, NEW tag \in {"SchemaField", "UnknownField", "UnknownMessage"},
         NEW f \in Field \cup {None}, tag = "UnknownField" \/ f \notin SingularField
  PROVE  Recordable(m, tag, f)
<1>1. \A g \in SingularField : Slot(g) \subseteq SingularField
  BY SlotOfSingular
<1> QED BY <1>1 DEF Recordable

\* The vector of a repeated field.
LEMMA ItemsKept ==
  ASSUME NEW m, IsMessage(m), NEW o, Contents(m, o), NEW f \in RepeatedField
  PROVE  /\ Items(m[<<>>].rep[f]) \in Seq(Value)
         /\ Checked(f, o) => Items(m[<<>>].rep[f]) \in Seq(KnownValue)
         /\ Len(Items(m[<<>>].rep[f])) <= o.max_repeated_values
         /\ Len(Items(m[<<>>].rep[f])) \in Nat
<1>1. Items(m[<<>>].rep[f]) \in Seq(Value)
  BY ItemsTyped
<1>2. Held(m[<<>>], o) /\ Declared(m[<<>>], o)
  BY DEF Contents, IsMessage
<1> QED BY <1>1, <1>2, LenProperties DEF Held, Declared

\* The step Decode keeps what the stack promises.
LEMMA DecodeKept ==
  ASSUME Inv, NEW type, NEW n, Decode(type, n)
  PROVE  Inv2'
<1> DEFINE fr == MessageFrame(type, None, 0, n, 0)
<1>1. CASE Fail
  BY <1>1, FailKept
<1>2. CASE stack' = <<fr>> /\ status' = "decoding" /\ UNCHANGED options
  <2>1. Kept(fr, options)
    BY NewFrameKept, OptionsAssumption DEF Inv
  <2> HIDE DEF fr
  <2>2. Len(<<fr>>) = 1 /\ <<fr>>[1] = fr
    OBVIOUS
  <2>3. KeptStack(<<fr>>, options)
    BY <2>1, <2>2 DEF KeptStack
  <2> QED BY <1>2, <2>3 DEF Inv2
<1> QED BY <1>1, <1>2 DEF Decode

\* The step UnknownEnumValue keeps what the stack promises.
LEMMA UnknownEnumValueKept ==
  ASSUME Inv, Inv2, NEW f \in Field, NEW v \in Scalar, UnknownEnumValue(f, v)
  PROVE  Inv2'
<1> DEFINE entry == <<[field |-> f, payload |-> <<v>>]>>
           m     == KeepUnknown(Top.msg, entry)
           fr    == Consume([Top EXCEPT !.msg = m], 2)
<1>1. status = "decoding" /\ Top.left >= 2 /\ Top.kind = "message"
  BY DEF UnknownEnumValue, Starts, Reading
<1>2. CASE Fail
  BY <1>2, FailKept
<1>3. CASE Commit(Below(1), fr, "UnknownField", f, <<v>>, 2, 1)
  <2>1. entry \in Seq(UnknownEntry) /\ <<v>> \in Seq(Value \cup Wire)
    BY DEF UnknownEntry, Value
  <2> HIDE DEF entry
  <2>2. IsMessage(m) /\ Contents(m, options) /\ (Strict(options) => Unambiguous(m, options))
    BY <1>1, <2>1, KeptTop, UnknownKept DEF Goes, Kept
  <2> HIDE DEF m
  <2>3. Goes(fr, Top, options) /\ fr.kind # "packed"
    BY <1>1, <2>2, KeptTop, GoesOn
  <2>4. Recordable(fr.msg, "UnknownField", f)
    BY OtherRecords
  <2> HIDE DEF fr
  <2> QED BY <1>1, <1>3, <2>1, <2>3, <2>4, KeptTop, CommitKept DEF AuditTag
<1> QED BY <1>2, <1>3 DEF UnknownEnumValue

\* The enum policy has been checked before the value is stored.
LEMMA ValueChecked ==
  ASSUME NEW f, NEW v, ~ClosedUnknown(f, v), ~RefusesEnum(f, v), Checked(f, options)
  PROVE  v \in KnownValue
BY DEF ClosedUnknown, RefusesEnum, Checked

\* The step SingularScalar keeps what the stack promises.
LEMMA SingularScalarKept ==
  ASSUME Inv, Inv2, NEW f \in Field, NEW v \in Scalar, SingularScalar(f, v)
  PROVE  Inv2'
<1> DEFINE duplicate == Duplicate(Top.msg, f)
           stored    == SetScalar(Displace(Top.msg, f), f, v)
           m         == DemoteDisplaced(stored, f, duplicate, FALSE)
           fr        == Consume([Top EXCEPT !.msg = m], 2)
           tag       == OccurrenceTag(duplicate, FALSE)
<1>1. /\ status = "decoding" /\ Top.left >= 2 /\ Top.kind = "message"
      /\ f \in ScalarField /\ ~ClosedUnknown(f, v)
  BY DEF SingularScalar, Starts, Reading
<1>2. CASE Fail
  BY <1>2, FailKept
<1>3. CASE /\ Commit(Below(1), fr, tag, f, <<v>>, 2, 1)
           /\ ~RefusesDuplicate(Top.msg, f) /\ ~RefusesEnum(f, v)
  <2>1. <<v>> \in Seq(Value \cup Wire) /\ tag \in AuditTag
    BY DEF Value, OccurrenceTag, AuditTag
  <2>2. Strict(options) => ~duplicate
    BY <1>3 DEF RefusesDuplicate, RejectDuplicates, Strict
  <2>3. Strict(options) => tag = "SchemaField"
    BY <2>2 DEF OccurrenceTag
  <2>4. OneofExclusiveAt(stored, <<>>) /\ IsMessage(stored)
    <3>1. Fits(stored, Top.depth, Limit)
      BY <1>1, ReadingProperties, FitsSetScalar
    <3> QED BY <3>1 DEF Fits
  <2>5. Checked(f, options) => v \in KnownValue
    BY <1>1, <1>3, ValueChecked
  <2>6. /\ IsMessage(Top.msg) /\ Contents(Top.msg, options)
        /\ Strict(options) => Unambiguous(Top.msg, options)
    BY <1>1, KeptTop DEF Goes, Kept
  <2>7. /\ Contents(stored, options)
        /\ Strict(options) => Unambiguous(stored, options) /\ Recordable(stored, "SchemaField", f)
    BY <1>1, <2>2, <2>4, <2>5, <2>6, SetScalarKept
  <2> HIDE DEF stored, tag, duplicate
  <2>8. IsMessage(m) /\ Contents(m, options) /\ (Strict(options) => Unambiguous(m, options))
    BY <2>2, <2>4, <2>7, DemotedKept
  <2>9. Strict(options) => Recordable(m, tag, f)
    BY <2>2, <2>3, <2>7 DEF DemoteDisplaced
  <2> HIDE DEF m
  <2>10. Goes(fr, Top, options) /\ fr.kind # "packed" /\ fr.msg = m
    BY <1>1, <2>8, KeptTop, GoesOn
  <2> HIDE DEF fr
  <2> QED BY <1>1, <1>3, <2>1, <2>9, <2>10, KeptTop, CommitKept
<1> QED BY <1>2, <1>3 DEF SingularScalar

\* The step UnpackedElement keeps what the stack promises.
LEMMA UnpackedElementKept ==
  ASSUME Inv, Inv2, NEW f \in Field, NEW v \in Scalar, UnpackedElement(f, v)
  PROVE  Inv2'
<1> DEFINE xs == Items(Top.msg[<<>>].rep[f])
           ys == Append(xs, v)
           m  == SetRep(Top.msg, f, ys)
           fr == Consume([Top EXCEPT !.msg = m], 2)
<1>1. /\ status = "decoding" /\ Top.left >= 2 /\ Top.kind = "message"
      /\ f \in RepeatedField /\ ~ClosedUnknown(f, v)
  BY DEF UnpackedElement, Starts, Reading
<1>2. CASE Fail
  BY <1>2, FailKept
<1>3. CASE /\ Commit(Below(1), fr, "SchemaField", f, <<v>>, 2, 1)
           /\ ~RefusesEnum(f, v) /\ ~RepeatedFull(Len(xs))
  <2>1. <<v>> \in Seq(Value \cup Wire)
    BY DEF Value
  <2>2. /\ IsMessage(Top.msg) /\ Contents(Top.msg, options)
        /\ Strict(options) => Unambiguous(Top.msg, options)
    BY <1>1, KeptTop DEF Goes, Kept
  <2>3. /\ xs \in Seq(Value) /\ Len(xs) \in Nat
        /\ Checked(f, options) => xs \in Seq(KnownValue)
    BY <1>1, <2>2, ItemsKept
  <2>4. Len(xs) < options.max_repeated_values
    <3>1. options.max_repeated_values \in Nat
      BY <1>1, KeptTop DEF DecodeOptions
    <3> QED BY <1>3, <2>3, <3>1 DEF RepeatedFull
  <2>5. Checked(f, options) => v \in KnownValue
    BY <1>1, <1>3, ValueChecked
  <2> HIDE DEF xs
  <2>6. /\ ys \in Seq(Value) /\ Len(ys) <= options.max_repeated_values
        /\ Checked(f, options) => ys \in Seq(KnownValue)
    <3>1. ys \in Seq(Value) /\ Len(ys) = Len(xs) + 1
      BY <2>3, AppendProperties DEF Value
    <3>2. Checked(f, options) => ys \in Seq(KnownValue)
      BY <2>3, <2>5, AppendProperties
    <3>3. options.max_repeated_values \in Nat
      BY <1>1, KeptTop DEF DecodeOptions
    <3> HIDE DEF ys
    <3> QED BY <2>3, <2>4, <3>1, <3>2, <3>3
  <2> HIDE DEF ys
  <2>7. IsMessage(m) /\ Contents(m, options) /\ (Strict(options) => Unambiguous(m, options))
    BY <1>1, <2>2, <2>6, SetRepKept, SetRepTyped
  <2> HIDE DEF m
  <2>8. Goes(fr, Top, options) /\ fr.kind # "packed"
    BY <1>1, <2>7, KeptTop, GoesOn
  <2>9. Recordable(fr.msg, "SchemaField", f)
    BY <1>1, OtherRecords DEF SingularField, RepeatedField
  <2> HIDE DEF fr
  <2> QED BY <1>1, <1>3, <2>1, <2>8, <2>9, KeptTop, CommitKept DEF AuditTag
<1> QED BY <1>2, <1>3 DEF UnpackedElement

\* The step BeginPacked keeps what the stack promises.
LEMMA BeginPackedKept ==
  ASSUME Inv, Inv2, NEW f \in Field, NEW n \in Nat, BeginPacked(f, n)
  PROVE  Inv2'
<1> DEFINE fr     == Consume(Top, n + 2)
           callee == PackedFrame(f, Top.depth, n, n + 2)
<1>1. /\ status = "decoding" /\ Top.left >= n + 2 /\ Top.kind = "message"
      /\ f \in RepeatedField
  BY DEF BeginPacked, Starts, Reading
<1>2. CASE Fail
  BY <1>2, FailKept
<1>3. CASE Advance(Below(1) \o <<fr, callee>>)
  <2>1. Goes(fr, Top, options) /\ fr.msg = Top.msg /\ fr.kind = "message"
    BY <1>1, KeptTop, GoesConsume
  <2>2. Kept(callee, options)
    BY <1>1, KeptTop, NewFrameKept
  <2>3. callee.kind = "packed" /\ callee.via = f /\ callee.msg[<<>>].rep[f] = None
    BY <1>1 DEF PackedFrame, MessageFrame, New, EmptyNode
  <2>4. Len(Items(Top.msg[<<>>].rep[f])) <= options.max_repeated_values
        /\ Len(Items(Top.msg[<<>>].rep[f])) \in Nat
    BY <1>1, KeptTop, ItemsKept DEF Goes, Kept
  <2> HIDE DEF fr, callee
  <2>5. Len(Items(callee.msg[<<>>].rep[f])) = 0
    BY <2>3 DEF Items
  <2>6. Link(fr, callee, options)
    BY <2>1, <2>3, <2>4, <2>5 DEF Link
  <2> QED BY <1>1, <1>3, <2>1, <2>2, <2>6, CallKept
<1> QED BY <1>2, <1>3 DEF BeginPacked

\* A packed element counts with those its field already has.
LEMMA PackedElementKept ==
  ASSUME Inv, Inv2, NEW v \in Scalar, PackedElement(v)
  PROVE  Inv2'
<1> DEFINE f      == Top.via
           xs     == Items(Top.msg[<<>>].rep[f])
           held   == Items(Caller.msg[<<>>].rep[f])
           entry  == <<[field |-> f, payload |-> <<v>>]>>
           ys     == Append(xs, v)
           stored == IF ClosedUnknown(f, v) THEN KeepUnknown(Top.msg, entry)
                     ELSE SetRep(Top.msg, f, ys)
           items  == Append(Top.items, v)
           fr     == Consume([Top EXCEPT !.msg = stored, !.items = items], 1)
<1>1. status = "decoding" /\ Top.kind = "packed"
  BY DEF PackedElement, Packing
<1>2. CASE Fail
  BY <1>2, FailKept
<1>3. CASE /\ stack' = Append(Below(1), fr) /\ UNCHANGED <<options, status>>
           /\ ~RepeatedFull(Len(held) + Len(xs)) /\ ~RefusesEnum(f, v)
  <2>1. f \in RepeatedField /\ f \in Field
    BY <1>1, ReadingProperties DEF Sound, RepeatedField
  <2>2. /\ IsMessage(Top.msg) /\ Contents(Top.msg, options) /\ Kept(Top, options) /\ Top \in Frame
        /\ Strict(options) => Unambiguous(Top.msg, options)
    BY <1>1, KeptTop DEF Goes, Kept
  <2>3. /\ Len(stack) > 1 /\ Link(Caller, Top, options) /\ IsMessage(Caller.msg)
        /\ Contents(Caller.msg, options)
    BY <1>1, KeptCaller DEF Goes, Kept
  <2>4. /\ xs \in Seq(Value) /\ Len(xs) \in Nat /\ Len(held) \in Nat
        /\ Checked(f, options) => xs \in Seq(KnownValue)
    BY <2>1, <2>2, <2>3, ItemsKept
  <2>5. Len(held) + Len(xs) < options.max_repeated_values /\ options.max_repeated_values \in Nat
    <3>1. options.max_repeated_values \in Nat
      BY <1>1, KeptTop DEF DecodeOptions
    <3> HIDE DEF xs, held
    <3> QED BY <1>3, <2>4, <3>1 DEF RepeatedFull
  <2>6. entry \in Seq(UnknownEntry)
    BY <2>1 DEF UnknownEntry, Value
  <2> HIDE DEF xs, held, entry
  <2>7. ys \in Seq(Value) /\ Len(ys) = Len(xs) + 1
    BY <2>4, AppendProperties DEF Value
  <2>8. ~ClosedUnknown(f, v) /\ Checked(f, options) => ys \in Seq(KnownValue)
    BY <1>3, <2>4, ValueChecked, AppendProperties
  <2>9. Len(ys) <= options.max_repeated_values
    <3> HIDE DEF ys
    <3> QED BY <2>4, <2>5, <2>7
  <2> HIDE DEF ys, f
  <2>10. /\ IsMessage(stored) /\ Contents(stored, options)
         /\ Strict(options) => Unambiguous(stored, options)
         /\ Len(Items(stored[<<>>].rep[f])) <= Len(xs) + 1
         /\ Len(Items(stored[<<>>].rep[f])) \in Nat
    <3>1. CASE ClosedUnknown(f, v)
      <4>1. stored = KeepUnknown(Top.msg, entry)
        BY <3>1
      <4>2. KeepUnknown(Top.msg, entry)[<<>>].rep = Top.msg[<<>>].rep
        <5>1. SameContents(PushUnknown(Top.msg, entry), Top.msg) /\ <<>> \in DOMAIN Top.msg
          BY <2>2, <2>6, TrailOnly DEF IsMessage
        <5> QED BY <5>1 DEF SameContents, KeepUnknown
      <4>3. Items(stored[<<>>].rep[f]) = xs
        BY <4>1, <4>2 DEF xs, f
      <4> HIDE DEF stored
      <4> QED BY <2>2, <2>4, <2>6, <4>1, <4>3, UnknownKept
    <3>2. CASE ~ClosedUnknown(f, v)
      <4>1. stored = SetRep(Top.msg, f, ys)
        BY <3>2
      <4>2. /\ IsMessage(SetRep(Top.msg, f, ys))
            /\ Items(SetRep(Top.msg, f, ys)[<<>>].rep[f]) = ys
        BY <2>1, <2>2, <2>7, SetRepItems
      <4>3. Contents(stored, options) /\ (Strict(options) => Unambiguous(stored, options))
        BY <2>1, <2>2, <2>7, <2>8, <2>9, <3>2, <4>1, SetRepKept
      <4> HIDE DEF stored
      <4> QED BY <2>4, <2>7, <4>1, <4>2, <4>3
    <3> QED BY <3>1, <3>2
  <2>11. items \in Seq(Scalar)
    BY <2>2 DEF Frame
  <2> HIDE DEF stored, items
  <2>12. fr.kind = "packed" /\ fr.via = f /\ fr.msg = stored
    BY <1>1, <2>2 DEF Consume, Frame, f
  <2> HIDE DEF fr
  <2>13. Kept(fr, options)
    BY <2>10, <2>12 DEF Kept
  <2>14. Link(Caller, fr, options)
    <3>1. Len(held) + Len(Items(stored[<<>>].rep[f])) <= options.max_repeated_values
      BY <2>4, <2>5, <2>10
    <3> QED BY <2>3, <2>12, <3>1 DEF Link, held
  <2>15. stack \in Seq(Frame) /\ Len(stack) \in Nat \ {0}
    BY <1>1, KeptTop
  <2>16. KeptStack(Append(Below(1), fr), options)
    BY <2>3, <2>13, <2>14, <2>15, KeptReplace DEF Inv2, Below, Caller
  <2> QED BY <1>1, <1>3, <2>16 DEF Inv2
<1> QED BY <1>2, <1>3 DEF PackedElement

\* The step EndPacked keeps what the stack promises.
LEMMA EndPackedKept ==
  ASSUME Inv, Inv2, EndPacked
  PROVE  Inv2'
<1> DEFINE f    == Top.via
           node == Top.msg[<<>>]
           held == Items(Caller.msg[<<>>].rep[f])
           ys   == Items(node.rep[f])
           xs   == held \o ys
           u    == PushUnknown(Caller.msg, node.unknown)
           m    == SetRep(u, f, xs)
           fr   == [Caller EXCEPT !.msg = m]
<1>1. status = "decoding" /\ Top.kind = "packed"
  BY DEF EndPacked, Packing
<1>2. f \in RepeatedField /\ f \in Field /\ Top \in Frame
  BY <1>1, ReadingProperties DEF Sound, RepeatedField
<1>3. /\ Goes(Caller, Caller, options) /\ ResumesKept(Below(2), Caller, options)
      /\ Link(Caller, Top, options) /\ IsMessage(Caller.msg) /\ Contents(Caller.msg, options)
      /\ Strict(options) => Unambiguous(Caller.msg, options)
  BY <1>1, KeptCaller DEF Goes, Kept
<1>4. Commit(Below(2), fr, "SchemaField", f, Top.items, Top.size, 0)
  BY DEF EndPacked
<1>5. Top.items \in Seq(Value \cup Wire) /\ Top.size \in Nat
  <2>1. Top.items \in Seq(Scalar) /\ Top.size \in Nat
    BY <1>2 DEF Frame
  <2>2. Scalar \subseteq Value \cup Wire
    BY DEF Value
  <2> QED BY <2>1, <2>2, SeqMonotonic
<1>6. IsMessage(Top.msg) /\ Contents(Top.msg, options)
  BY <1>1, KeptTop DEF Goes, Kept
<1>7. /\ held \in Seq(Value) /\ ys \in Seq(Value)
      /\ Checked(f, options) => held \in Seq(KnownValue) /\ ys \in Seq(KnownValue)
  BY <1>2, <1>3, <1>6, ItemsKept
<1>8. Len(held) + Len(ys) <= options.max_repeated_values
  BY <1>1, <1>3 DEF Link
<1>9. node.unknown \in Seq(UnknownEntry)
  BY <1>6 DEF IsMessage, Node
<1> HIDE DEF node, held, ys, f
<1>10. /\ xs \in Seq(Value) /\ Len(xs) <= options.max_repeated_values
       /\ Checked(f, options) => xs \in Seq(KnownValue)
  <2>1. xs \in Seq(Value) /\ Len(xs) = Len(held) + Len(ys)
    BY <1>7, ConcatProperties
  <2>2. Checked(f, options) => xs \in Seq(KnownValue)
    BY <1>7, ConcatProperties
  <2> HIDE DEF xs
  <2> QED BY <1>8, <2>1, <2>2
<1> HIDE DEF xs
<1>11. IsMessage(u) /\ Contents(u, options) /\ (Strict(options) => Unambiguous(u, options))
  BY <1>3, <1>9, UnknownKept
<1> HIDE DEF u
<1>12. IsMessage(m) /\ Contents(m, options) /\ (Strict(options) => Unambiguous(m, options))
  BY <1>2, <1>10, <1>11, SetRepKept, SetRepTyped
<1> HIDE DEF m
<1>13. Caller.kind # "packed"
  BY <1>3 DEF Link
<1>14. Goes(fr, Caller, options) /\ fr.kind # "packed"
  BY <1>3, <1>12, <1>13, GoesMessage
<1>15. Recordable(fr.msg, "SchemaField", f)
  BY <1>2, OtherRecords DEF SingularField, RepeatedField
<1> HIDE DEF fr
<1> QED BY <1>1, <1>2, <1>3, <1>4, <1>5, <1>14, <1>15, CommitKept DEF AuditTag

\* The step BeginMessage keeps what the stack promises.
LEMMA BeginMessageKept ==
  ASSUME Inv, Inv2, NEW f \in Field, NEW n \in Nat, BeginMessage(f, n)
  PROVE  Inv2'
<1> DEFINE fr     == Consume(Top, n + 2)
           callee == MessageFrame(Desc[f].child, f, Top.depth + 1, n, n + 2)
<1>1. /\ status = "decoding" /\ Top.left >= n + 2 /\ Top.kind = "message"
      /\ f \notin MapField /\ Desc[f].child # None
  BY DEF BeginMessage, Starts, Reading, MapField
<1>2. CASE Fail
  BY <1>2, FailKept
<1>3. CASE /\ Advance(Below(1) \o <<fr, callee>>)
           /\ ~(f \in MessageField /\ RefusesDuplicate(Top.msg, f))
  <2>1. Goes(fr, Top, options) /\ fr.msg = Top.msg /\ fr.kind = "message"
    BY <1>1, KeptTop, GoesConsume
  <2>2. Kept(callee, options)
    BY <1>1, KeptTop, NewFrameKept
  <2>3. callee.kind = "message" /\ callee.via = f /\ callee.type = Desc[f].child
    BY DEF MessageFrame
  <2>4. Strict(options) /\ f \in MessageField => ~Duplicate(Top.msg, f)
    BY <1>3 DEF Strict, RefusesDuplicate, RejectDuplicates
  <2> HIDE DEF fr, callee
  <2>5. Link(fr, callee, options)
    BY <1>1, <2>1, <2>3, <2>4 DEF Link
  <2> QED BY <1>1, <1>3, <2>1, <2>2, <2>5, CallKept
<1> QED BY <1>2, <1>3 DEF BeginMessage

\* A submessage returns only with its required fields.
LEMMA NoneMissing ==
  ASSUME NEW fr, ~MissingRequired(fr)
  PROVE  Completed(fr.msg, <<>>, fr.type)
BY DEF MissingRequired, Completed, Has

\* The step EndSubmessage keeps what the stack promises.
LEMMA EndSubmessageKept ==
  ASSUME Inv, Inv2, EndSubmessage
  PROVE  Inv2'
<1> DEFINE f         == Top.via
           duplicate == Duplicate(Caller.msg, f)
           stored    == MergeMessage(Displace(Caller.msg, f), f, Top.msg)
           m         == DemoteDisplaced(stored, f, duplicate, duplicate)
           fr        == [Caller EXCEPT !.msg = m]
           tag       == OccurrenceTag(duplicate, duplicate)
<1>1. status = "decoding" /\ Top.kind = "message" /\ Len(stack) > 1
  BY DEF EndSubmessage, Ends
<1>2. f \in MessageField /\ f \in Field
  BY DEF EndSubmessage, MessageField, SingularField
<1>3. /\ Goes(Caller, Caller, options) /\ ResumesKept(Below(2), Caller, options)
      /\ Link(Caller, Top, options) /\ IsMessage(Caller.msg) /\ Contents(Caller.msg, options)
      /\ Strict(options) => Unambiguous(Caller.msg, options)
  BY <1>1, KeptCaller DEF Goes, Kept
<1>4. CASE Fail
  BY <1>4, FailKept
<1>5. CASE Commit(Below(2), fr, tag, f, <<>>, Top.size, 0) /\ ~MissingRequired(Top)
  <2>1. tag \in AuditTag /\ <<>> \in Seq(Value \cup Wire)
    BY DEF OccurrenceTag, AuditTag
  <2>2. /\ Top.size \in Nat /\ IsMessage(Top.msg) /\ Contents(Top.msg, options)
        /\ Strict(options) => Unambiguous(Top.msg, options)
    BY <1>1, KeptTop DEF Goes, Kept, Frame
  <2>3. Strict(options) => ~duplicate
    BY <1>1, <1>2, <1>3 DEF Link
  <2>4. Completed(Top.msg, <<>>, Desc[f].child)
    <3>1. Top.type = Desc[f].child
      BY <1>1, <1>3 DEF Link
    <3> QED BY <1>5, <3>1, NoneMissing
  <2>5. IsMessage(stored) /\ OneofExclusiveAt(stored, <<>>)
    <3>1. Later(Caller, Caller, Limit) /\ Calls(Caller, Top)
      BY <1>1, ReadingProperties, CallerProperties
    <3>2. /\ Fits(Top.msg, Caller.depth + 1, Limit) /\ Fits(Caller.msg, Caller.depth, Limit)
          /\ Caller.depth \in Nat /\ Limit \in Nat
      BY <1>1, <3>1, ReadingProperties DEF Calls, Later, Sound, Frame
    <3>3. Fits(stored, Caller.depth, Limit)
      BY <1>2, <3>2, FitsMerge
    <3> QED BY <3>3 DEF Fits
  <2>6. /\ Contents(stored, options)
        /\ Strict(options) => Unambiguous(stored, options) /\ Recordable(stored, "SchemaField", f)
    BY <1>2, <1>3, <2>2, <2>3, <2>4, <2>5, MergeKept
  <2>7. m = stored
    BY DEF DemoteDisplaced
  <2>8. Strict(options) => tag = "SchemaField"
    BY <2>3 DEF OccurrenceTag
  <2> HIDE DEF stored, m, tag, duplicate
  <2>9. IsMessage(m) /\ Contents(m, options) /\ (Strict(options) => Unambiguous(m, options))
    BY <2>5, <2>6, <2>7
  <2>10. Strict(options) => Recordable(m, tag, f)
    BY <2>6, <2>7, <2>8
  <2>11. Caller.kind # "packed"
    BY <1>3 DEF Link
  <2>12. Goes(fr, Caller, options) /\ fr.kind # "packed" /\ fr.msg = m
    BY <1>3, <2>9, <2>11, GoesMessage
  <2> HIDE DEF fr, f
  <2> QED BY <1>1, <1>2, <1>3, <1>5, <2>1, <2>2, <2>10, <2>12, CommitKept
<1> QED BY <1>4, <1>5 DEF EndSubmessage

\* The step EndElement keeps what the stack promises.
LEMMA EndElementKept ==
  ASSUME Inv, Inv2, EndElement
  PROVE  Inv2'
<1> DEFINE f  == Top.via
           ys == Items(Caller.msg[<<>>].rep[f])
           xs == Append(ys, Elem)
           m  == SetRep(Caller.msg, f, xs)
           fr == [Caller EXCEPT !.msg = m]
<1>1. status = "decoding" /\ Top.kind = "message" /\ Len(stack) > 1
  BY DEF EndElement, Ends
<1>2. f \in RepeatedField /\ f \in Field
  BY DEF EndElement, RepeatedField
<1>3. /\ Goes(Caller, Caller, options) /\ ResumesKept(Below(2), Caller, options)
      /\ Link(Caller, Top, options) /\ IsMessage(Caller.msg) /\ Contents(Caller.msg, options)
      /\ Strict(options) => Unambiguous(Caller.msg, options)
  BY <1>1, KeptCaller DEF Goes, Kept
<1>4. CASE Fail
  BY <1>4, FailKept
<1>5. CASE /\ Commit(Below(2), fr, "SchemaField", f, <<>>, Top.size, 0)
           /\ ~RepeatedFull(Len(ys))
  <2>1. <<>> \in Seq(Value \cup Wire) /\ Top.size \in Nat
    BY <1>1, KeptTop DEF Frame
  <2>2. ys \in Seq(Value) /\ Len(ys) \in Nat
    BY <1>2, <1>3, ItemsKept
  <2>3. ~Checked(f, options)
    BY <1>1, <1>2, <1>3, DescAssumption DEF Link, Checked
  <2>4. options.max_repeated_values \in Nat
    BY <1>1, KeptTop DEF DecodeOptions
  <2> HIDE DEF ys
  <2>5. xs \in Seq(Value) /\ Len(xs) = Len(ys) + 1
    BY <2>2, AppendProperties DEF Value
  <2> HIDE DEF xs
  <2>6. Len(xs) <= options.max_repeated_values
    BY <1>5, <2>2, <2>4, <2>5 DEF RepeatedFull
  <2> HIDE DEF f
  <2>7. IsMessage(m) /\ Contents(m, options) /\ (Strict(options) => Unambiguous(m, options))
    BY <1>2, <1>3, <2>3, <2>5, <2>6, SetRepKept, SetRepTyped
  <2> HIDE DEF m
  <2>8. Caller.kind # "packed"
    BY <1>3 DEF Link
  <2>9. Goes(fr, Caller, options) /\ fr.kind # "packed"
    BY <1>3, <2>7, <2>8, GoesMessage
  <2>10. Recordable(fr.msg, "SchemaField", f)
    BY <1>2, OtherRecords DEF SingularField, RepeatedField
  <2> HIDE DEF fr
  <2> QED BY <1>1, <1>2, <1>3, <1>5, <2>1, <2>9, <2>10, CommitKept DEF AuditTag
<1> QED BY <1>4, <1>5 DEF EndElement

\* The root returns only with its required fields.
LEMMA EndRootKept ==
  ASSUME Inv, Inv2, EndRoot
  PROVE  Inv2'
<1>1. CASE Fail
  BY <1>1, FailKept
<1>2. CASE UNCHANGED <<options, stack>> /\ ~MissingRequired(Top)
  <2>1. Len(stack) = 1
    BY DEF EndRoot
  <2>2. \A i \in 1 .. Len(stack) : ~MissingRequired(stack[i])
    BY <1>2, <2>1 DEF Top
  <2> QED BY <1>2, <2>2 DEF Inv2, MissingRequired
<1> QED BY <1>1, <1>2 DEF EndRoot

\* The step BeginEntry keeps what the stack promises.
LEMMA BeginEntryKept ==
  ASSUME Inv, Inv2, NEW f \in Field, NEW n \in Nat, BeginEntry(f, n)
  PROVE  Inv2'
<1> DEFINE fr     == Consume(Top, n + 2)
           callee == EntryFrame(f, Top.depth, n, n + 2)
<1>1. status = "decoding" /\ Top.left >= n + 2 /\ Top.kind = "message"
  BY DEF BeginEntry, Starts, Reading
<1>2. CASE Fail
  BY <1>2, FailKept
<1>3. CASE Advance(Below(1) \o <<fr, callee>>)
  <2>1. Goes(fr, Top, options) /\ fr.kind = "message"
    BY <1>1, KeptTop, GoesConsume
  <2>2. Kept(callee, options)
    BY <1>1, KeptTop, NewFrameKept
  <2>3. callee.kind = "entry"
    BY DEF EntryFrame, MessageFrame
  <2> HIDE DEF fr, callee
  <2>4. Link(fr, callee, options)
    BY <2>1, <2>3 DEF Link
  <2> QED BY <1>1, <1>3, <2>1, <2>2, <2>4, CallKept
<1> QED BY <1>2, <1>3 DEF BeginEntry

\* What an entry has read so far.
LEMMA GoesEntry ==
  ASSUME NEW g, NEW old, NEW o, Goes(g, old, o), NEW k \in Scalar \cup {None},
         NEW v \in Value \cup {None}, CheckedValues(g.via, o) => v \in KnownValue \cup {None}
  PROVE  /\ Goes([g EXCEPT !.key = k], old, o) /\ [g EXCEPT !.key = k].left = g.left
         /\ Goes([g EXCEPT !.val = v], old, o) /\ [g EXCEPT !.val = v].left = g.left
<1> DEFINE p == [g EXCEPT !.key = k]
           q == [g EXCEPT !.val = v]
<1>1. /\ p \in Frame /\ p.kind = g.kind /\ p.via = g.via /\ p.type = g.type
      /\ p.msg = g.msg /\ p.val = g.val /\ p.left = g.left
      /\ q \in Frame /\ q.kind = g.kind /\ q.via = g.via /\ q.type = g.type
      /\ q.msg = g.msg /\ q.val = v /\ q.left = g.left
  BY DEF Goes, Frame
<1> HIDE DEF p, q
<1>2. Goes(p, old, o) /\ Goes(q, old, o)
  BY <1>1 DEF Goes, Kept
<1> QED BY <1>1, <1>2 DEF p, q

\* The step EntryKey keeps what the stack promises.
LEMMA EntryKeyKept ==
  ASSUME Inv, Inv2, NEW k \in Scalar, EntryKey(k)
  PROVE  Inv2'
<1> DEFINE g  == [Top EXCEPT !.key = k]
           fr == Consume(g, 2)
<1>1. status = "decoding" /\ Top.left >= 2
  BY DEF EntryKey, Reading
<1>2. CASE Fail
  BY <1>2, FailKept
<1>3. CASE Advance(Append(Below(1), fr))
  <2>1. Goes(g, Top, options) /\ g.left = Top.left
    BY <1>1, KeptTop, GoesEntry
  <2> HIDE DEF g
  <2>2. Goes(fr, Top, options)
    BY <1>1, <2>1, GoesConsume
  <2> HIDE DEF fr
  <2> QED BY <1>1, <1>3, <2>2, KeptTop, GoOnKept DEF Advance
<1> QED BY <1>2, <1>3 DEF EntryKey

\* The step EntryScalar keeps what the stack promises.
LEMMA EntryScalarKept ==
  ASSUME Inv, Inv2, NEW v \in Scalar, EntryScalar(v)
  PROVE  Inv2'
<1> DEFINE g  == [Top EXCEPT !.val = v]
           fr == Consume(g, 2)
<1>1. status = "decoding" /\ Top.left >= 2 /\ v \in Value
  BY DEF EntryScalar, Reading, Value
<1>2. CASE Fail
  BY <1>2, FailKept
<1>3. CASE Advance(Append(Below(1), fr)) /\ ~RefusesEnum(Top.via, v)
  <2>1. CheckedValues(Top.via, options) => v \in KnownValue
    BY <1>3 DEF CheckedValues, RefusesEnum
  <2>2. Goes(g, Top, options) /\ g.left = Top.left
    BY <1>1, <2>1, KeptTop, GoesEntry
  <2> HIDE DEF g
  <2>3. Goes(fr, Top, options)
    BY <1>1, <2>2, GoesConsume
  <2> HIDE DEF fr
  <2> QED BY <1>1, <1>3, <2>3, KeptTop, GoOnKept DEF Advance
<1> QED BY <1>2, <1>3 DEF EntryScalar

\* The step BeginEntryMessage keeps what the stack promises.
LEMMA BeginEntryMessageKept ==
  ASSUME Inv, Inv2, NEW n \in Nat, BeginEntryMessage(n)
  PROVE  Inv2'
<1> DEFINE fr     == Consume(Top, n + 2)
           callee == MessageFrame(Desc[Top.via].child, Top.via, Top.depth + 1, n, n + 2)
<1>1. /\ status = "decoding" /\ Top.left >= n + 2 /\ Top.kind = "entry"
      /\ Desc[Top.via].child # None
  BY DEF BeginEntryMessage, Reading
<1>2. CASE Fail
  BY <1>2, FailKept
<1>3. CASE Advance(Below(1) \o <<fr, callee>>)
  <2>1. Goes(fr, Top, options) /\ fr.kind = "entry"
    BY <1>1, KeptTop, GoesConsume
  <2>2. Kept(callee, options)
    BY <1>1, KeptTop, NewFrameKept
  <2>3. /\ callee.kind = "message" /\ callee.via = Top.via
        /\ callee.type = Desc[Top.via].child
    BY DEF MessageFrame
  <2>4. Top.via \in MapField /\ Top.via \notin MessageField
    BY <1>1, ReadingProperties DEF Sound, MapField, MessageField, SingularField
  <2> HIDE DEF fr, callee
  <2>5. fr.via = Top.via
    BY <2>1 DEF Goes
  <2>6. Link(fr, callee, options)
    BY <1>1, <2>1, <2>3, <2>4, <2>5 DEF Link
  <2> QED BY <1>1, <1>3, <2>1, <2>2, <2>6, CallKept
<1> QED BY <1>2, <1>3 DEF BeginEntryMessage

\* The value of an entry is a message only where no enum policy applies.
LEMMA EndEntryMessageKept ==
  ASSUME Inv, Inv2, EndEntryMessage
  PROVE  Inv2'
<1> DEFINE fr == [Caller EXCEPT !.val = Elem]
<1>1. status = "decoding" /\ Top.via \in MapField /\ Top.kind = "message"
  BY DEF EndEntryMessage, Ends
<1>2. Top.via \in Field /\ Top.via # None
  BY <1>1, ValueAssumption DEF MapField
<1>3. /\ Goes(Caller, Caller, options) /\ ResumesKept(Below(2), Caller, options)
      /\ Link(Caller, Top, options)
  BY <1>1, <1>2, KeptCaller
<1>4. CASE Fail
  BY <1>4, FailKept
<1>5. CASE stack' = Append(Below(2), fr) /\ UNCHANGED <<options, status>>
  <2>1. Caller.via = Top.via /\ Desc[Top.via].child # None
    BY <1>1, <1>3 DEF Link
  <2>2. ~CheckedValues(Caller.via, options)
    BY <1>2, <2>1, DescAssumption DEF CheckedValues
  <2>3. Elem \in Value
    BY DEF Value
  <2>4. Goes(fr, Caller, options)
    BY <1>3, <2>2, <2>3, GoesEntry
  <2> HIDE DEF fr
  <2> QED BY <1>1, <1>3, <1>5, <2>4, GoOnKept
<1> QED BY <1>4, <1>5 DEF EndEntryMessage

\* An entry that is read to its end.
LEMMA PairKept ==
  ASSUME NEW fr \in Frame, NEW o, Kept(fr, o), fr.kind = "entry", fr.via \in MapField
  PROVE  /\ EntryPair(fr)[1] \in Scalar /\ EntryPair(fr)[2] \in Value
         /\ EntryPair(fr) \in Seq(Value \cup Wire)
         /\ CheckedValues(fr.via, o) => EntryPair(fr)[2] \in KnownValue \cup {0}
<1>1. EntryPair(fr)[1] \in Scalar
  BY ValueAssumption DEF Frame, EntryPair
<1>2. EntryPair(fr)[2] \in Value
  BY ValueAssumption DEF Frame, EntryPair, Value
<1>3. EntryPair(fr) \in Seq(Value \cup Wire)
  <2>1. EntryPair(fr) = <<EntryPair(fr)[1], EntryPair(fr)[2]>>
    BY DEF EntryPair
  <2>2. \A x, y \in Value \cup Wire : <<x, y>> \in Seq(Value \cup Wire)
    OBVIOUS
  <2> QED BY <1>1, <1>2, <2>1, <2>2 DEF Value
<1>4. ASSUME CheckedValues(fr.via, o) PROVE EntryPair(fr)[2] \in KnownValue \cup {0}
  <2>1. Desc[fr.via].child = None
    BY <1>4, DescAssumption DEF CheckedValues, MapField
  <2>2. fr.val \in KnownValue \cup {None}
    BY <1>4 DEF Kept
  <2> QED BY <2>1, <2>2 DEF EntryPair
<1> QED BY <1>1, <1>2, <1>3, <1>4

\* The step EndEntry keeps what the stack promises.
LEMMA EndEntryKept ==
  ASSUME Inv, Inv2, EndEntry
  PROVE  Inv2'
<1> DEFINE f         == Top.via
           pair      == EntryPair(Top)
           k         == pair[1]
           v         == pair[2]
           entries   == Caller.msg[<<>>].map[f]
           duplicate == k \in Keys(entries)
           stored    == SetMap(Caller.msg, f, PutEntry(Caller.msg[<<>>].map[f], k, v))
           m         == DemoteDisplaced(stored, f, duplicate, FALSE)
           fr        == [Caller EXCEPT !.msg = m]
           tag       == OccurrenceTag(duplicate, FALSE)
<1>1. status = "decoding" /\ Top.kind = "entry"
  BY DEF EndEntry
<1>2. f \in MapField /\ f \in Field /\ Top \in Frame
  BY <1>1, ReadingProperties DEF Sound, MapField
<1>3. /\ Goes(Caller, Caller, options) /\ ResumesKept(Below(2), Caller, options)
      /\ Link(Caller, Top, options) /\ IsMessage(Caller.msg) /\ Contents(Caller.msg, options)
      /\ Strict(options) => Unambiguous(Caller.msg, options)
  BY <1>1, KeptCaller DEF Goes, Kept
<1>4. CASE Fail
  BY <1>4, FailKept
<1>5. CASE /\ Commit(Below(2), fr, tag, f, pair, Top.size, 0)
           /\ ~RefusesKey(entries, k)
  <2>1. tag \in AuditTag /\ Top.size \in Nat
    BY <1>2 DEF OccurrenceTag, AuditTag, Frame
  <2>2. /\ k \in Scalar /\ v \in Value /\ pair \in Seq(Value \cup Wire)
        /\ CheckedValues(f, options) => v \in KnownValue \cup {0}
    BY <1>1, <1>2, KeptTop, PairKept DEF Goes
  <2>3. options \in DecodeOptions /\ options.max_map_entries \in Nat
    BY <1>1, KeptTop DEF DecodeOptions
  <2>4. Strict(options) => ~duplicate
    BY <1>5 DEF Strict, RejectDuplicates, RefusesKey
  <2>5. Strict(options) => tag = "SchemaField"
    BY <2>4 DEF OccurrenceTag
  <2>6. k \in Keys(entries) \/ Cardinality(Keys(entries)) < options.max_map_entries
    <3>1. IsFiniteSet(Keys(entries))
      BY <1>2, <1>3 DEF Contents, Held
    <3>2. Cardinality(Keys(entries)) \in Nat
      BY <3>1, FS_CardinalityType
    <3> HIDE DEF entries, k
    <3> QED BY <1>5, <2>3, <3>2 DEF MapFull, RefusesKey
  <2> HIDE DEF k, v, pair, f, tag
  <2>7. IsMessage(stored)
    <3>1. PutEntry(Caller.msg[<<>>].map[f], k, v) \in Entries
      <4>1. Caller.msg[<<>>].map \in [MapField -> Entries]
        BY <1>3, NodeParts DEF IsMessage
      <4>2. Caller.msg[<<>>].map[f] \in Entries
        BY <1>2, <4>1
      <4> QED BY <2>2, <4>2 DEF PutEntry, Entries
    <3> QED BY <1>2, <1>3, <3>1, SetMapTyped
  <2>8. Contents(stored, options) /\ (Strict(options) => Unambiguous(stored, options))
    BY <1>2, <1>3, <2>2, <2>3, <2>6, SetMapKept
  <2> HIDE DEF stored, duplicate
  <2>9. IsMessage(m) /\ Contents(m, options) /\ (Strict(options) => Unambiguous(m, options))
    BY <2>4, <2>7, <2>8, DemotedKept
  <2> HIDE DEF m
  <2>10. Caller.kind # "packed"
    BY <1>3 DEF Link
  <2>11. Goes(fr, Caller, options) /\ fr.kind # "packed"
    BY <1>3, <2>9, <2>10, GoesMessage
  <2>12. Strict(options) => Recordable(fr.msg, tag, f)
    BY <1>2, <2>5, OtherRecords DEF SingularField, MapField
  <2> HIDE DEF fr
  <2> QED BY <1>1, <1>2, <1>3, <1>5, <2>1, <2>2, <2>11, <2>12, CommitKept
<1> QED BY <1>4, <1>5 DEF EndEntry

\* The step CommitUnknown keeps what the stack promises.
LEMMA CommitUnknownKept ==
  ASSUME Inv, Inv2, status = "decoding", NEW below, NEW fr, NEW old,
         ResumesKept(below, old, options), Goes(fr, old, options), fr.kind # "packed",
         NEW wire \in Wire, NEW size \in Nat, NEW counted,
         CommitUnknown(below, fr, wire, size, counted)
  PROVE  Inv2'
<1> DEFINE entry == <<[field |-> None, payload |-> <<wire>>]>>
           m     == KeepUnknown(fr.msg, entry)
           new   == [fr EXCEPT !.msg = m]
           tag   == UnknownTag(wire)
<1>1. CASE Fail
  BY <1>1, FailKept
<1>2. CASE Commit(below, new, tag, None, <<wire>>, size, counted)
  <2>1. entry \in Seq(UnknownEntry) /\ <<wire>> \in Seq(Value \cup Wire)
    BY DEF UnknownEntry
  <2>2. tag \in AuditTag /\ tag \in {"SchemaField", "UnknownField", "UnknownMessage"}
    BY DEF UnknownTag, AuditTag
  <2>3. IsMessage(fr.msg) /\ Contents(fr.msg, options)
        /\ (Strict(options) => Unambiguous(fr.msg, options))
    BY MessageSet DEF Goes, Kept, Frame
  <2> HIDE DEF entry, tag
  <2>4. IsMessage(m) /\ Contents(m, options) /\ (Strict(options) => Unambiguous(m, options))
    BY <2>1, <2>3, UnknownKept
  <2> HIDE DEF m
  <2>5. Goes(new, old, options) /\ new.kind # "packed"
    BY <2>4, GoesMessage
  <2>6. Recordable(new.msg, tag, None)
    BY <2>2, OtherRecords, ValueAssumption DEF SingularField
  <2> HIDE DEF new
  <2> QED BY <1>2, <2>1, <2>2, <2>5, <2>6, CommitKept
<1> QED BY <1>1, <1>2 DEF CommitUnknown

\* The step Skip keeps what the stack promises.
LEMMA SkipKept ==
  ASSUME Inv, Inv2, status = "decoding", Top.kind # "packed", NEW wire \in Wire, NEW size \in Nat,
         size <= Top.left, Skip(wire, size)
  PROVE  Inv2'
<1>1. Goes(Consume(Top, size), Top, options) /\ Consume(Top, size).kind # "packed"
  BY KeptTop, GoesConsume
<1>2. CASE CommitUnknown(Below(1), Consume(Top, size), wire, size, 1)
  BY <1>1, <1>2, KeptTop, CommitUnknownKept
<1>3. CASE Advance(Append(Below(1), Consume(Top, size)))
  BY <1>1, <1>3, KeptTop, GoOnKept DEF Advance
<1> QED BY <1>2, <1>3 DEF Skip

\* The step SkipScalar keeps what the stack promises.
LEMMA SkipScalarKept ==
  ASSUME Inv, Inv2, SkipScalar
  PROVE  Inv2'
BY SkipKept DEF SkipScalar, Reading, Wire

\* The step SkipBytes keeps what the stack promises.
LEMMA SkipBytesKept ==
  ASSUME Inv, Inv2, NEW n \in Nat, SkipBytes(n)
  PROVE  Inv2'
<1>1. CASE Fail
  BY <1>1, FailKept
<1>2. CASE Skip(WireBytes, n + 2)
  BY <1>2, SkipKept DEF SkipBytes, Reading, Wire
<1> QED BY <1>1, <1>2 DEF SkipBytes

\* The step BeginGroup keeps what the stack promises.
LEMMA BeginGroupKept ==
  ASSUME Inv, Inv2, BeginGroup
  PROVE  Inv2'
<1> DEFINE callee == GroupFrame(Top.depth + 1, Top.left - 1, Top.left)
<1>1. status = "decoding" /\ Top.kind # "packed"
  BY DEF BeginGroup, Reading
<1>2. CASE Fail
  BY <1>2, FailKept
<1>3. CASE Advance(Append(stack, callee))
  <2>1. Kept(callee, options)
    BY <1>1, KeptTop, NewFrameKept
  <2>2. callee.kind = "group"
    BY DEF GroupFrame, MessageFrame
  <2> HIDE DEF callee
  <2>3. Link(Top, callee, options)
    BY <1>1, <2>2 DEF Link
  <2>4. stack \in Seq(Frame) /\ stack # <<>>
    BY <1>1, KeptTop, ReadingProperties
  <2>5. KeptStack(Append(stack, callee), options)
    BY <2>1, <2>3, <2>4, KeptPush DEF Inv2, Top
  <2> QED BY <1>1, <1>3, <2>5, AdvanceKept
<1> QED BY <1>2, <1>3 DEF BeginGroup

\* The step EndGroup keeps what the stack promises.
LEMMA EndGroupKept ==
  ASSUME Inv, Inv2, EndGroup
  PROVE  Inv2'
<1> DEFINE left   == Top.left - 1
           caller == [Caller EXCEPT !.left = left]
<1>1. status = "decoding" /\ Top.kind = "group" /\ Top.left >= 1
  BY DEF EndGroup, Reading
<1>2. /\ Goes(Caller, Caller, options) /\ ResumesKept(Below(2), Caller, options)
      /\ Link(Caller, Top, options) /\ Later(Caller, Caller, Limit) /\ Calls(Caller, Top)
  BY <1>1, KeptCaller, ReadingProperties, CallerProperties
<1>3. /\ left \in Nat /\ Caller.left \in Nat /\ Top.size = Caller.left
      /\ left <= Caller.left /\ Top.size - left \in Nat
  BY <1>1, <1>2, ReadingProperties DEF Frame, Sound, Calls, Later
<1>4. Goes(caller, Caller, options) /\ caller.kind # "packed"
  <2>1. Caller.left - (Caller.left - left) = left
    BY <1>3
  <2>2. caller = Consume(Caller, Caller.left - left)
    BY <2>1 DEF Consume
  <2>3. Caller.kind # "packed"
    BY <1>2 DEF Link
  <2>4. Caller.left - left \in Nat /\ Caller.left - left <= Caller.left
    BY <1>3
  <2> HIDE DEF left, caller
  <2> QED BY <1>2, <2>2, <2>3, <2>4, GoesConsume
<1> HIDE DEF left, caller
<1>5. CASE CommitUnknown(Below(2), caller, WireGroup, Top.size - left, 1)
  BY <1>1, <1>2, <1>3, <1>4, <1>5, CommitUnknownKept DEF Wire
<1>6. CASE Advance(Append(Below(2), caller))
  BY <1>1, <1>2, <1>4, <1>6, GoOnKept DEF Advance
<1> QED BY <1>5, <1>6 DEF EndGroup, left, caller

-----------------------------------------------------------------------------
(* The theorems.                                                           *)

\* Inv2 is inductive relative to Inv.
LEMMA Retention == Spec => []Inv2
<1>1. Init => Inv2
  BY EmptySeq DEF Init, Inv2, KeptStack
<1>2. Inv /\ Inv2 /\ [Next]_vars => Inv2'
  <2> SUFFICES ASSUME Inv, Inv2, [Next]_vars PROVE Inv2'
    OBVIOUS
  <2>0. 0 .. MaxInput \subseteq Nat
    BY InputAssumption
  <2>1. ASSUME NEW type \in RootTypes, NEW n \in 0 .. MaxInput, Decode(type, n) PROVE Inv2'
    BY <2>1, DecodeKept
  <2>2. ASSUME CountField \/ Malformed \/ Unterminated PROVE Inv2'
    BY <2>2, FailKept DEF CountField, Malformed, Unterminated
  <2>3. ASSUME NEW f \in Field, NEW v \in Scalar,
               UnknownEnumValue(f, v) \/ SingularScalar(f, v) \/ UnpackedElement(f, v)
        PROVE  Inv2'
    BY <2>3, UnknownEnumValueKept, SingularScalarKept, UnpackedElementKept
  <2>4. ASSUME NEW f \in Field, NEW n \in 0 .. MaxInput,
               BeginPacked(f, n) \/ BeginMessage(f, n) \/ BeginEntry(f, n)
        PROVE  Inv2'
    BY <2>0, <2>4, BeginPackedKept, BeginMessageKept, BeginEntryKept
  <2>5. ASSUME NEW v \in Scalar, PackedElement(v) \/ EntryKey(v) \/ EntryScalar(v)
        PROVE  Inv2'
    BY <2>5, PackedElementKept, EntryKeyKept, EntryScalarKept
  <2>6. ASSUME EndPacked \/ EndSubmessage \/ EndElement \/ EndRoot PROVE Inv2'
    BY <2>6, EndPackedKept, EndSubmessageKept, EndElementKept, EndRootKept
  <2>7. ASSUME NEW n \in 0 .. MaxInput, BeginEntryMessage(n) \/ SkipBytes(n) PROVE Inv2'
    BY <2>0, <2>7, BeginEntryMessageKept, SkipBytesKept
  <2>8. ASSUME EndEntryMessage \/ EndEntry \/ SkipScalar \/ BeginGroup \/ EndGroup
        PROVE  Inv2'
    BY <2>8, EndEntryMessageKept, EndEntryKept, SkipScalarKept, BeginGroupKept, EndGroupKept
  <2>9. ASSUME UNCHANGED vars PROVE Inv2'
    BY <2>9 DEF Inv2, vars, MissingRequired
  <2>10. ASSUME Terminated PROVE Inv2'
    BY <2>9, <2>10 DEF Terminated
  <2> QED
    BY <2>1, <2>2, <2>3, <2>4, <2>5, <2>6, <2>7, <2>8, <2>9, <2>10 DEF Next
<1> QED BY <1>1, <1>2, Invariance, PTL DEF Spec

\* Each activation, by itself.
LEMMA EachKept ==
  ASSUME Inv, Inv2
  PROVE  /\ DOMAIN stack = 1 .. Len(stack)
         /\ \A i \in DOMAIN stack : IsMessage(stack[i].msg) /\ Kept(stack[i], options)
<1>1. DOMAIN stack = 1 .. Len(stack)
  BY DEF Inv, StackOK
<1>2. \A i \in DOMAIN stack : IsMessage(stack[i].msg)
  BY <1>1 DEF Inv, StackOK, Sound, Fits
<1> QED BY <1>1, <1>2 DEF Inv2, KeptStack

\* No repeated field of a message under decoding outgrows max_repeated_values
\* and no map max_map_entries: decode_inner counts packed and unpacked
\* elements together, and new keys only.  It is about the fields of each message
\* itself, not about the submessages merge_message has added up.
THEOREM CollectionsAreBounded == Spec => []CollectionsBounded
<1>1. Inv /\ Inv2 => CollectionsBounded
  BY EachKept DEF Kept, Contents, Held, CollectionsBounded, CollectionsBoundedAt
<1> QED BY <1>1, Invariance, Retention, PTL

\* Whatever decode stores or merges in a singular field is complete: each
\* decode_inner checks the required fields of its message before it returns, and
\* merging loses none.
THEOREM RequiredArePresent == Spec => []RequiredPresent
<1>1. Inv /\ Inv2 => RequiredPresent
  <2> SUFFICES ASSUME Inv, Inv2, NEW i \in DOMAIN stack, NEW a \in DOMAIN stack[i].msg,
                      a # <<>> \/ status = "ok", NEW f \in Field,
                      Desc[f].owner = TypeAt(stack[i], a), Desc[f].card = "required"
               PROVE  HasAt(stack[i].msg, a, f)
    BY DEF RequiredPresent
  <2>1. CASE a # <<>>
    <3>1. Complete(stack[i].msg)
      BY EachKept DEF Kept, Contents
    <3> QED BY <2>1, <3>1 DEF Complete, Completed, TypeAt
  <2>2. CASE a = <<>>
    <3>1. ~MissingRequired(stack[i])
      BY <2>2, EachKept DEF Inv2
    <3> QED BY <2>2, <3>1 DEF MissingRequired, TypeAt, Has
  <2> QED BY <2>1, <2>2
<1> QED BY <1>1, Invariance, Retention, PTL

\* A set whose members are all the same has at most one.
LEMMA AtMostOne ==
  ASSUME NEW S, \A x, y \in S : x = y
  PROVE  Cardinality(S) <= 1
<1>1. CASE S = {}
  BY <1>1, FS_EmptySet
<1>2. CASE S # {}
  <2>1. PICK x \in S : TRUE
    BY <1>2
  <2>2. S = {x}
    BY <2>1
  <2>3. Cardinality({x}) = 1
    BY FS_Singleton
  <2> QED BY <2>2, <2>3
<1> QED BY <1>1, <1>2

\* With DuplicatePolicy::Reject no message of the tree has two occurrences of
\* a slot, a trail that tells of a duplicate, two members of one oneof or an
\* oversized collection, also where submessages were stored.
THEOREM StrictIsUnambiguous == Spec => []StrictDuplicates
<1>1. Inv /\ Inv2 => StrictDuplicates
  <2> SUFFICES ASSUME Inv, Inv2, options.duplicates = "Reject",
                      NEW i \in DOMAIN stack, NEW a \in DOMAIN stack[i].msg
               PROVE  LET m == stack[i].msg IN
                        /\ \A j \in DOMAIN m[a].audit :
                             m[a].audit[j].tag \in {"SchemaField", "UnknownField", "UnknownMessage"}
                        /\ \A f \in SingularField : Cardinality(Occurrences(m[a].audit, Slot(f))) <= 1
                        /\ OneofExclusiveAt(m, a) /\ CollectionsBoundedAt(m, a)
    BY DEF StrictDuplicates
  <2> DEFINE m == stack[i].msg
  <2>1. Unambiguous(m, options)
    BY EachKept DEF Kept, Strict
  <2>2. Single(m[a].audit) /\ OneofExclusiveAt(m, a) /\ Held(m[a], options)
    BY <2>1 DEF Unambiguous
  <2>3. CollectionsBoundedAt(m, a)
    BY <2>2 DEF Held, CollectionsBoundedAt
  <2>4. \A f \in SingularField : Cardinality(Occurrences(m[a].audit, Slot(f))) <= 1
    BY <2>2, AtMostOne DEF Single
  <2> QED BY <2>2, <2>3, <2>4 DEF Single
<1> QED BY <1>1, Invariance, Retention, PTL

\* A closed enum outside maps holds declared numbers only, on whatever path they
\* came; with EnumValuePolicy::RejectUnknown so does any enum, also in a map, where
\* 0 is kept whatever the enum declares (default_value of a missing map value).
THEOREM DomainsAreStrict == Spec => []StrictDomains
<1>1. Inv /\ Inv2 => StrictDomains
  <2> SUFFICES ASSUME Inv, Inv2, NEW i \in DOMAIN stack, NEW a \in DOMAIN stack[i].msg
               PROVE  LET m == stack[i].msg IN
                        /\ options.enum_values = "RejectUnknown" =>
                             /\ \A f \in Field \ MapField :
                                  Desc[f].enum # "not" => ~UndeclaredAt(m, a, f)
                             /\ \A f \in MapField, k \in Scalar :
                                  Desc[f].enum # "not" => m[a].map[f][k] \in KnownValue \cup {0, None}
                        /\ \A f \in Field \ MapField : Desc[f].enum = "closed" => ~UndeclaredAt(m, a, f)
    BY DEF StrictDomains
  <2> DEFINE m == stack[i].msg
  <2>1. Declared(m[a], options)
    BY EachKept DEF Kept, Contents
  <2> HIDE DEF m
  <2>2. ASSUME NEW f \in Field \ MapField, Checked(f, options) PROVE ~UndeclaredAt(m, a, f)
    <3>1. f \in ScalarField => m[a].scalar[f] \in KnownValue \cup {None}
      BY <2>1, <2>2 DEF Declared
    <3>2. f \in RepeatedField => Range(Items(m[a].rep[f])) \subseteq KnownValue
      <4> SUFFICES ASSUME f \in RepeatedField PROVE Range(Items(m[a].rep[f])) \subseteq KnownValue
        OBVIOUS
      <4>1. Items(m[a].rep[f]) \in Seq(KnownValue)
        BY <2>1, <2>2 DEF Declared
      <4> QED BY <4>1, ElementOfSeq, LenProperties DEF Range
    <3> QED BY <3>1, <3>2 DEF UndeclaredAt
  <2>3. options.enum_values = "RejectUnknown" =>
          \A f \in MapField, k \in Scalar :
            Desc[f].enum # "not" => m[a].map[f][k] \in KnownValue \cup {0, None}
    BY <2>1 DEF Declared, CheckedValues
  <2> QED BY <2>2, <2>3 DEF Checked, m
<1> QED BY <1>1, Invariance, Retention, PTL
=============================================================================
