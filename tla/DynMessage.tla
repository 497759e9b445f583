----------------------------- MODULE DynMessage -----------------------------
(***************************************************************************)
(* The dynamic message of the codec (struct Message) and the operations    *)
(* the decoder performs on it.                                             *)
(*                                                                         *)
(* A Rust Message owns its singular submessages; here the whole tree is    *)
(* one function from addresses to nodes.  An address is the sequence of    *)
(* singular message fields that leads to a node, <<>> for the message      *)
(* itself, so submessage f is present exactly when <<f>> is an address.    *)
(* With the tree laid flat, the recursion of merge_message is a pointwise  *)
(* merge of the nodes that both messages have.                             *)
(*                                                                         *)
(* A node keeps the field map apart by the shape the descriptor gives the  *)
(* field: single scalars, repeated values, map entries.  None stands for   *)
(* what is absent.  A map is the function from keys to values that its     *)
(* entry vector stands for: the vector's order is not modelled.  Messages  *)
(* stored in a repeated field or as a map value are never read or changed  *)
(* again by the decoder: they are the value Elem.                          *)
(***************************************************************************)
EXTENDS Naturals, Sequences

CONSTANTS
  Type,       \* message descriptors
  Field,      \* fields, each of one descriptor (a name qualified by its type)
  Desc,       \* what the schema says of each field
  Scalar,     \* scalar values; 0 is every type's default
  KnownValue, \* the numbers the enum declares
  Group,      \* oneof names
  WireVarint, \* payload of an unknown varint or fixed-width value
  WireBytes,  \* payload of an unknown length-delimited value
  WireGroup,  \* payload of an unknown group
  Elem,       \* a message held in a repeated field or in a map
  None        \* absent

\* One field of a descriptor: owner is its message, child the message type
\* of its values (None for scalars and enums).
FieldDescriptor ==
  [owner : Type, card : {"optional", "required", "repeated", "map"},
   child : Type \cup {None}, oneof : Group \cup {None},
   enum : {"not", "open", "closed"}, delimited : BOOLEAN]

\* Only an optional field can be a oneof member, and a oneof belongs to one
\* message: what validate_message_fields and parse_message guarantee.  The
\* values of a field are of one kind, numbers of an enum or messages.
ASSUME DescAssumption ==
  /\ Desc \in [Field -> FieldDescriptor]
  /\ \A f \in Field : Desc[f].oneof # None => Desc[f].card = "optional"
  /\ \A f, g \in Field : Desc[f].oneof = Desc[g].oneof /\ Desc[f].oneof # None
                         => Desc[f].owner = Desc[g].owner
  /\ \A f \in Field : Desc[f].enum # "not" => Desc[f].child = None

ASSUME ValueAssumption ==
  /\ Scalar \subseteq Nat /\ 0 \in Scalar /\ KnownValue \subseteq Scalar
  /\ None \notin Scalar /\ None \notin Type /\ None \notin Group /\ None \notin Field
  /\ Elem # None /\ None \notin Seq(Scalar \cup {Elem})

Wire == {WireVarint, WireBytes, WireGroup}

SingularField == {f \in Field : Desc[f].card \in {"optional", "required"}}
ScalarField   == {f \in SingularField : Desc[f].child = None}
MessageField  == SingularField \ ScalarField
RepeatedField == {f \in Field : Desc[f].card = "repeated"}
MapField      == {f \in Field : Desc[f].card = "map"}

Value == Scalar \cup {Elem}

\* The entries of one map field.
Entries  == [Scalar -> Value \cup {None}]
NoEntry  == [k \in Scalar |-> None]
Keys(entries) == {k \in Scalar : entries[k] # None}

AuditTag == {"SchemaField", "UnknownField", "UnknownMessage",
             "DuplicateDiscarded", "DuplicateLastWins", "DuplicateMerged"}

\* payload is the occurrence's contents, kept for the properties even when
\* AuditMode retains no bytes; bytes is the length of encoded_field.
AuditRecord == [tag : AuditTag, field : Field \cup {None},
                payload : Seq(Value \cup Wire), bytes : Nat]
UnknownEntry == [field : Field \cup {None}, payload : Seq(Value \cup Wire)]

Node == [scalar  : [ScalarField -> Scalar \cup {None}],
         rep     : [RepeatedField -> Seq(Value) \cup {None}],
         map     : [MapField -> Entries],
         unknown : Seq(UnknownEntry),
         audit   : Seq(AuditRecord)]

EmptyNode == [scalar  |-> [f \in ScalarField |-> None],
              rep     |-> [f \in RepeatedField |-> None],
              map     |-> [f \in MapField |-> NoEntry],
              unknown |-> <<>>,
              audit   |-> <<>>]

\* Message::new.
New == [a \in {<<>>} |-> EmptyNode]

IsMessage(m) ==
  /\ m \in [DOMAIN m -> Node]
  /\ DOMAIN m \subseteq Seq(MessageField)
  /\ <<>> \in DOMAIN m

-----------------------------------------------------------------------------
(* Operations on the fields of a message.                                  *)

\* fields.contains_key(f), for the message at an address of the tree.
HasAt(m, a, f) ==
  \/ f \in ScalarField   /\ m[a].scalar[f] # None
  \/ f \in MessageField  /\ Append(a, f) \in DOMAIN m
  \/ f \in RepeatedField /\ m[a].rep[f] # None
  \/ f \in MapField      /\ Keys(m[a].map[f]) # {}

Has(m, f) == HasAt(m, <<>>, f)

\* The other members of f's oneof.
Siblings(f) ==
  {g \in Field \ {f} : Desc[g].oneof = Desc[f].oneof /\ Desc[f].oneof # None}

Under(f, a) == a # <<>> /\ Head(a) = f

\* Mutant: the removal forgets the submessages.
RemoveScalarsOnly(m, S) ==
  [m EXCEPT ![<<>>].scalar = [g \in ScalarField |-> IF g \in S THEN None ELSE @[g]]]

\* fields.remove(g) for every g in S, a set of singular fields.
RemoveFields(m, S) ==
  [a \in {b \in DOMAIN m : \A g \in S : ~Under(g, b)} |->
     IF a = <<>>
     THEN [m[a] EXCEPT !.scalar = [g \in ScalarField |->
                                     IF g \in S THEN None ELSE @[g]]]
     ELSE m[a]]

SetScalar(m, f, v) == [m EXCEPT ![<<>>].scalar[f] = v]
SetRep(m, f, xs)   == [m EXCEPT ![<<>>].rep[f] = xs]
SetMap(m, f, entries) == [m EXCEPT ![<<>>].map[f] = entries]

\* The vector of a repeated field, empty when the field is absent.
Items(vector) == IF vector = None THEN <<>> ELSE vector

\* Mutant: the first value of a key wins.
KeepFirst(entries, k, v) ==
  IF entries[k] # None THEN entries ELSE [entries EXCEPT ![k] = v]

\* The last value of a key wins.
PutEntry(entries, k, v) == [entries EXCEPT ![k] = v]

\* Mutant: the incoming vector replaces the existing one.
ReplaceRep(old, new) == IF new = None THEN old ELSE new

MergeRep(old, new) == IF new = None THEN old ELSE Items(old) \o new

MergeMap(old, new) == [k \in Scalar |-> IF new[k] = None THEN old[k] ELSE new[k]]

\* merge_message on one message, its submessages apart.
MergeNode(old, new) ==
  [scalar  |-> [f \in ScalarField |->
                  IF new.scalar[f] = None THEN old.scalar[f] ELSE new.scalar[f]],
   rep     |-> [f \in RepeatedField |-> MergeRep(old.rep[f], new.rep[f])],
   map     |-> [f \in MapField |-> MergeMap(old.map[f], new.map[f])],
   unknown |-> old.unknown \o new.unknown,
   audit   |-> old.audit \o new.audit]

\* Mutant and operation: what the insertion of a oneof member removes.
KeepSiblings(m, f) == m

Displace(m, f) == RemoveFields(m, Siblings(f))

\* Stores the message sub in the singular field f, merged with the message
\* already there.
MergeMessage(m, f, sub) ==
  [a \in DOMAIN m \cup {<<f>> \o b : b \in DOMAIN sub} |->
     IF ~Under(f, a) \/ Tail(a) \notin DOMAIN sub THEN m[a]
     ELSE IF a \in DOMAIN m THEN MergeNode(m[a], sub[Tail(a)])
     ELSE sub[Tail(a)]]

-----------------------------------------------------------------------------
(* Operations on the audit trail and on the unknown fields.                *)

Live(record) == record.tag \in {"SchemaField", "DuplicateLastWins"}

\* Mutant: the latest record is demoted whatever its tag.
DemoteLatest(audit, S) ==
  LET named == {i \in DOMAIN audit : audit[i].field \in S}
      last  == CHOOSE i \in named : \A j \in named : j <= i
  IN  IF named = {} THEN audit
      ELSE [audit EXCEPT ![last].tag = "DuplicateDiscarded"]

\* Demotes the latest live record that names a field of S.
Demote(audit, S) ==
  LET live == {i \in DOMAIN audit : audit[i].field \in S /\ Live(audit[i])}
      last == CHOOSE i \in live : \A j \in live : j <= i
  IN  IF live = {} THEN audit
      ELSE [audit EXCEPT ![last].tag = "DuplicateDiscarded"]

DemoteIn(m, S) == [m EXCEPT ![<<>>].audit = Demote(@, S)]

PushAudit(m, record) == [m EXCEPT ![<<>>].audit = Append(@, record)]

\* Mutant: the latest unknown field comes first.
PushUnknownFirst(m, entries) == [m EXCEPT ![<<>>].unknown = entries \o @]

PushUnknown(m, entries) == [m EXCEPT ![<<>>].unknown = @ \o entries]
=============================================================================
