---------------------------- MODULE DecoderProofs ----------------------------
(***************************************************************************)
(* For every schema, every options value and every input length: the type  *)
(* invariant of the decoder, the recursion limit on the whole retained     *)
(* tree and the exclusiveness of oneofs in each message under decoding.    *)
(*                                                                         *)
(* The inductive invariant is about the call stack: its bottom frame is    *)
(* the root message, each embedded message is one level deeper than its    *)
(* caller, and every frame respects the depth limit and oneofs by itself.  *)
(***************************************************************************)
EXTENDS Decoder, SequenceTheorems, TLAPS

-----------------------------------------------------------------------------
(* Messages: what the operations of DynMessage preserve, for every         *)
(* descriptor.                                                             *)

\* A fresh message is well typed.
LEMMA NewIsMessage ==
  IsMessage(New) /\ DOMAIN New = {<<>>}
<1>1. EmptyNode \in Node
  BY ValueAssumption DEF EmptyNode, Node, NoEntry, Entries, Value
<1> QED BY <1>1 DEF IsMessage, New

\* The parts of a node, each with its type, are what makes it a node.
LEMMA NodeParts ==
  ASSUME NEW n \in Node
  PROVE  /\ n.scalar \in [ScalarField -> Scalar \cup {None}]
         /\ n.rep \in [RepeatedField -> Seq(Value) \cup {None}]
         /\ n.map \in [MapField -> Entries]
         /\ n.unknown \in Seq(UnknownEntry) /\ n.audit \in Seq(AuditRecord)
BY DEF Node

\* Replacing one part of a node by another of its type keeps the others.
LEMMA NodeUpdate ==
  ASSUME NEW n \in Node
  PROVE  /\ \A x \in [ScalarField -> Scalar \cup {None}] : [n EXCEPT !.scalar = x] \in Node
         /\ \A x \in [RepeatedField -> Seq(Value) \cup {None}] : [n EXCEPT !.rep = x] \in Node
         /\ \A x \in [MapField -> Entries] : [n EXCEPT !.map = x] \in Node
         /\ \A x \in Seq(UnknownEntry) : [n EXCEPT !.unknown = x] \in Node
         /\ \A x \in Seq(AuditRecord) : [n EXCEPT !.audit = x] \in Node
BY DEF Node

\* The message with another node at its own address.
WithRoot(m, n) == [m EXCEPT ![<<>>] = n]

\* Changing the node of a message itself.
LEMMA RootNodeUpdate ==
  ASSUME NEW m, IsMessage(m), NEW n \in Node
  PROVE  /\ IsMessage(WithRoot(m, n))
         /\ DOMAIN WithRoot(m, n) = DOMAIN m
         /\ WithRoot(m, n)[<<>>] = n
BY DEF IsMessage, WithRoot

\* The same fields with the same values, whatever the trail and the unknown
\* fields of the message itself.
SameFields(new, old) ==
  /\ DOMAIN new = DOMAIN old
  /\ new[<<>>].scalar = old[<<>>].scalar
  /\ new[<<>>].rep = old[<<>>].rep
  /\ new[<<>>].map = old[<<>>].map

\* Storing a scalar changes that field and nothing else.
LEMMA SetScalarTyped ==
  ASSUME NEW m, IsMessage(m), NEW f \in ScalarField, NEW v \in Scalar \cup {None}
  PROVE  /\ IsMessage(SetScalar(m, f, v))
         /\ DOMAIN SetScalar(m, f, v) = DOMAIN m
         /\ SetScalar(m, f, v)[<<>>] = [m[<<>>] EXCEPT !.scalar = [@ EXCEPT ![f] = v]]
<1> DEFINE x == [m[<<>>].scalar EXCEPT ![f] = v]
           n == [m[<<>>] EXCEPT !.scalar = [@ EXCEPT ![f] = v]]
<1>0. m[<<>>] \in Node /\ n = [m[<<>>] EXCEPT !.scalar = x]
  BY DEF IsMessage
<1>1. n \in Node
  <2>1. m[<<>>].scalar \in [ScalarField -> Scalar \cup {None}]
    BY <1>0, NodeParts
  <2>2. x \in [ScalarField -> Scalar \cup {None}]
    BY <2>1
  <2> QED BY <1>0, <2>2, NodeUpdate
<1>2. SetScalar(m, f, v) = WithRoot(m, n)
  BY DEF SetScalar, WithRoot
<1> HIDE DEF n
<1>3. IsMessage(SetScalar(m, f, v)) /\ DOMAIN SetScalar(m, f, v) = DOMAIN m
       /\ SetScalar(m, f, v)[<<>>] = n
  BY <1>1, <1>2, RootNodeUpdate
<1> QED BY <1>3 DEF n

\* Storing the vector of a repeated field changes that field and nothing else.
LEMMA SetRepTyped ==
  ASSUME NEW m, IsMessage(m), NEW f \in RepeatedField, NEW xs \in Seq(Value)
  PROVE  /\ IsMessage(SetRep(m, f, xs))
         /\ DOMAIN SetRep(m, f, xs) = DOMAIN m
         /\ SetRep(m, f, xs)[<<>>] = [m[<<>>] EXCEPT !.rep = [@ EXCEPT ![f] = xs]]
<1> DEFINE x == [m[<<>>].rep EXCEPT ![f] = xs]
           n == [m[<<>>] EXCEPT !.rep = [@ EXCEPT ![f] = xs]]
<1>0. m[<<>>] \in Node /\ n = [m[<<>>] EXCEPT !.rep = x]
  BY DEF IsMessage
<1>1. n \in Node
  <2>1. m[<<>>].rep \in [RepeatedField -> Seq(Value) \cup {None}]
    BY <1>0, NodeParts
  <2>2. x \in [RepeatedField -> Seq(Value) \cup {None}]
    BY <2>1
  <2> QED BY <1>0, <2>2, NodeUpdate
<1>2. SetRep(m, f, xs) = WithRoot(m, n)
  BY DEF SetRep, WithRoot
<1> HIDE DEF n
<1>3. IsMessage(SetRep(m, f, xs)) /\ DOMAIN SetRep(m, f, xs) = DOMAIN m
       /\ SetRep(m, f, xs)[<<>>] = n
  BY <1>1, <1>2, RootNodeUpdate
<1> QED BY <1>3 DEF n

\* Storing the entries of a map field changes that field and nothing else.
LEMMA SetMapTyped ==
  ASSUME NEW m, IsMessage(m), NEW f \in MapField, NEW e \in Entries
  PROVE  /\ IsMessage(SetMap(m, f, e))
         /\ DOMAIN SetMap(m, f, e) = DOMAIN m
         /\ SetMap(m, f, e)[<<>>] = [m[<<>>] EXCEPT !.map = [@ EXCEPT ![f] = e]]
<1> DEFINE x == [m[<<>>].map EXCEPT ![f] = e]
           n == [m[<<>>] EXCEPT !.map = [@ EXCEPT ![f] = e]]
<1>0. m[<<>>] \in Node /\ n = [m[<<>>] EXCEPT !.map = x]
  BY DEF IsMessage
<1>1. n \in Node
  <2>1. m[<<>>].map \in [MapField -> Entries]
    BY <1>0, NodeParts
  <2>2. x \in [MapField -> Entries]
    BY <2>1
  <2> QED BY <1>0, <2>2, NodeUpdate
<1>2. SetMap(m, f, e) = WithRoot(m, n)
  BY DEF SetMap, WithRoot
<1> HIDE DEF n
<1>3. IsMessage(SetMap(m, f, e)) /\ DOMAIN SetMap(m, f, e) = DOMAIN m
       /\ SetMap(m, f, e)[<<>>] = n
  BY <1>1, <1>2, RootNodeUpdate
<1> QED BY <1>3 DEF n

\* Demoting a record changes its tag and nothing else: the trail stays one.
LEMMA DemoteTyped ==
  ASSUME NEW audit \in Seq(AuditRecord), NEW S
  PROVE  Demote(audit, S) \in Seq(AuditRecord)
<1>1. ASSUME NEW r \in AuditRecord
      PROVE  [r EXCEPT !.tag = "DuplicateDiscarded"] \in AuditRecord
  BY DEF AuditRecord, AuditTag
<1>2. ASSUME NEW i PROVE [audit EXCEPT ![i].tag = "DuplicateDiscarded"] \in Seq(AuditRecord)
  <2>1. CASE i \in DOMAIN audit
    <3> DEFINE r == [audit[i] EXCEPT !.tag = "DuplicateDiscarded"]
    <3>1. audit[i] \in AuditRecord
      BY <2>1
    <3>2. r \in AuditRecord
      BY <3>1, <1>1
    <3>3. [audit EXCEPT ![i].tag = "DuplicateDiscarded"] = [audit EXCEPT ![i] = r]
      OBVIOUS
    <3> HIDE DEF r
    <3> QED BY <2>1, <3>2, <3>3, ExceptSeq
  <2>2. CASE i \notin DOMAIN audit
    <3>1. [audit EXCEPT ![i].tag = "DuplicateDiscarded"] = audit
      BY <2>2
    <3> QED BY <3>1
  <2> QED BY <2>1, <2>2
<1> QED BY <1>2 DEF Demote

\* Recording an occurrence does not touch the fields.
LEMMA PushAuditTyped ==
  ASSUME NEW m, IsMessage(m), NEW r \in AuditRecord
  PROVE  IsMessage(PushAudit(m, r)) /\ SameFields(PushAudit(m, r), m)
<1> DEFINE n == [m[<<>>] EXCEPT !.audit = Append(@, r)]
<1>1. m[<<>>] \in Node
  BY DEF IsMessage
<1>2. Append(m[<<>>].audit, r) \in Seq(AuditRecord)
  BY <1>1 DEF Node
<1>3. n \in Node
  BY <1>1, <1>2, NodeUpdate
<1>4. PushAudit(m, r) = WithRoot(m, n)
  BY DEF PushAudit, WithRoot
<1>5. n.scalar = m[<<>>].scalar /\ n.rep = m[<<>>].rep /\ n.map = m[<<>>].map
  BY <1>1 DEF Node
<1> HIDE DEF n
<1>6. IsMessage(PushAudit(m, r)) /\ DOMAIN PushAudit(m, r) = DOMAIN m
       /\ PushAudit(m, r)[<<>>] = n
  BY <1>3, <1>4, RootNodeUpdate
<1> QED BY <1>5, <1>6 DEF SameFields

\* Retaining unknown fields does not touch the known ones.
LEMMA PushUnknownTyped ==
  ASSUME NEW m, IsMessage(m), NEW e \in Seq(UnknownEntry)
  PROVE  IsMessage(PushUnknown(m, e)) /\ SameFields(PushUnknown(m, e), m)
<1> DEFINE n == [m[<<>>] EXCEPT !.unknown = @ \o e]
<1>1. m[<<>>] \in Node
  BY DEF IsMessage
<1>2. m[<<>>].unknown \o e \in Seq(UnknownEntry)
  BY <1>1 DEF Node
<1>3. n \in Node
  BY <1>1, <1>2, NodeUpdate
<1>4. PushUnknown(m, e) = WithRoot(m, n)
  BY DEF PushUnknown, WithRoot
<1>5. n.scalar = m[<<>>].scalar /\ n.rep = m[<<>>].rep /\ n.map = m[<<>>].map
  BY <1>1 DEF Node
<1> HIDE DEF n
<1>6. IsMessage(PushUnknown(m, e)) /\ DOMAIN PushUnknown(m, e) = DOMAIN m
       /\ PushUnknown(m, e)[<<>>] = n
  BY <1>3, <1>4, RootNodeUpdate
<1> QED BY <1>5, <1>6 DEF SameFields

\* Demoting a record does not touch the fields.
LEMMA DemoteInTyped ==
  ASSUME NEW m, IsMessage(m), NEW S
  PROVE  IsMessage(DemoteIn(m, S)) /\ SameFields(DemoteIn(m, S), m)
<1> DEFINE n == [m[<<>>] EXCEPT !.audit = Demote(@, S)]
<1>1. m[<<>>] \in Node
  BY DEF IsMessage
<1>2. Demote(m[<<>>].audit, S) \in Seq(AuditRecord)
  BY <1>1, DemoteTyped DEF Node
<1>3. n \in Node
  BY <1>1, <1>2, NodeUpdate
<1>4. DemoteIn(m, S) = WithRoot(m, n)
  BY DEF DemoteIn, WithRoot
<1>5. n.scalar = m[<<>>].scalar /\ n.rep = m[<<>>].rep /\ n.map = m[<<>>].map
  BY <1>1 DEF Node
<1> HIDE DEF n
<1>6. IsMessage(DemoteIn(m, S)) /\ DOMAIN DemoteIn(m, S) = DOMAIN m
       /\ DemoteIn(m, S)[<<>>] = n
  BY <1>3, <1>4, RootNodeUpdate
<1> QED BY <1>5, <1>6 DEF SameFields

\* fields.remove keeps a message well typed and loses the submessages of the
\* removed fields, with all they contain, and no other.
LEMMA RemoveFieldsTyped ==
  ASSUME NEW m, IsMessage(m), NEW S
  PROVE  /\ IsMessage(RemoveFields(m, S))
         /\ DOMAIN RemoveFields(m, S) = {b \in DOMAIN m : \A g \in S : ~Under(g, b)}
         /\ RemoveFields(m, S)[<<>>] =
              [m[<<>>] EXCEPT !.scalar = [g \in ScalarField |-> IF g \in S THEN None ELSE @[g]]]
<1> DEFINE n == [m[<<>>] EXCEPT !.scalar = [g \in ScalarField |->
                                              IF g \in S THEN None ELSE @[g]]]
<1>1. m[<<>>] \in Node
  BY DEF IsMessage
<1>2. n \in Node
  BY <1>1 DEF Node
<1>3. \A g \in S : ~Under(g, <<>>)
  BY DEF Under
<1> HIDE DEF n
<1>4. RemoveFields(m, S) = [a \in {b \in DOMAIN m : \A g \in S : ~Under(g, b)} |->
                              IF a = <<>> THEN n ELSE m[a]]
  BY DEF RemoveFields, n
<1>5. /\ IsMessage(RemoveFields(m, S))
      /\ DOMAIN RemoveFields(m, S) = {b \in DOMAIN m : \A g \in S : ~Under(g, b)}
      /\ RemoveFields(m, S)[<<>>] = n
  BY <1>2, <1>3, <1>4 DEF IsMessage
<1> QED BY <1>5 DEF n

\* Merging two nodes gives a node.
LEMMA MergeNodeTyped ==
  ASSUME NEW old \in Node, NEW new \in Node
  PROVE  MergeNode(old, new) \in Node
<1>1. \A f \in RepeatedField : MergeRep(old.rep[f], new.rep[f]) \in Seq(Value) \cup {None}
  <2> TAKE f \in RepeatedField
  <2>1. old.rep[f] \in Seq(Value) \cup {None} /\ new.rep[f] \in Seq(Value) \cup {None}
    BY DEF Node
  <2>2. ASSUME NEW p \in Seq(Value) \cup {None}, NEW q \in Seq(Value) \cup {None}
        PROVE  MergeRep(p, q) \in Seq(Value) \cup {None}
    <3>1. Items(p) \in Seq(Value)
      BY DEF Items
    <3>2. CASE q = None
      BY <3>2 DEF MergeRep
    <3>3. CASE q # None
      <4>1. q \in Seq(Value)
        BY <3>3
      <4>2. Items(p) \o q \in Seq(Value)
        BY <3>1, <4>1, ConcatProperties
      <4> QED BY <3>3, <4>2 DEF MergeRep
    <3> QED BY <3>2, <3>3
  <2> QED BY <2>1, <2>2
<1>2. \A f \in MapField : MergeMap(old.map[f], new.map[f]) \in Entries
  <2> TAKE f \in MapField
  <2>1. old.map[f] \in Entries /\ new.map[f] \in Entries
    <3>1. old.map \in [MapField -> Entries] /\ new.map \in [MapField -> Entries]
      BY DEF Node
    <3> QED BY <3>1
  <2>2. ASSUME NEW p \in Entries, NEW q \in Entries PROVE MergeMap(p, q) \in Entries
    <3>1. \A k \in Scalar : (IF q[k] = None THEN p[k] ELSE q[k]) \in Value \cup {None}
      BY DEF Entries
    <3> QED BY <3>1 DEF MergeMap, Entries
  <2> QED BY <2>1, <2>2
<1>3. \A f \in ScalarField : (IF new.scalar[f] = None THEN old.scalar[f] ELSE new.scalar[f])
                               \in Scalar \cup {None}
  BY DEF Node
<1>4. old.unknown \o new.unknown \in Seq(UnknownEntry)
  BY DEF Node
<1>5. old.audit \o new.audit \in Seq(AuditRecord)
  BY DEF Node
<1> QED BY <1>1, <1>2, <1>3, <1>4, <1>5 DEF MergeNode, Node

\* Storing or merging a submessage keeps a message well typed, adds the
\* addresses of the submessage below its field, and does not touch the fields
\* of the message itself: the recursion of merge_message, laid flat.
LEMMA MergeMessageTyped ==
  ASSUME NEW m, IsMessage(m), NEW sub, IsMessage(sub), NEW f \in MessageField
  PROVE  /\ IsMessage(MergeMessage(m, f, sub))
         /\ DOMAIN MergeMessage(m, f, sub) = DOMAIN m \cup {<<f>> \o b : b \in DOMAIN sub}
         /\ MergeMessage(m, f, sub)[<<>>] = m[<<>>]
<1> DEFINE A == DOMAIN m \cup {<<f>> \o b : b \in DOMAIN sub}
           At(a) == IF ~Under(f, a) \/ Tail(a) \notin DOMAIN sub THEN m[a]
                    ELSE IF a \in DOMAIN m THEN MergeNode(m[a], sub[Tail(a)])
                    ELSE sub[Tail(a)]
<1>1. ASSUME NEW b \in DOMAIN sub
      PROVE  <<f>> \o b \in Seq(MessageField) /\ Under(f, <<f>> \o b) /\ Tail(<<f>> \o b) = b
  <2>1. b \in Seq(MessageField)
    BY DEF IsMessage
  <2> QED BY <2>1 DEF Under
<1>2. A \subseteq Seq(MessageField) /\ <<>> \in A
  BY <1>1 DEF IsMessage
<1>3. ASSUME NEW a \in A PROVE At(a) \in Node
  <2>1. CASE ~Under(f, a) \/ Tail(a) \notin DOMAIN sub
    BY <1>1, <2>1 DEF IsMessage
  <2>2. CASE Under(f, a) /\ Tail(a) \in DOMAIN sub /\ a \in DOMAIN m
    BY <2>2, MergeNodeTyped DEF IsMessage
  <2>3. CASE Under(f, a) /\ Tail(a) \in DOMAIN sub /\ a \notin DOMAIN m
    BY <2>3 DEF IsMessage
  <2> QED BY <2>1, <2>2, <2>3
<1>4. MergeMessage(m, f, sub) = [a \in A |-> At(a)]
  BY DEF MergeMessage
<1>5. At(<<>>) = m[<<>>]
  BY DEF Under
<1> HIDE DEF A, At
<1>6. IsMessage(MergeMessage(m, f, sub)) /\ DOMAIN MergeMessage(m, f, sub) = A
       /\ MergeMessage(m, f, sub)[<<>>] = m[<<>>]
  BY <1>2, <1>3, <1>4, <1>5 DEF IsMessage
<1> QED BY <1>6 DEF A

-----------------------------------------------------------------------------
(* The inductive invariant.                                                *)

Message ==
  {m \in UNION {[A -> Node] : A \in SUBSET Seq(MessageField)} : <<>> \in DOMAIN m}

Frame ==
  [kind : {"message", "entry", "packed", "group"},
   type : Type \cup {None}, via : Field \cup {None},
   depth : Nat, left : Nat, size : Nat, msg : Message,
   key : Scalar \cup {None}, val : Value \cup {None}, items : Seq(Scalar)]

\* A message at some depth under the limit, exclusive in its oneofs.
Fits(m, depth, max) ==
  /\ IsMessage(m)
  /\ \A a \in DOMAIN m : depth + Len(a) <= max
  /\ OneofExclusiveAt(m, <<>>)

\* What a frame guarantees by itself.
Sound(fr, max) ==
  /\ Fits(fr.msg, fr.depth, max)
  /\ fr.kind = "packed" => fr.via \in RepeatedField
  /\ fr.kind = "entry" => fr.via \in MapField
  /\ fr.kind = "group" => fr.left <= fr.size

\* The outermost call, and the relation between a frame and its callee.
Outermost(fr) == fr.kind = "message" /\ fr.via = None
Calls(caller, fr) ==
  /\ fr.kind = "message" => fr.depth = caller.depth + 1
  /\ fr.kind = "group" => fr.size = caller.left

StackOK(s, max) ==
  /\ s \in Seq(Frame)
  /\ \A i \in 1 .. Len(s) : Sound(s[i], max)
  /\ s # <<>> => Outermost(s[1])
  /\ \A i \in 2 .. Len(s) : Calls(s[i - 1], s[i])

Limit == options.max_recursion_depth

Inv ==
  /\ options \in Options
  /\ field_occurrences \in Nat /\ audit_bytes \in Nat
  /\ status \in {"idle", "decoding", "ok", "error"}
  /\ StackOK(stack, Limit)
  /\ status = "decoding" => stack # <<>>

\* The same activation, further on.
SameCall(new, old) ==
  /\ new.kind = old.kind /\ new.via = old.via
  /\ new.depth = old.depth /\ new.size = old.size

Later(new, old, max) == new \in Frame /\ Sound(new, max) /\ SameCall(new, old)

\* Below is what lies under the activation fr.
Resumes(below, fr, max) == \A g : Later(g, fr, max) => StackOK(Append(below, g), max)

-----------------------------------------------------------------------------
(* Frames and stacks.                                                      *)

\* Message is the set of the well typed messages.
LEMMA MessageSet ==
  ASSUME NEW m
  PROVE  m \in Message <=> IsMessage(m)
BY DEF Message, IsMessage

\* Frame is the set of the well typed frames.
LEMMA FrameSet ==
  ASSUME NEW fr
  PROVE  fr \in Frame <=> IsFrame(fr)
BY MessageSet DEF Frame, IsFrame

\* The prefixes of a sequence.
LEMMA PrefixProperties ==
  ASSUME NEW S, NEW s \in Seq(S), NEW n \in 0 .. Len(s)
  PROVE  /\ SubSeq(s, 1, n) \in Seq(S)
         /\ Len(SubSeq(s, 1, n)) = n
         /\ \A i \in 1 .. n : SubSeq(s, 1, n)[i] = s[i]
<1>1. Len(s) \in Nat /\ n \in Int
  BY LenProperties
<1>2. \A i \in 1 .. n : s[i] \in S
  BY <1>1, ElementOfSeq
<1>3. SubSeq(s, 1, n) \in Seq(S)
  BY <1>1, <1>2, SubSeqProperties
<1>4. Len(SubSeq(s, 1, n)) = IF 1 <= n THEN n - 1 + 1 ELSE 0
  BY <1>1, <1>2, SubSeqProperties
<1>5. \A i \in 1 .. n : SubSeq(s, 1, n)[i] = s[i]
  BY <1>1, <1>2, SubSeqProperties
<1> QED BY <1>1, <1>3, <1>4, <1>5

\* What a callee leaves on return is a stack.
LEMMA PopOK ==
  ASSUME NEW s, NEW max, StackOK(s, max), s # <<>>
  PROVE  /\ StackOK(SubSeq(s, 1, Len(s) - 1), max)
         /\ Len(SubSeq(s, 1, Len(s) - 1)) = Len(s) - 1
         /\ \A i \in 1 .. Len(s) - 1 : SubSeq(s, 1, Len(s) - 1)[i] = s[i]
<1> DEFINE t == SubSeq(s, 1, Len(s) - 1)
<1>1. s \in Seq(Frame) /\ Len(s) \in Nat /\ Len(s) >= 1
  BY EmptySeq, LenProperties DEF StackOK
<1>3. t \in Seq(Frame) /\ Len(t) = Len(s) - 1 /\ \A i \in 1 .. Len(s) - 1 : t[i] = s[i]
  <2>1. Len(s) - 1 \in 0 .. Len(s)
    BY <1>1
  <2> QED BY <1>1, <2>1, PrefixProperties
<1> HIDE DEF t
<1>4. \A i \in 1 .. Len(t) : Sound(t[i], max)
  BY <1>1, <1>3 DEF StackOK
<1>5. t # <<>> => Outermost(t[1])
  <2> SUFFICES ASSUME t # <<>> PROVE Outermost(t[1])
    OBVIOUS
  <2>1. 1 \in 1 .. Len(s) - 1
    BY <1>1, <1>3, EmptySeq
  <2>2. t[1] = s[1] /\ Outermost(s[1])
    BY <1>3, <2>1 DEF StackOK
  <2> QED BY <2>2
<1>6. \A i \in 2 .. Len(t) : Calls(t[i - 1], t[i])
  BY <1>1, <1>3 DEF StackOK
<1>7. StackOK(t, max)
  BY <1>3, <1>4, <1>5, <1>6 DEF StackOK
<1> QED BY <1>3, <1>7 DEF t

\* A call pushes a frame.
LEMMA PushOK ==
  ASSUME NEW s, NEW max, StackOK(s, max), NEW fr \in Frame, Sound(fr, max),
         IF s = <<>> THEN Outermost(fr) ELSE Calls(s[Len(s)], fr)
  PROVE  StackOK(Append(s, fr), max)
<1> DEFINE t == Append(s, fr)
<1>1. s \in Seq(Frame) /\ Len(s) \in Nat
  BY LenProperties DEF StackOK
<1>2. /\ t \in Seq(Frame) /\ t # <<>> /\ Len(t) = Len(s) + 1
      /\ \A i \in 1 .. Len(s) : t[i] = s[i]
      /\ t[Len(s) + 1] = fr
  BY <1>1, AppendProperties
<1> HIDE DEF t
<1>3. \A i \in 1 .. Len(t) : Sound(t[i], max)
  BY <1>1, <1>2 DEF StackOK
<1>4. Outermost(t[1])
  <2>1. CASE s = <<>>
    BY <1>2, <2>1
  <2>2. CASE s # <<>>
    BY <1>1, <1>2, <2>2, EmptySeq DEF StackOK
  <2> QED BY <2>1, <2>2
<1>5. \A i \in 2 .. Len(t) : Calls(t[i - 1], t[i])
  <2> TAKE i \in 2 .. Len(t)
  <2>1. CASE i <= Len(s)
    BY <1>1, <1>2, <2>1 DEF StackOK
  <2>2. CASE i = Len(s) + 1
    <3>1. s # <<>> /\ t[i - 1] = s[Len(s)] /\ t[i] = fr
      BY <1>1, <1>2, <2>2
    <3> QED BY <3>1
  <2> QED BY <1>1, <1>2, <2>1, <2>2
<1>6. StackOK(t, max)
  BY <1>2, <1>3, <1>4, <1>5 DEF StackOK
<1> QED BY <1>6 DEF t

\* An activation goes on: the frame at the top is replaced by a later state of
\* the same call.
LEMMA ReplaceOK ==
  ASSUME NEW s, NEW max, StackOK(s, max), s # <<>>,
         NEW fr \in Frame, Sound(fr, max), SameCall(fr, s[Len(s)])
  PROVE  StackOK(Append(SubSeq(s, 1, Len(s) - 1), fr), max)
<1> DEFINE t == SubSeq(s, 1, Len(s) - 1)
<1>1. s \in Seq(Frame) /\ Len(s) \in Nat /\ Len(s) >= 1
  BY EmptySeq, LenProperties DEF StackOK
<1>2. StackOK(t, max) /\ Len(t) = Len(s) - 1 /\ \A i \in 1 .. Len(s) - 1 : t[i] = s[i]
  BY PopOK
<1> HIDE DEF t
<1>3. CASE t = <<>>
  <2>1. Len(s) = 1
    BY <1>1, <1>2, <1>3
  <2>2. Outermost(fr)
    BY <2>1 DEF StackOK, Outermost, SameCall
  <2> QED BY <1>2, <1>3, <2>2, PushOK DEF t
<1>4. CASE t # <<>>
  <2>1. Len(s) > 1
    BY <1>1, <1>2, <1>4, EmptySeq DEF StackOK
  <2>2. Calls(s[Len(s) - 1], s[Len(s)]) /\ t[Len(t)] = s[Len(s) - 1]
    BY <1>1, <1>2, <2>1 DEF StackOK
  <2>3. Calls(t[Len(t)], fr)
    BY <2>2 DEF Calls, SameCall
  <2> QED BY <1>2, <1>4, <2>3, PushOK DEF t
<1> QED BY <1>3, <1>4

-----------------------------------------------------------------------------
(* Messages.                                                               *)

\* A oneof member is a singular field.
LEMMA SiblingsAreSingular ==
  ASSUME NEW f \in Field, NEW g \in Siblings(f)
  PROVE  g \in SingularField /\ f \in Siblings(g)
BY DescAssumption DEF Siblings, SingularField

\* Inserting f once its siblings are removed keeps oneofs exclusive.
LEMMA OneofInsert ==
  ASSUME NEW m, NEW n, OneofExclusiveAt(m, <<>>), NEW f \in SingularField,
         \A g \in SingularField : HasAt(n, <<>>, g) =>
             g = f \/ (HasAt(m, <<>>, g) /\ g \notin Siblings(f))
  PROVE  OneofExclusiveAt(n, <<>>)
<1> SUFFICES ASSUME NEW g \in SingularField, HasAt(n, <<>>, g),
                    NEW h \in Siblings(g), HasAt(n, <<>>, h)
             PROVE  FALSE
  BY DEF OneofExclusiveAt
<1>1. h \in SingularField /\ g \in Siblings(h) /\ h # g
  BY SiblingsAreSingular DEF SingularField, Siblings
<1>2. CASE g = f
  BY <1>1, <1>2
<1>3. CASE h = f
  BY <1>1, <1>3
<1>4. CASE g # f /\ h # f
  BY <1>1, <1>4 DEF OneofExclusiveAt
<1> QED BY <1>2, <1>3, <1>4

\* What holds a message is itself within the limit.
LEMMA DepthWithin ==
  ASSUME NEW m, NEW depth \in Nat, NEW max \in Nat, Fits(m, depth, max)
  PROVE  depth <= max
<1>1. <<>> \in DOMAIN m
  BY DEF Fits, IsMessage
<1>2. depth + Len(<<>>) <= max
  BY <1>1 DEF Fits
<1> QED BY <1>2

\* A fresh message fits at any depth within the limit.
LEMMA FreshFits ==
  ASSUME NEW depth \in Nat, NEW max \in Nat, depth <= max
  PROVE  Fits(New, depth, max)
<1>1. \A f \in SingularField : ~HasAt(New, <<>>, f)
  <2>1. \A f \in MessageField : Append(<<>>, f) # <<>>
    OBVIOUS
  <2> QED BY <2>1 DEF HasAt, New, EmptyNode, SingularField, RepeatedField, MapField
<1>2. OneofExclusiveAt(New, <<>>)
  BY <1>1 DEF OneofExclusiveAt
<1>3. \A a \in DOMAIN New : depth + Len(a) <= max
  BY NewIsMessage
<1> QED BY <1>2, <1>3, NewIsMessage DEF Fits

\* What leaves the scalars and the submessages alone leaves the message fit.
LEMMA FitsSameSingular ==
  ASSUME NEW m, NEW n, NEW depth, NEW max, Fits(m, depth, max), IsMessage(n),
         DOMAIN n = DOMAIN m, n[<<>>].scalar = m[<<>>].scalar
  PROVE  Fits(n, depth, max)
<1>1. \A g \in SingularField : HasAt(n, <<>>, g) <=> HasAt(m, <<>>, g)
  BY DEF HasAt, SingularField, RepeatedField, MapField
<1>2. \A g \in SingularField : \A h \in Siblings(g) : h \in SingularField
  BY SiblingsAreSingular DEF SingularField
<1>3. OneofExclusiveAt(n, <<>>)
  BY <1>1, <1>2 DEF OneofExclusiveAt, Fits
<1> QED BY <1>3 DEF Fits

\* Recording an occurrence leaves the message fit.
LEMMA FitsPushAudit ==
  ASSUME NEW m, NEW depth, NEW max, Fits(m, depth, max), NEW r \in AuditRecord
  PROVE  Fits(PushAudit(m, r), depth, max)
BY PushAuditTyped, FitsSameSingular DEF Fits, SameFields

\* Retaining an unknown field, under whatever policy, leaves the message fit.
LEMMA FitsPushUnknown ==
  ASSUME NEW m, NEW depth, NEW max, Fits(m, depth, max), NEW e \in Seq(UnknownEntry)
  PROVE  Fits(PushUnknown(m, e), depth, max) /\ Fits(KeepUnknown(m, e), depth, max)
BY PushUnknownTyped, FitsSameSingular DEF Fits, SameFields, KeepUnknown

\* Demoting the displaced record leaves the message fit.
LEMMA FitsDemote ==
  ASSUME NEW m, NEW depth, NEW max, Fits(m, depth, max), NEW f, NEW duplicate, NEW merged
  PROVE  Fits(DemoteDisplaced(m, f, duplicate, merged), depth, max)
BY DemoteInTyped, FitsSameSingular DEF Fits, SameFields, DemoteDisplaced

\* Storing repeated values leaves the message fit.
LEMMA FitsSetRep ==
  ASSUME NEW m, NEW depth, NEW max, Fits(m, depth, max),
         NEW f \in RepeatedField, NEW xs \in Seq(Value)
  PROVE  Fits(SetRep(m, f, xs), depth, max)
<1>1. SetRep(m, f, xs)[<<>>].scalar = m[<<>>].scalar
  <2>1. m[<<>>] \in Node
    BY DEF Fits, IsMessage
  <2>2. SetRep(m, f, xs)[<<>>] = [m[<<>>] EXCEPT !.rep = [@ EXCEPT ![f] = xs]]
    BY SetRepTyped DEF Fits
  <2> QED BY <2>1, <2>2 DEF Node
<1> QED BY <1>1, SetRepTyped, FitsSameSingular DEF Fits

\* Storing map entries leaves the message fit.
LEMMA FitsSetMap ==
  ASSUME NEW m, NEW depth, NEW max, Fits(m, depth, max),
         NEW f \in MapField, NEW e \in Entries
  PROVE  Fits(SetMap(m, f, e), depth, max)
<1>1. SetMap(m, f, e)[<<>>].scalar = m[<<>>].scalar
  <2>1. m[<<>>] \in Node
    BY DEF Fits, IsMessage
  <2>2. SetMap(m, f, e)[<<>>] = [m[<<>>] EXCEPT !.map = [@ EXCEPT ![f] = e]]
    BY SetMapTyped DEF Fits
  <2> QED BY <2>1, <2>2 DEF Node
<1> QED BY <1>1, SetMapTyped, FitsSameSingular DEF Fits

\* The removal of the siblings of f loses submessages, adds none, and leaves no
\* sibling present.
LEMMA DisplaceProperties ==
  ASSUME NEW m, IsMessage(m), NEW f \in Field
  PROVE  /\ IsMessage(Displace(m, f)) /\ DOMAIN Displace(m, f) \subseteq DOMAIN m
         /\ \A g \in SingularField :
              HasAt(Displace(m, f), <<>>, g) => HasAt(m, <<>>, g) /\ g \notin Siblings(f)
<1> DEFINE n == Displace(m, f)
<1>1. /\ IsMessage(n)
      /\ DOMAIN n = {b \in DOMAIN m : \A g \in Siblings(f) : ~Under(g, b)}
      /\ n[<<>>] = [m[<<>>] EXCEPT !.scalar = [g \in ScalarField |->
                                     IF g \in Siblings(f) THEN None ELSE @[g]]]
  BY RemoveFieldsTyped DEF Displace
<1> HIDE DEF n
<1>2. m[<<>>] \in Node
  BY DEF IsMessage
<1>3. \A g \in ScalarField : n[<<>>].scalar[g] =
                              IF g \in Siblings(f) THEN None ELSE m[<<>>].scalar[g]
  BY <1>1, <1>2 DEF Node
<1>4. \A g \in MessageField : Append(<<>>, g) = <<g>> /\ Under(g, <<g>>)
  BY DEF Under
<1>5. \A g \in MessageField : <<g>> \in DOMAIN n => <<g>> \in DOMAIN m /\ g \notin Siblings(f)
  BY <1>1, <1>4
<1>6. \A g \in SingularField : HasAt(n, <<>>, g) => HasAt(m, <<>>, g) /\ g \notin Siblings(f)
  BY <1>3, <1>4, <1>5 DEF HasAt, SingularField, RepeatedField, MapField
<1> QED BY <1>1, <1>6 DEF n

\* Inserting a scalar once its siblings are gone leaves the message fit.
LEMMA FitsSetScalar ==
  ASSUME NEW m, NEW depth, NEW max, Fits(m, depth, max),
         NEW f \in ScalarField, NEW v \in Scalar
  PROVE  Fits(SetScalar(Displace(m, f), f, v), depth, max)
<1> DEFINE d == Displace(m, f)
           n == SetScalar(d, f, v)
<1>1. f \in SingularField /\ f \in Field
  BY DEF ScalarField, SingularField
<1>2. /\ IsMessage(d) /\ DOMAIN d \subseteq DOMAIN m
      /\ \A g \in SingularField : HasAt(d, <<>>, g) => HasAt(m, <<>>, g) /\ g \notin Siblings(f)
  BY <1>1, DisplaceProperties DEF Fits
<1>3. /\ IsMessage(n) /\ DOMAIN n = DOMAIN d
      /\ n[<<>>] = [d[<<>>] EXCEPT !.scalar = [@ EXCEPT ![f] = v]]
  BY <1>2, SetScalarTyped
<1> HIDE DEF d, n
<1>4. \A g \in ScalarField : g # f => n[<<>>].scalar[g] = d[<<>>].scalar[g]
  BY <1>2, <1>3 DEF IsMessage, Node
<1>5. \A g \in SingularField : HasAt(n, <<>>, g) => g = f \/ HasAt(d, <<>>, g)
  BY <1>3, <1>4 DEF HasAt, SingularField, RepeatedField, MapField
<1>6. OneofExclusiveAt(n, <<>>)
  BY <1>1, <1>2, <1>5, OneofInsert DEF Fits
<1> QED BY <1>2, <1>3, <1>6 DEF Fits, n, d

\* Storing or merging a submessage decoded one level deeper leaves the message
\* fit: merge_message adds no level.
LEMMA FitsMerge ==
  ASSUME NEW m, NEW depth \in Nat, NEW max \in Nat, Fits(m, depth, max),
         NEW f \in MessageField, NEW sub, Fits(sub, depth + 1, max)
  PROVE  Fits(MergeMessage(Displace(m, f), f, sub), depth, max)
<1> DEFINE d == Displace(m, f)
           n == MergeMessage(d, f, sub)
<1>1. f \in SingularField /\ f \in Field
  BY DEF MessageField, SingularField
<1>2. /\ IsMessage(d) /\ DOMAIN d \subseteq DOMAIN m
      /\ \A g \in SingularField : HasAt(d, <<>>, g) => HasAt(m, <<>>, g) /\ g \notin Siblings(f)
  BY <1>1, DisplaceProperties DEF Fits
<1>3. /\ IsMessage(n) /\ DOMAIN n = DOMAIN d \cup {<<f>> \o b : b \in DOMAIN sub}
      /\ n[<<>>] = d[<<>>]
  BY <1>2, MergeMessageTyped DEF Fits
<1> HIDE DEF d, n
<1>4. ASSUME NEW b \in DOMAIN sub
      PROVE  Len(<<f>> \o b) = Len(b) + 1 /\ Len(b) \in Nat /\ Head(<<f>> \o b) = f
  <2>1. b \in Seq(MessageField)
    BY DEF Fits, IsMessage
  <2> QED BY <2>1
<1>5. \A a \in DOMAIN n : depth + Len(a) <= max
  <2>1. \A b \in DOMAIN sub : depth + Len(<<f>> \o b) <= max
    <3> TAKE b \in DOMAIN sub
    <3>1. depth + 1 + Len(b) <= max
      BY DEF Fits
    <3> QED BY <1>4, <3>1
  <2>2. \A a \in DOMAIN d : depth + Len(a) <= max
    BY <1>2 DEF Fits
  <2> QED BY <1>3, <2>1, <2>2
<1>6. \A g \in MessageField : <<g>> \in DOMAIN n => g = f \/ <<g>> \in DOMAIN d
  <2> SUFFICES ASSUME NEW g \in MessageField, NEW b \in DOMAIN sub, <<g>> = <<f>> \o b
               PROVE  g = f
    BY <1>3
  <2>1. Head(<<g>>) = g
    OBVIOUS
  <2> QED BY <1>4, <2>1
<1>7. \A g \in SingularField : HasAt(n, <<>>, g) => g = f \/ HasAt(d, <<>>, g)
  <2>1. \A g \in MessageField : Append(<<>>, g) = <<g>>
    OBVIOUS
  <2> QED BY <1>3, <1>6, <2>1 DEF HasAt, SingularField, RepeatedField, MapField
<1>8. OneofExclusiveAt(n, <<>>)
  BY <1>1, <1>2, <1>7, OneofInsert DEF Fits
<1> QED BY <1>3, <1>5, <1>8 DEF Fits, n, d

-----------------------------------------------------------------------------
(* Activations.                                                            *)

\* An activation goes on with another fit message.
LEMMA LaterMessage ==
  ASSUME NEW fr, NEW g, NEW max, Later(g, fr, max), NEW m, Fits(m, g.depth, max)
  PROVE  /\ Later([g EXCEPT !.msg = m], fr, max)
         /\ [g EXCEPT !.msg = m].left = g.left
BY MessageSet DEF Later, Sound, Fits, SameCall, Frame

\* An activation goes on past the bytes it has read.
LEMMA LaterConsume ==
  ASSUME NEW fr, NEW g, NEW max, Later(g, fr, max), NEW n \in Nat, n <= g.left
  PROVE  Later(Consume(g, n), fr, max)
<1>1. g.left - n \in Nat
  BY DEF Later, Frame
<1> QED BY <1>1 DEF Later, Sound, SameCall, Frame, Consume

\* The activation at the top, and the stack it returns to.
LEMMA TopProperties ==
  ASSUME Inv, stack # <<>>
  PROVE  /\ Limit \in Nat /\ Len(stack) \in Nat \ {0}
         /\ Later(Top, Top, Limit) /\ Resumes(Below(1), Top, Limit)
<1>1. Limit \in Nat
  BY OptionsAssumption DEF Inv, Limit, DecodeOptions
<1>2. stack \in Seq(Frame) /\ Len(stack) \in Nat \ {0}
  BY EmptySeq DEF Inv, StackOK
<1>3. Top \in Frame /\ Sound(Top, Limit)
  BY <1>2, ElementOfSeq DEF Inv, StackOK, Top
<1>4. Resumes(Below(1), Top, Limit)
  BY ReplaceOK DEF Inv, Resumes, Later, Below, Top
<1> QED BY <1>1, <1>2, <1>3, <1>4 DEF Later, SameCall

\* Every activation but the outermost has a caller to return to.
LEMMA CallerProperties ==
  ASSUME Inv, stack # <<>>, Top.kind # "message" \/ Top.via # None \/ Len(stack) > 1
  PROVE  /\ Len(stack) > 1
         /\ Later(Caller, Caller, Limit) /\ Resumes(Below(2), Caller, Limit)
         /\ Calls(Caller, Top)
<1> DEFINE t == SubSeq(stack, 1, Len(stack) - 1)
<1>1. stack \in Seq(Frame) /\ Len(stack) \in Nat \ {0}
  BY EmptySeq DEF Inv, StackOK
<1>2. Len(stack) > 1
  BY <1>1 DEF Inv, StackOK, Outermost, Top
<1>3. Caller \in Frame /\ Sound(Caller, Limit) /\ Calls(Caller, Top)
  BY <1>1, <1>2, ElementOfSeq DEF Inv, StackOK, Top, Caller
<1>4. /\ StackOK(t, Limit) /\ t # <<>>
      /\ Len(t) = Len(stack) - 1 /\ t[Len(t)] = Caller
  <2>1. /\ StackOK(t, Limit) /\ Len(t) = Len(stack) - 1
        /\ \A i \in 1 .. Len(stack) - 1 : t[i] = stack[i]
    BY PopOK DEF Inv
  <2> HIDE DEF t
  <2> QED BY <1>1, <1>2, <2>1 DEF Caller
<1>5. SubSeq(t, 1, Len(t) - 1) = Below(2)
  <2>1. Len(t) = Len(stack) - 1
    BY <1>4
  <2>2. SubSeq(SubSeq(stack, 1, Len(stack) - 1), 1, Len(stack) - 2) =
          SubSeq(stack, 1, Len(stack) - 2)
    <3>1. CASE Len(stack) = 2
      BY <1>1, <3>1, SubSeqEmpty
    <3>2. CASE Len(stack) > 2
      <4>1. /\ 1 \in 1 .. Len(stack) /\ Len(stack) - 1 \in 1 .. Len(stack)
            /\ 1 \in 1 .. (Len(stack) - 1) - 1 + 1
            /\ Len(stack) - 2 \in 1 .. (Len(stack) - 1) - 1 + 1
        BY <1>1, <3>2
      <4>2. SubSeq(SubSeq(stack, 1, Len(stack) - 1), 1, Len(stack) - 2) =
              SubSeq(stack, 1 + 1 - 1, 1 + (Len(stack) - 2) - 1)
        BY <1>1, <4>1, SubSeqOfSubSeq
      <4> QED BY <1>1, <4>2
    <3> QED BY <1>1, <1>2, <3>1, <3>2
  <2>3. Len(t) - 1 = Len(stack) - 2
    BY <1>1, <2>1
  <2> HIDE DEF t
  <2> QED BY <2>2, <2>3 DEF Below, t
<1> HIDE DEF t
<1>6. Resumes(Below(2), Caller, Limit)
  BY <1>4, <1>5, ReplaceOK DEF Resumes, Later
<1> QED BY <1>2, <1>3, <1>6 DEF Later, SameCall

\* An error drops every frame.
LEMMA FailOK ==
  ASSUME Inv, Fail
  PROVE  Inv'
<1>1. StackOK(<<>>, Limit)
  BY EmptySeq DEF StackOK
<1> QED BY <1>1 DEF Inv, Fail, Limit

\* A step that counts an occurrence and keeps no record.
LEMMA AdvanceOK ==
  ASSUME Inv, NEW frames, StackOK(frames, Limit), frames # <<>>, Advance(frames)
  PROVE  Inv'
BY DEF Inv, Advance, Limit

\* An occurrence that is recorded in the frame of an activation.
LEMMA CommitOK ==
  ASSUME Inv, status = "decoding",
         NEW below, NEW fr, NEW old, Resumes(below, old, Limit), Later(fr, old, Limit),
         NEW tag \in AuditTag, NEW f \in Field \cup {None},
         NEW payload \in Seq(Value \cup Wire), NEW size \in Nat, NEW counted \in Nat,
         Commit(below, fr, tag, f, payload, size, counted)
  PROVE  Inv'
<1> DEFINE bytes  == IF options.audit_mode = "Full" THEN size ELSE 0
           record == [tag |-> tag, field |-> f, payload |-> payload, bytes |-> bytes]
           new    == [fr EXCEPT !.msg = PushAudit(@, record)]
<1>1. bytes \in Nat
  OBVIOUS
<1>2. CASE Fail
  BY <1>2, FailOK
<1>3. CASE /\ stack' = Append(below, new)
           /\ audit_bytes' = audit_bytes + bytes
           /\ field_occurrences' = field_occurrences + counted
           /\ UNCHANGED <<options, status>>
  <2>1. record \in AuditRecord
    BY <1>1 DEF AuditRecord
  <2> HIDE DEF record
  <2>2. Fits(PushAudit(fr.msg, record), fr.depth, Limit)
    BY <2>1, FitsPushAudit DEF Later, Sound
  <2>3. Later(new, old, Limit)
    BY <2>2, LaterMessage
  <2>4. StackOK(Append(below, new), Limit)
    BY <2>3 DEF Resumes
  <2> HIDE DEF new, bytes
  <2>5. StackOK(stack', Limit) /\ Limit' = Limit /\ stack' # <<>>
    BY <1>3, <2>4 DEF Limit
  <2> QED BY <1>1, <1>3, <2>5 DEF Inv
<1> QED BY <1>2, <1>3 DEF Commit

-----------------------------------------------------------------------------
(* Every action preserves the invariant.                                   *)

\* At the head of the loop of the activation at the top.
LEMMA ReadingProperties ==
  ASSUME Inv, status = "decoding"
  PROVE  /\ Top \in Frame /\ Sound(Top, Limit) /\ Later(Top, Top, Limit)
         /\ Resumes(Below(1), Top, Limit) /\ Limit \in Nat /\ stack # <<>>
         /\ Fits(Top.msg, Top.depth, Limit)
BY TopProperties DEF Inv, Later, Sound

\* decode_with_options enters the root at depth 0.
LEMMA DecodeOK ==
  ASSUME Inv, NEW type \in RootTypes, NEW n \in Nat, Decode(type, n)
  PROVE  Inv'
<1> DEFINE fr == MessageFrame(type, None, 0, n, 0)
<1>1. CASE Fail
  BY <1>1, FailOK
<1>2. CASE stack' = <<fr>> /\ status' = "decoding"
           /\ UNCHANGED <<options, field_occurrences, audit_bytes>>
  <2>1. Limit \in Nat
    BY OptionsAssumption DEF Inv, Limit, DecodeOptions
  <2>2. fr \in Frame
    BY NewIsMessage, MessageSet, InputAssumption DEF Frame, MessageFrame
  <2>3. Fits(New, 0, Limit)
    BY <2>1, FreshFits
  <2>4. Sound(fr, Limit) /\ Outermost(fr)
    BY <2>3 DEF Sound, MessageFrame, Outermost
  <2> HIDE DEF fr
  <2>5. StackOK(<<>>, Limit)
    BY EmptySeq DEF StackOK
  <2>6. StackOK(Append(<<>>, fr), Limit)
    BY <2>2, <2>4, <2>5, PushOK
  <2> QED BY <1>2, <2>6 DEF Inv, Limit
<1> QED BY <1>1, <1>2 DEF Decode

\* An undeclared number of a closed enum is retained as unknown.
LEMMA UnknownEnumValueOK ==
  ASSUME Inv, NEW f \in Field, NEW v \in Scalar, UnknownEnumValue(f, v)
  PROVE  Inv'
<1> DEFINE entry == <<[field |-> f, payload |-> <<v>>]>>
           m     == KeepUnknown(Top.msg, entry)
           fr    == Consume([Top EXCEPT !.msg = m], 2)
<1>1. status = "decoding" /\ Top.left >= 2
  BY DEF UnknownEnumValue, Starts, Reading
<1>2. CASE Fail
  BY <1>2, FailOK
<1>3. CASE Commit(Below(1), fr, "UnknownField", f, <<v>>, 2, 1)
  <2>1. entry \in Seq(UnknownEntry) /\ <<v>> \in Seq(Value \cup Wire)
    BY DEF UnknownEntry, Value
  <2> HIDE DEF entry
  <2>2. Fits(m, Top.depth, Limit)
    BY <1>1, <2>1, ReadingProperties, FitsPushUnknown
  <2> HIDE DEF m
  <2>3. Later(fr, Top, Limit)
    BY <1>1, <2>2, ReadingProperties, LaterMessage, LaterConsume
  <2> HIDE DEF fr
  <2> QED BY <1>1, <1>3, <2>1, <2>3, ReadingProperties, CommitOK DEF AuditTag
<1> QED BY <1>2, <1>3 DEF UnknownEnumValue

\* A scalar occurrence displaces its oneof before it is inserted.
LEMMA SingularScalarOK ==
  ASSUME Inv, NEW f \in Field, NEW v \in Scalar, SingularScalar(f, v)
  PROVE  Inv'
<1> DEFINE duplicate == Duplicate(Top.msg, f)
           stored    == SetScalar(Displace(Top.msg, f), f, v)
           m         == DemoteDisplaced(stored, f, duplicate, FALSE)
           fr        == Consume([Top EXCEPT !.msg = m], 2)
           tag       == OccurrenceTag(duplicate, FALSE)
<1>1. status = "decoding" /\ Top.left >= 2 /\ f \in ScalarField
  BY DEF SingularScalar, Starts, Reading
<1>2. CASE Fail
  BY <1>2, FailOK
<1>3. CASE Commit(Below(1), fr, tag, f, <<v>>, 2, 1)
  <2>1. <<v>> \in Seq(Value \cup Wire) /\ tag \in AuditTag
    BY DEF Value, OccurrenceTag, AuditTag
  <2> HIDE DEF tag
  <2>2. Fits(stored, Top.depth, Limit)
    BY <1>1, ReadingProperties, FitsSetScalar
  <2> HIDE DEF stored
  <2>3. Fits(m, Top.depth, Limit)
    BY <2>2, FitsDemote
  <2> HIDE DEF m
  <2>4. Later(fr, Top, Limit)
    BY <1>1, <2>3, ReadingProperties, LaterMessage, LaterConsume
  <2> HIDE DEF fr
  <2> QED BY <1>1, <1>3, <2>1, <2>4, ReadingProperties, CommitOK
<1> QED BY <1>2, <1>3 DEF SingularScalar

\* The values of a repeated field, present or not.
LEMMA ItemsTyped ==
  ASSUME NEW m, IsMessage(m), NEW f \in RepeatedField
  PROVE  Items(m[<<>>].rep[f]) \in Seq(Value)
<1>1. m[<<>>].rep \in [RepeatedField -> Seq(Value) \cup {None}]
  BY DEF IsMessage, Node
<1> QED BY <1>1 DEF Items

\* An unpacked element touches only its own field.
LEMMA UnpackedElementOK ==
  ASSUME Inv, NEW f \in Field, NEW v \in Scalar, UnpackedElement(f, v)
  PROVE  Inv'
<1> DEFINE xs == Append(Items(Top.msg[<<>>].rep[f]), v)
           m  == SetRep(Top.msg, f, xs)
           fr == Consume([Top EXCEPT !.msg = m], 2)
<1>1. status = "decoding" /\ Top.left >= 2 /\ f \in RepeatedField
  BY DEF UnpackedElement, Starts, Reading
<1>2. CASE Fail
  BY <1>2, FailOK
<1>3. CASE Commit(Below(1), fr, "SchemaField", f, <<v>>, 2, 1)
  <2>1. <<v>> \in Seq(Value \cup Wire) /\ v \in Value
    BY DEF Value
  <2>2. xs \in Seq(Value)
    BY <1>1, <2>1, ReadingProperties, ItemsTyped, AppendProperties DEF Fits
  <2> HIDE DEF xs
  <2>3. Fits(m, Top.depth, Limit)
    BY <1>1, <2>2, ReadingProperties, FitsSetRep
  <2> HIDE DEF m
  <2>4. Later(fr, Top, Limit)
    BY <1>1, <2>3, ReadingProperties, LaterMessage, LaterConsume
  <2> HIDE DEF fr
  <2> QED BY <1>1, <1>3, <2>1, <2>4, ReadingProperties, CommitOK DEF AuditTag
<1> QED BY <1>2, <1>3 DEF UnpackedElement

\* The frame of a new activation.
LEMMA NewFrame ==
  ASSUME NEW max \in Nat, NEW type \in Type \cup {None}, NEW via \in Field \cup {None},
         NEW depth \in Nat, NEW left \in Nat, NEW size \in Nat, depth <= max
  PROVE  /\ MessageFrame(type, via, depth, left, size) \in Frame
         /\ Sound(MessageFrame(type, via, depth, left, size), max)
         /\ PackedFrame(via, depth, left, size) \in Frame
         /\ via \in RepeatedField => Sound(PackedFrame(via, depth, left, size), max)
         /\ EntryFrame(via, depth, left, size) \in Frame
         /\ via \in MapField => Sound(EntryFrame(via, depth, left, size), max)
         /\ GroupFrame(depth, left, size) \in Frame
         /\ left <= size => Sound(GroupFrame(depth, left, size), max)
<1>1. New \in Message /\ <<>> \in Seq(Scalar)
  BY NewIsMessage, MessageSet
<1>2. Fits(New, depth, max)
  BY FreshFits
<1> QED BY <1>1, <1>2 DEF Frame, Sound, MessageFrame, PackedFrame, EntryFrame, GroupFrame

\* A call: the caller goes past the occurrence and its callee starts.
LEMMA CallOK ==
  ASSUME Inv, status = "decoding", NEW fr, Later(fr, Top, Limit),
         NEW callee \in Frame, Sound(callee, Limit), Calls(fr, callee),
         Advance(Below(1) \o <<fr, callee>>)
  PROVE  Inv'
<1> DEFINE t == Append(Below(1), fr)
<1>1. StackOK(t, Limit)
  BY ReadingProperties DEF Resumes
<1>2. Below(1) \in Seq(Frame) /\ fr \in Frame
  <2>1. Below(1) \in Seq(Frame)
    BY PopOK, ReadingProperties DEF Inv, StackOK, Below
  <2> QED BY <2>1 DEF Later
<1>3. t # <<>> /\ t[Len(t)] = fr /\ Append(t, callee) = Below(1) \o <<fr, callee>>
  BY <1>2
<1> HIDE DEF t
<1>4. StackOK(Append(t, callee), Limit)
  BY <1>1, <1>3, PushOK
<1>5. Append(t, callee) # <<>>
  BY <1>1 DEF StackOK
<1> QED BY <1>3, <1>4, <1>5, AdvanceOK

\* An activation goes on without a record.
LEMMA GoOnOK ==
  ASSUME Inv, status = "decoding", NEW below, NEW fr, NEW old,
         Resumes(below, old, Limit), Later(fr, old, Limit),
         stack' = Append(below, fr), UNCHANGED <<options, status>>,
         field_occurrences' \in Nat, audit_bytes' \in Nat
  PROVE  Inv'
<1>1. StackOK(Append(below, fr), Limit)
  BY DEF Resumes
<1>2. Append(below, fr) # <<>>
  OBVIOUS
<1> QED BY <1>1, <1>2 DEF Inv, Limit

\* The loop over packed elements runs at the depth of its message.
LEMMA BeginPackedOK ==
  ASSUME Inv, NEW f \in Field, NEW n \in Nat, BeginPacked(f, n)
  PROVE  Inv'
<1> DEFINE fr     == Consume(Top, n + 2)
           callee == PackedFrame(f, Top.depth, n, n + 2)
<1>1. status = "decoding" /\ Top.left >= n + 2 /\ f \in RepeatedField
  BY DEF BeginPacked, Starts, Reading
<1>2. CASE Fail
  BY <1>2, FailOK
<1>3. CASE Advance(Below(1) \o <<fr, callee>>)
  <2>1. Later(fr, Top, Limit)
    BY <1>1, ReadingProperties, LaterConsume
  <2>2. callee \in Frame /\ Sound(callee, Limit)
    <3>1. Top.depth \in Nat /\ Top.depth <= Limit
      BY <1>1, ReadingProperties, DepthWithin DEF Frame
    <3> QED BY <1>1, <3>1, ReadingProperties, NewFrame
  <2>3. Calls(fr, callee)
    BY DEF Calls, PackedFrame, MessageFrame
  <2> HIDE DEF fr, callee
  <2> QED BY <1>1, <1>3, <2>1, <2>2, <2>3, CallOK
<1> QED BY <1>2, <1>3 DEF BeginPacked

\* A packed element touches only its own field.
LEMMA PackedElementOK ==
  ASSUME Inv, NEW v \in Scalar, PackedElement(v)
  PROVE  Inv'
<1> DEFINE f      == Top.via
           xs     == Items(Top.msg[<<>>].rep[f])
           entry  == <<[field |-> f, payload |-> <<v>>]>>
           stored == IF ClosedUnknown(f, v) THEN KeepUnknown(Top.msg, entry)
                     ELSE SetRep(Top.msg, f, Append(xs, v))
           items  == Append(Top.items, v)
           fr     == Consume([Top EXCEPT !.msg = stored, !.items = items], 1)
<1>1. status = "decoding" /\ Top.kind = "packed" /\ Top.left >= 1
  <2>1. Top.left \in Nat
    BY ReadingProperties DEF PackedElement, Packing, Frame
  <2> QED BY <2>1 DEF PackedElement, Packing
<1>2. CASE Fail
  BY <1>2, FailOK
<1>3. CASE /\ stack' = Append(Below(1), fr)
           /\ UNCHANGED <<options, field_occurrences, audit_bytes, status>>
  <2>1. f \in RepeatedField /\ f \in Field
    BY <1>1, ReadingProperties DEF Sound, RepeatedField
  <2>2. entry \in Seq(UnknownEntry)
    BY <2>1 DEF UnknownEntry, Value
  <2>3. Append(xs, v) \in Seq(Value)
    BY <1>1, <2>1, ReadingProperties, ItemsTyped, AppendProperties DEF Fits, Value
  <2>4. items \in Seq(Scalar)
    BY <1>1, ReadingProperties DEF Frame
  <2> HIDE DEF entry, xs, items
  <2>5. Fits(stored, Top.depth, Limit)
    BY <1>1, <2>1, <2>2, <2>3, ReadingProperties, FitsPushUnknown, FitsSetRep
  <2> HIDE DEF stored
  <2>6. Later([Top EXCEPT !.msg = stored, !.items = items], Top, Limit)
    BY <1>1, <2>4, <2>5, ReadingProperties, MessageSet DEF Later, Sound, SameCall, Frame, Fits
  <2>7. Later(fr, Top, Limit)
    BY <1>1, <2>6, LaterConsume, ReadingProperties DEF Frame
  <2> HIDE DEF fr
  <2> QED BY <1>1, <1>3, <2>7, ReadingProperties, GoOnOK DEF Inv
<1> QED BY <1>2, <1>3 DEF PackedElement

\* The packed elements join their field.
LEMMA EndPackedOK ==
  ASSUME Inv, EndPacked
  PROVE  Inv'
<1> DEFINE f    == Top.via
           node == Top.msg[<<>>]
           xs   == Items(Caller.msg[<<>>].rep[f]) \o Items(node.rep[f])
           m    == SetRep(PushUnknown(Caller.msg, node.unknown), f, xs)
           fr   == [Caller EXCEPT !.msg = m]
<1>1. status = "decoding" /\ Top.kind = "packed"
  BY DEF EndPacked, Packing
<1>2. f \in RepeatedField /\ f \in Field /\ Top \in Frame
  BY <1>1, ReadingProperties DEF Sound, RepeatedField
<1>3. Later(Caller, Caller, Limit) /\ Resumes(Below(2), Caller, Limit)
  BY <1>1, ReadingProperties, CallerProperties
<1>4. Commit(Below(2), fr, "SchemaField", f, Top.items, Top.size, 0)
  BY DEF EndPacked
<1>5. Top.items \in Seq(Value \cup Wire) /\ Top.size \in Nat
  <2>1. Top.items \in Seq(Scalar) /\ Top.size \in Nat
    BY <1>2 DEF Frame
  <2>2. Scalar \subseteq Value \cup Wire
    BY DEF Value
  <2> QED BY <2>1, <2>2, SeqMonotonic
<1>6. xs \in Seq(Value)
  <2>1. IsMessage(Caller.msg) /\ IsMessage(Top.msg)
    BY <1>1, <1>3, ReadingProperties DEF Later, Sound, Fits
  <2> QED BY <1>2, <2>1, ItemsTyped, ConcatProperties
<1>7. node.unknown \in Seq(UnknownEntry)
  BY <1>1, ReadingProperties DEF Fits, IsMessage, Node
<1> HIDE DEF xs, node, f
<1>8. Fits(m, Caller.depth, Limit)
  <2>1. Fits(PushUnknown(Caller.msg, node.unknown), Caller.depth, Limit)
    BY <1>3, <1>7, FitsPushUnknown DEF Later, Sound
  <2> QED BY <1>2, <1>6, <2>1, FitsSetRep
<1> HIDE DEF m
<1>9. Later(fr, Caller, Limit)
  BY <1>3, <1>8, LaterMessage
<1> HIDE DEF fr
<1> QED BY <1>1, <1>2, <1>3, <1>4, <1>5, <1>9, CommitOK DEF AuditTag

\* decode_inner on an embedded message is one level deeper, within the limit.
LEMMA BeginMessageOK ==
  ASSUME Inv, NEW f \in Field, NEW n \in Nat, BeginMessage(f, n)
  PROVE  Inv'
<1> DEFINE fr     == Consume(Top, n + 2)
           callee == MessageFrame(Desc[f].child, f, Top.depth + 1, n, n + 2)
<1>1. status = "decoding" /\ Top.left >= n + 2
  BY DEF BeginMessage, Starts, Reading
<1>2. CASE Fail
  BY <1>2, FailOK
<1>3. CASE Advance(Below(1) \o <<fr, callee>>) /\ ~RefusesNested(Top.depth + 1, n)
  <2>1. Later(fr, Top, Limit)
    BY <1>1, ReadingProperties, LaterConsume
  <2>2. Top.depth \in Nat /\ Top.depth + 1 <= Limit /\ Limit \in Nat
    BY <1>1, <1>3, ReadingProperties DEF Frame, RefusesNested, TooDeep, Limit
  <2>3. callee \in Frame /\ Sound(callee, Limit)
    <3>1. Desc[f].child \in Type \cup {None} /\ Top.depth + 1 \in Nat /\ n + 2 \in Nat
      BY <2>2, DescAssumption DEF FieldDescriptor
    <3> QED BY <2>2, <3>1, NewFrame
  <2>4. Calls(fr, callee)
    BY DEF Calls, MessageFrame, Consume
  <2> HIDE DEF fr, callee
  <2> QED BY <1>1, <1>3, <2>1, <2>3, <2>4, CallOK
<1> QED BY <1>2, <1>3 DEF BeginMessage

\* A singular embedded message is stored or merged on return.
LEMMA EndSubmessageOK ==
  ASSUME Inv, EndSubmessage
  PROVE  Inv'
<1> DEFINE f         == Top.via
           duplicate == Duplicate(Caller.msg, f)
           stored    == MergeMessage(Displace(Caller.msg, f), f, Top.msg)
           m         == DemoteDisplaced(stored, f, duplicate, duplicate)
           fr        == [Caller EXCEPT !.msg = m]
           tag       == OccurrenceTag(duplicate, duplicate)
<1>1. status = "decoding" /\ Top.kind = "message" /\ Len(stack) > 1
  BY DEF EndSubmessage, Ends
<1>2. f \in MessageField /\ f \in Field
  BY DEF EndSubmessage, MessageField, SingularField
<1>3. /\ Later(Caller, Caller, Limit) /\ Resumes(Below(2), Caller, Limit)
      /\ Calls(Caller, Top)
  BY <1>1, ReadingProperties, CallerProperties
<1>4. CASE Fail
  BY <1>4, FailOK
<1>5. CASE Commit(Below(2), fr, tag, f, <<>>, Top.size, 0)
  <2>1. tag \in AuditTag /\ <<>> \in Seq(Value \cup Wire)
    BY DEF OccurrenceTag, AuditTag
  <2>2. Top.size \in Nat /\ Caller.depth \in Nat /\ Limit \in Nat
    BY <1>1, <1>3, ReadingProperties DEF Frame, Later
  <2>3. Fits(Top.msg, Caller.depth + 1, Limit) /\ Fits(Caller.msg, Caller.depth, Limit)
    BY <1>1, <1>3, ReadingProperties DEF Calls, Later, Sound
  <2> HIDE DEF tag
  <2>4. Fits(stored, Caller.depth, Limit)
    BY <1>2, <2>2, <2>3, FitsMerge
  <2> HIDE DEF stored
  <2>5. Fits(m, Caller.depth, Limit)
    BY <2>4, FitsDemote
  <2> HIDE DEF m
  <2>6. Later(fr, Caller, Limit)
    BY <1>3, <2>5, LaterMessage
  <2> HIDE DEF fr, f
  <2> QED BY <1>1, <1>2, <1>3, <1>5, <2>1, <2>2, <2>6, CommitOK
<1> QED BY <1>4, <1>5 DEF EndSubmessage

\* An embedded message becomes an element on return.
LEMMA EndElementOK ==
  ASSUME Inv, EndElement
  PROVE  Inv'
<1> DEFINE f  == Top.via
           xs == Append(Items(Caller.msg[<<>>].rep[f]), Elem)
           m  == SetRep(Caller.msg, f, xs)
           fr == [Caller EXCEPT !.msg = m]
<1>1. status = "decoding" /\ Top.kind = "message" /\ Len(stack) > 1
  BY DEF EndElement, Ends
<1>2. f \in RepeatedField /\ f \in Field
  BY DEF EndElement, RepeatedField
<1>3. Later(Caller, Caller, Limit) /\ Resumes(Below(2), Caller, Limit)
  BY <1>1, ReadingProperties, CallerProperties
<1>4. CASE Fail
  BY <1>4, FailOK
<1>5. CASE Commit(Below(2), fr, "SchemaField", f, <<>>, Top.size, 0)
  <2>1. <<>> \in Seq(Value \cup Wire) /\ Top.size \in Nat
    BY <1>1, ReadingProperties DEF Frame
  <2>2. Fits(Caller.msg, Caller.depth, Limit)
    BY <1>3 DEF Later, Sound
  <2>3. xs \in Seq(Value)
    BY <1>2, <2>2, ItemsTyped, AppendProperties DEF Fits, Value
  <2> HIDE DEF xs
  <2>4. Fits(m, Caller.depth, Limit)
    BY <1>2, <2>2, <2>3, FitsSetRep
  <2> HIDE DEF m
  <2>5. Later(fr, Caller, Limit)
    BY <1>3, <2>4, LaterMessage
  <2> HIDE DEF fr, f
  <2> QED BY <1>1, <1>2, <1>3, <1>5, <2>1, <2>5, CommitOK DEF AuditTag
<1> QED BY <1>4, <1>5 DEF EndElement

\* The outermost call returns.
LEMMA EndRootOK ==
  ASSUME Inv, EndRoot
  PROVE  Inv'
<1>1. CASE Fail
  BY <1>1, FailOK
<1>2. CASE status' = "ok" /\ UNCHANGED <<options, field_occurrences, audit_bytes, stack>>
  BY <1>2 DEF Inv, Limit
<1> QED BY <1>1, <1>2 DEF EndRoot

\* decode_map_entry runs at the depth of its message.
LEMMA BeginEntryOK ==
  ASSUME Inv, NEW f \in Field, NEW n \in Nat, BeginEntry(f, n)
  PROVE  Inv'
<1> DEFINE fr     == Consume(Top, n + 2)
           callee == EntryFrame(f, Top.depth, n, n + 2)
<1>1. status = "decoding" /\ Top.left >= n + 2 /\ f \in MapField
  BY DEF BeginEntry, Starts, Reading
<1>2. CASE Fail
  BY <1>2, FailOK
<1>3. CASE Advance(Below(1) \o <<fr, callee>>)
  <2>1. Later(fr, Top, Limit)
    BY <1>1, ReadingProperties, LaterConsume
  <2>2. callee \in Frame /\ Sound(callee, Limit)
    <3>1. Top.depth \in Nat /\ Top.depth <= Limit
      BY <1>1, ReadingProperties, DepthWithin DEF Frame
    <3> QED BY <1>1, <3>1, ReadingProperties, NewFrame
  <2>3. Calls(fr, callee)
    BY DEF Calls, EntryFrame, MessageFrame
  <2> HIDE DEF fr, callee
  <2> QED BY <1>1, <1>3, <2>1, <2>2, <2>3, CallOK
<1> QED BY <1>2, <1>3 DEF BeginEntry

\* The key and the value of an entry do not matter to the invariant.
LEMMA LaterEntry ==
  ASSUME NEW fr, NEW max, Later(fr, fr, max),
         NEW k \in Scalar \cup {None}, NEW v \in Value \cup {None}
  PROVE  /\ Later([fr EXCEPT !.key = k], fr, max) /\ [fr EXCEPT !.key = k].left = fr.left
         /\ Later([fr EXCEPT !.val = v], fr, max) /\ [fr EXCEPT !.val = v].left = fr.left
BY DEF Later, Sound, SameCall, Frame

\* An entry reads its key.
LEMMA EntryKeyOK ==
  ASSUME Inv, NEW k \in Scalar, EntryKey(k)
  PROVE  Inv'
<1> DEFINE fr == Consume([Top EXCEPT !.key = k], 2)
<1>1. status = "decoding" /\ Top.left >= 2
  BY DEF EntryKey, Reading
<1>2. CASE Fail
  BY <1>2, FailOK
<1>3. CASE Advance(Append(Below(1), fr))
  <2>1. Later(fr, Top, Limit)
    BY <1>1, ReadingProperties, LaterEntry, LaterConsume
  <2> HIDE DEF fr
  <2> QED BY <1>1, <1>3, <2>1, ReadingProperties, GoOnOK DEF Advance, Inv
<1> QED BY <1>2, <1>3 DEF EntryKey

\* An entry reads its scalar value.
LEMMA EntryScalarOK ==
  ASSUME Inv, NEW v \in Scalar, EntryScalar(v)
  PROVE  Inv'
<1> DEFINE fr == Consume([Top EXCEPT !.val = v], 2)
<1>1. status = "decoding" /\ Top.left >= 2 /\ v \in Value
  BY DEF EntryScalar, Reading, Value
<1>2. CASE Fail
  BY <1>2, FailOK
<1>3. CASE Advance(Append(Below(1), fr))
  <2>1. Later(fr, Top, Limit)
    BY <1>1, ReadingProperties, LaterEntry, LaterConsume
  <2> HIDE DEF fr
  <2> QED BY <1>1, <1>3, <2>1, ReadingProperties, GoOnOK DEF Advance, Inv
<1> QED BY <1>2, <1>3 DEF EntryScalar

\* The message value of an entry is one level deeper, within the limit.
LEMMA BeginEntryMessageOK ==
  ASSUME Inv, NEW n \in Nat, BeginEntryMessage(n)
  PROVE  Inv'
<1> DEFINE fr     == Consume(Top, n + 2)
           callee == MessageFrame(Desc[Top.via].child, Top.via, Top.depth + 1, n, n + 2)
<1>1. status = "decoding" /\ Top.left >= n + 2 /\ Top.kind = "entry"
  BY DEF BeginEntryMessage, Reading
<1>2. CASE Fail
  BY <1>2, FailOK
<1>3. CASE Advance(Below(1) \o <<fr, callee>>) /\ ~RefusesNested(Top.depth + 1, n)
  <2>1. Later(fr, Top, Limit)
    BY <1>1, ReadingProperties, LaterConsume
  <2>2. Top.depth \in Nat /\ Top.depth + 1 <= Limit /\ Limit \in Nat
    BY <1>1, <1>3, ReadingProperties DEF Frame, RefusesNested, TooDeep, Limit
  <2>3. callee \in Frame /\ Sound(callee, Limit)
    <3>1. Top.via \in Field
      BY <1>1, ReadingProperties DEF Sound, MapField
    <3>2. /\ Desc[Top.via].child \in Type \cup {None}
          /\ Top.depth + 1 \in Nat /\ n + 2 \in Nat
      BY <2>2, <3>1, DescAssumption DEF FieldDescriptor
    <3> QED BY <2>2, <3>1, <3>2, NewFrame
  <2>4. Calls(fr, callee)
    BY DEF Calls, MessageFrame, Consume
  <2> HIDE DEF fr, callee
  <2> QED BY <1>1, <1>3, <2>1, <2>3, <2>4, CallOK
<1> QED BY <1>2, <1>3 DEF BeginEntryMessage

\* The message value of an entry is complete.
LEMMA EndEntryMessageOK ==
  ASSUME Inv, EndEntryMessage
  PROVE  Inv'
<1> DEFINE fr == [Caller EXCEPT !.val = Elem]
<1>1. status = "decoding" /\ Top.via \in Field
  BY DEF EndEntryMessage, Ends, MapField
<1>2. Later(Caller, Caller, Limit) /\ Resumes(Below(2), Caller, Limit)
  BY <1>1, ReadingProperties, CallerProperties, ValueAssumption
<1>3. CASE Fail
  BY <1>3, FailOK
<1>4. CASE /\ stack' = Append(Below(2), fr)
           /\ UNCHANGED <<options, field_occurrences, audit_bytes, status>>
  <2>1. Later(fr, Caller, Limit)
    BY <1>2, LaterEntry DEF Value
  <2> HIDE DEF fr
  <2> QED BY <1>1, <1>2, <1>4, <2>1, GoOnOK DEF Inv
<1> QED BY <1>3, <1>4 DEF EndEntryMessage

\* What decode_map_entry returns, and the map with it.
LEMMA EntryTyped ==
  ASSUME NEW fr \in Frame, NEW entries \in Entries
  PROVE  /\ EntryPair(fr) \in Seq(Value \cup Wire)
         /\ PutEntry(entries, EntryPair(fr)[1], EntryPair(fr)[2]) \in Entries
<1> DEFINE k == EntryPair(fr)[1]
           v == EntryPair(fr)[2]
<1>1. k \in Scalar
  BY ValueAssumption DEF Frame, EntryPair
<1>2. v \in Value
  BY ValueAssumption DEF Frame, EntryPair, Value
<1>3. EntryPair(fr) = <<k, v>>
  BY DEF EntryPair
<1> HIDE DEF k, v
<1>4. PutEntry(entries, k, v) \in Entries
  BY <1>1, <1>2 DEF PutEntry, Entries
<1>5. <<k, v>> \in Seq(Value \cup Wire)
  BY <1>1, <1>2 DEF Value
<1> QED BY <1>3, <1>4, <1>5 DEF k, v

\* The entry joins its map.
LEMMA EndEntryOK ==
  ASSUME Inv, EndEntry
  PROVE  Inv'
<1> DEFINE f         == Top.via
           pair      == EntryPair(Top)
           entries   == Caller.msg[<<>>].map[f]
           duplicate == pair[1] \in Keys(entries)
           stored    == SetMap(Caller.msg, f, PutEntry(entries, pair[1], pair[2]))
           m         == DemoteDisplaced(stored, f, duplicate, FALSE)
           fr        == [Caller EXCEPT !.msg = m]
           tag       == OccurrenceTag(duplicate, FALSE)
<1>1. status = "decoding" /\ Top.kind = "entry"
  BY DEF EndEntry
<1>2. f \in MapField /\ f \in Field /\ Top \in Frame
  BY <1>1, ReadingProperties DEF Sound, MapField
<1>3. Later(Caller, Caller, Limit) /\ Resumes(Below(2), Caller, Limit)
  BY <1>1, ReadingProperties, CallerProperties
<1>4. CASE Fail
  BY <1>4, FailOK
<1>5. CASE Commit(Below(2), fr, tag, f, pair, Top.size, 0)
  <2>1. tag \in AuditTag /\ Top.size \in Nat
    BY <1>2 DEF OccurrenceTag, AuditTag, Frame
  <2>2. Fits(Caller.msg, Caller.depth, Limit)
    BY <1>3 DEF Later, Sound
  <2>3. entries \in Entries
    <3>1. Caller.msg[<<>>].map \in [MapField -> Entries]
      BY <2>2 DEF Fits, IsMessage, Node
    <3> QED BY <1>2, <3>1
  <2>4. pair \in Seq(Value \cup Wire) /\ PutEntry(entries, pair[1], pair[2]) \in Entries
    BY <1>2, <2>3, EntryTyped
  <2> HIDE DEF tag, entries, pair
  <2>5. Fits(stored, Caller.depth, Limit)
    BY <1>2, <2>2, <2>4, FitsSetMap
  <2> HIDE DEF stored
  <2>6. Fits(m, Caller.depth, Limit)
    BY <2>5, FitsDemote
  <2> HIDE DEF m
  <2>7. Later(fr, Caller, Limit)
    BY <1>3, <2>6, LaterMessage
  <2> HIDE DEF fr, f
  <2> QED BY <1>1, <1>2, <1>3, <1>5, <2>1, <2>4, <2>7, CommitOK
<1> QED BY <1>4, <1>5 DEF EndEntry

\* An unknown occurrence is recorded in the frame of an activation.
LEMMA CommitUnknownOK ==
  ASSUME Inv, status = "decoding", NEW below, NEW fr, NEW old,
         Resumes(below, old, Limit), Later(fr, old, Limit),
         NEW wire \in Wire, NEW size \in Nat, NEW counted \in Nat,
         CommitUnknown(below, fr, wire, size, counted)
  PROVE  Inv'
<1> DEFINE entry == <<[field |-> None, payload |-> <<wire>>]>>
           m     == KeepUnknown(fr.msg, entry)
           new   == [fr EXCEPT !.msg = m]
<1>1. CASE Fail
  BY <1>1, FailOK
<1>2. CASE Commit(below, new, UnknownTag(wire), None, <<wire>>, size, counted)
  <2>1. entry \in Seq(UnknownEntry) /\ <<wire>> \in Seq(Value \cup Wire)
    BY DEF UnknownEntry
  <2>2. UnknownTag(wire) \in AuditTag
    BY DEF UnknownTag, AuditTag
  <2> HIDE DEF entry
  <2>3. Fits(m, fr.depth, Limit)
    BY <2>1, FitsPushUnknown DEF Later, Sound
  <2> HIDE DEF m
  <2>4. Later(new, old, Limit)
    BY <2>3, LaterMessage
  <2> HIDE DEF new
  <2> QED BY <1>2, <2>1, <2>2, <2>4, CommitOK
<1> QED BY <1>1, <1>2 DEF CommitUnknown

\* A skipped occurrence touches no field.
LEMMA SkipOK ==
  ASSUME Inv, status = "decoding", NEW wire \in Wire, NEW size \in Nat,
         size <= Top.left, Skip(wire, size)
  PROVE  Inv'
<1>1. Later(Consume(Top, size), Top, Limit)
  BY ReadingProperties, LaterConsume
<1>2. CASE CommitUnknown(Below(1), Consume(Top, size), wire, size, 1)
  BY <1>1, <1>2, ReadingProperties, CommitUnknownOK
<1>3. CASE Advance(Append(Below(1), Consume(Top, size)))
  BY <1>1, <1>3, ReadingProperties, GoOnOK DEF Advance, Inv
<1> QED BY <1>2, <1>3 DEF Skip

\* An unknown scalar.
LEMMA SkipScalarOK ==
  ASSUME Inv, SkipScalar
  PROVE  Inv'
BY SkipOK DEF SkipScalar, Reading, Wire

\* An unknown length-delimited value.
LEMMA SkipBytesOK ==
  ASSUME Inv, NEW n \in Nat, SkipBytes(n)
  PROVE  Inv'
<1>1. CASE Fail
  BY <1>1, FailOK
<1>2. CASE Skip(WireBytes, n + 2)
  BY <1>2, SkipOK DEF SkipBytes, Reading, Wire
<1> QED BY <1>1, <1>2 DEF SkipBytes

\* skip_decode on a group is one level deeper, within the limit.
LEMMA BeginGroupOK ==
  ASSUME Inv, BeginGroup
  PROVE  Inv'
<1> DEFINE callee == GroupFrame(Top.depth + 1, Top.left - 1, Top.left)
<1>1. status = "decoding" /\ Top.left >= 1
  BY DEF BeginGroup, Reading
<1>2. CASE Fail
  BY <1>2, FailOK
<1>3. CASE Advance(Append(stack, callee)) /\ ~TooDeep(Top.depth + 1)
  <2>1. /\ Top.depth + 1 \in Nat /\ Top.depth + 1 <= Limit /\ Limit \in Nat
        /\ Top.left \in Nat /\ Top.left - 1 \in Nat /\ Top.left - 1 <= Top.left
    BY <1>1, <1>3, ReadingProperties DEF Frame, TooDeep, Limit
  <2>2. callee \in Frame /\ Sound(callee, Limit)
    BY <2>1, NewFrame
  <2>3. Calls(Top, callee)
    BY DEF Calls, GroupFrame, MessageFrame
  <2> HIDE DEF callee
  <2>4. StackOK(Append(stack, callee), Limit)
    BY <1>1, <2>2, <2>3, ReadingProperties, PushOK DEF Inv, Top
  <2>5. Append(stack, callee) # <<>>
    OBVIOUS
  <2> QED BY <1>3, <2>4, <2>5, AdvanceOK
<1> QED BY <1>2, <1>3 DEF BeginGroup

\* The caller goes on after the bytes of the group.
LEMMA EndGroupOK ==
  ASSUME Inv, EndGroup
  PROVE  Inv'
<1> DEFINE left   == Top.left - 1
           caller == [Caller EXCEPT !.left = left]
<1>1. status = "decoding" /\ Top.kind = "group" /\ Top.left >= 1
  BY DEF EndGroup, Reading
<1>2. /\ Later(Caller, Caller, Limit) /\ Resumes(Below(2), Caller, Limit)
      /\ Calls(Caller, Top)
  BY <1>1, ReadingProperties, CallerProperties
<1>3. /\ left \in Nat /\ Caller.left \in Nat /\ Top.size = Caller.left
      /\ left <= Caller.left /\ Top.size - left \in Nat
  BY <1>1, <1>2, ReadingProperties DEF Frame, Sound, Calls, Later
<1>4. Later(caller, Caller, Limit)
  <2>1. Caller.left - (Caller.left - left) = left
    BY <1>3
  <2>2. caller = Consume(Caller, Caller.left - left)
    BY <2>1 DEF Consume
  <2> HIDE DEF left, caller
  <2> QED BY <1>2, <1>3, <2>2, LaterConsume
<1> HIDE DEF left, caller
<1>5. CASE CommitUnknown(Below(2), caller, WireGroup, Top.size - left, 1)
  BY <1>1, <1>2, <1>3, <1>4, <1>5, CommitUnknownOK DEF Wire
<1>6. CASE Advance(Append(Below(2), caller))
  BY <1>1, <1>2, <1>4, <1>6, GoOnOK DEF Advance, Inv
<1> QED BY <1>5, <1>6 DEF EndGroup, left, caller

-----------------------------------------------------------------------------
(* The theorems.                                                           *)

\* Inv is inductive: the call stack keeps its shape, and every activation its
\* depth and its oneofs, in every step of the decoder.
THEOREM Invariance == Spec => []Inv
<1>1. Init => Inv
  BY EmptySeq DEF Init, Inv, StackOK
<1>2. Inv /\ [Next]_vars => Inv'
  <2> SUFFICES ASSUME Inv, [Next]_vars PROVE Inv'
    OBVIOUS
  <2>0. 0 .. MaxInput \subseteq Nat
    BY InputAssumption
  <2>1. ASSUME NEW type \in RootTypes, NEW n \in 0 .. MaxInput, Decode(type, n) PROVE Inv'
    BY <2>0, <2>1, DecodeOK
  <2>2. ASSUME CountField \/ Malformed \/ Unterminated PROVE Inv'
    BY <2>2, FailOK DEF CountField, Malformed, Unterminated
  <2>3. ASSUME NEW f \in Field, NEW v \in Scalar,
               UnknownEnumValue(f, v) \/ SingularScalar(f, v) \/ UnpackedElement(f, v)
        PROVE  Inv'
    BY <2>3, UnknownEnumValueOK, SingularScalarOK, UnpackedElementOK
  <2>4. ASSUME NEW f \in Field, NEW n \in 0 .. MaxInput,
               BeginPacked(f, n) \/ BeginMessage(f, n) \/ BeginEntry(f, n)
        PROVE  Inv'
    BY <2>0, <2>4, BeginPackedOK, BeginMessageOK, BeginEntryOK
  <2>5. ASSUME NEW v \in Scalar, PackedElement(v) \/ EntryKey(v) \/ EntryScalar(v)
        PROVE  Inv'
    BY <2>5, PackedElementOK, EntryKeyOK, EntryScalarOK
  <2>6. ASSUME EndPacked \/ EndSubmessage \/ EndElement \/ EndRoot PROVE Inv'
    BY <2>6, EndPackedOK, EndSubmessageOK, EndElementOK, EndRootOK
  <2>7. ASSUME NEW n \in 0 .. MaxInput, BeginEntryMessage(n) \/ SkipBytes(n) PROVE Inv'
    BY <2>0, <2>7, BeginEntryMessageOK, SkipBytesOK
  <2>8. ASSUME EndEntryMessage \/ EndEntry \/ SkipScalar \/ BeginGroup \/ EndGroup
        PROVE  Inv'
    BY <2>8, EndEntryMessageOK, EndEntryOK, SkipScalarOK, BeginGroupOK, EndGroupOK
  <2>9. ASSUME UNCHANGED vars PROVE Inv'
    BY <2>9 DEF Inv, vars, Limit
  <2>10. ASSUME Terminated PROVE Inv'
    BY <2>9, <2>10 DEF Terminated
  <2> QED
    BY <2>1, <2>2, <2>3, <2>4, <2>5, <2>6, <2>7, <2>8, <2>9, <2>10 DEF Next
<1> QED BY <1>1, <1>2, PTL DEF Spec

\* Every frame's message stays a tree of nodes of the shapes the descriptors
\* give their fields.
THEOREM TypeCorrectness == Spec => []TypeOK
<1>1. Inv => TypeOK
  <2> SUFFICES ASSUME Inv PROVE TypeOK
    OBVIOUS
  <2>1. stack \in Seq(Frame)
    BY DEF Inv, StackOK
  <2>2. \A i \in DOMAIN stack : IsFrame(stack[i])
    BY <2>1, FrameSet
  <2>3. stack \in Seq(Range(stack))
    BY <2>1, LenProperties, SeqDef DEF Range
  <2> QED BY <2>2, <2>3 DEF TypeOK, Inv
<1> QED BY <1>1, Invariance, PTL

\* No activation and no submessage, merged or not, is deeper than the limit,
\* for every schema and every sequence of occurrences.
THEOREM RecursionIsBounded == Spec => []DepthBounded
<1>1. Inv => DepthBounded
  BY LenProperties DEF Inv, StackOK, Sound, Fits, DepthBounded, Limit
<1> QED BY <1>1, Invariance, PTL

\* A message under decoding never holds two members of one oneof.
THEOREM OneofsAreExclusive == Spec => []OneofExclusive
<1>1. Inv => OneofExclusive
  BY LenProperties DEF Inv, StackOK, Sound, Fits, OneofExclusive
<1> QED BY <1>1, Invariance, PTL
=============================================================================
