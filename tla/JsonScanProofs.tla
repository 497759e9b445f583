--------------------------- MODULE JsonScanProofs ---------------------------
(***************************************************************************)
(* The scan of a JSON text keeps within its limits, whatever the text and  *)
(* whatever the limits.                                                    *)
(***************************************************************************)
EXTENDS JsonScan, FiniteSetTheorems, TLAPS

\* Cardinalities are numbers: the keys of every object are finitely many.
NamesFinite == \A i \in DOMAIN stack : IsFiniteSet(stack[i].names)

\* The types of what the operators on the innermost frame read.
LEMMA LimitTypes ==
  ASSUME limits \in Limits
  PROVE  /\ limits.max_nesting_depth \in Nat
         /\ limits.max_object_fields \in Nat
         /\ limits.max_array_values \in Nat
BY ScanAssumption

\* A scan that is not at the end reads a token.
LEMMA TokenTypes ==
  ASSUME text \in Texts, cursor \in 1 .. Len(text) + 1, ~AtEnd
  PROVE  /\ text \in Seq(Token) /\ cursor \in 1 .. Len(text)
         /\ Current \in Token
<1>1. text \in Seq(Token) /\ Len(text) \in Nat
  BY ScanAssumption
<1>2. cursor \in 1 .. Len(text)
  BY <1>1 DEF AtEnd
<1> QED BY <1>1, <1>2 DEF Current

\* The innermost frame of a scan, and those outside it.
LEMMA InnermostFrame ==
  ASSUME stack \in Seq(Frame), stack # <<>>
  PROVE  /\ Len(stack) \in Nat \ {0} /\ Top \in Frame
         /\ Outer \in Seq(Frame) /\ Len(Outer) = Len(stack) - 1
         /\ \A i \in DOMAIN Outer : i \in DOMAIN stack /\ Outer[i] = stack[i]
<1>1. Len(stack) \in Nat \ {0}
  OBVIOUS
<1>2. Top \in Frame
  BY <1>1 DEF Top
<1>3. Outer = [i \in 1 .. Len(stack) - 1 |-> stack[i]]
  BY <1>1 DEF Outer
<1>4. Outer \in Seq(Frame) /\ Len(Outer) = Len(stack) - 1
  BY <1>1, <1>3
<1> QED BY <1>1, <1>2, <1>3, <1>4

\* Pushing a frame, leaving one and changing the innermost.
LEMMA Pushed ==
  ASSUME stack \in Seq(Frame), NEW f \in Frame
  PROVE  /\ Append(stack, f) \in Seq(Frame) /\ Append(stack, f) # <<>>
         /\ Len(Append(stack, f)) = Len(stack) + 1
         /\ Append(stack, f)[Len(Append(stack, f))] = f
         /\ \A i \in DOMAIN Append(stack, f) :
              \/ i \in DOMAIN stack /\ Append(stack, f)[i] = stack[i]
              \/ Append(stack, f)[i] = f
OBVIOUS

\* The type invariant is preserved by every step.
LEMMA TypeInductive == TypeOK /\ [Next]_vars => TypeOK'
<1> SUFFICES ASSUME TypeOK, [Next]_vars PROVE TypeOK'
  OBVIOUS
<1>0. /\ text \in Texts /\ limits \in Limits /\ cursor \in 1 .. Len(text) + 1
      /\ stack \in Seq(Frame) /\ text \in Seq(Token) /\ Len(text) \in Nat
  BY ScanAssumption DEF TypeOK
<1>1. CASE Fail
  BY <1>1 DEF TypeOK, Fail, Top
<1>2. CASE OpenObject \/ OpenArray
  <2> PICK f \in Frame, kind \in {"object", "array"} :
        /\ f.kind = kind /\ stack' = Append(stack, f)
        /\ Read(1, IF kind = "object" THEN "member" ELSE "element") /\ ~AtEnd
    <3>1. CASE OpenObject
      <4>1. [kind |-> "object", names |-> {}, values |-> 0] \in Frame
        BY DEF Frame
      <4> QED BY <3>1, <4>1 DEF OpenObject, NextIs
    <3>2. CASE OpenArray
      <4>1. [kind |-> "array", names |-> {}, values |-> 0] \in Frame
        BY DEF Frame
      <4> QED BY <3>2, <4>1 DEF OpenArray, NextIs
    <3> QED BY <1>2, <3>1, <3>2
  <2>1. stack' \in Seq(Frame) /\ stack' # <<>> /\ stack'[Len(stack')] = f
    BY <1>0, Pushed
  <2>2. cursor \in 1 .. Len(text)
    BY <1>0, TokenTypes
  <2> QED BY <1>0, <2>1, <2>2 DEF TypeOK, Read, Top
<1>3. CASE StringValue
  <2>1. cursor \in 1 .. Len(text)
    BY <1>0, <1>3, TokenTypes DEF StringValue, NextIs
  <2> QED BY <1>0, <1>3, <2>1 DEF StringValue, TypeOK, Read
<1>4. CASE Scalar
  <2> PICK i \in cursor .. Len(text) + 1 : Read(i - cursor, "after") /\ UNCHANGED stack
    BY <1>4 DEF Scalar
  <2>1. cursor + (i - cursor) \in 1 .. Len(text) + 1
    BY <1>0
  <2> QED BY <1>0, <2>1 DEF TypeOK, Read
<1>5. CASE CloseObject \/ CloseArray \/ Close
  <2>1. stack # <<>> /\ ~AtEnd /\ stack' = Outer /\ Read(1, "after")
    BY <1>5 DEF CloseObject, CloseArray, Close, AtMember, AtElement, AtSeparator, NextIs, TypeOK
  <2>2. cursor \in 1 .. Len(text)
    BY <1>0, <2>1, TokenTypes
  <2>3. stack' \in Seq(Frame)
    BY <1>0, <2>1, InnermostFrame
  <2> QED BY <1>0, <2>1, <2>2, <2>3 DEF TypeOK, Read
<1>6. CASE Member
  <2>1. stack # <<>> /\ Top \in Frame /\ Len(stack) \in Nat \ {0}
    BY <1>0, <1>6, InnermostFrame DEF Member, AtMember, TypeOK
  <2>2. cursor + 2 \in 1 .. Len(text) + 1 /\ Current \in Token /\ Current.key \in Key
    <3>1. ~AtEnd /\ cursor < Len(text) /\ Current.key # None
      BY <1>6 DEF Member, MemberFollows, NextIs
    <3>2. Current \in Token
      BY <1>0, <3>1, TokenTypes
    <3> QED BY <1>0, <3>1, <3>2 DEF Token
  <2>3. [Top EXCEPT !.names = @ \cup {Current.key}] \in Frame
    BY <2>1, <2>2 DEF Frame
  <2>4. stack' \in Seq(Frame)
    <3>1. stack' = [stack EXCEPT ![Len(stack)] = [Top EXCEPT !.names = @ \cup {Current.key}]]
      BY <1>6 DEF Member, Top
    <3> QED BY <1>0, <2>1, <2>3, <3>1
  <2> QED BY <1>0, <1>6, <2>2, <2>4 DEF Member, TypeOK, Read
<1>7. CASE Element
  <2>1. stack # <<>> /\ Top \in Frame /\ Len(stack) \in Nat \ {0}
    BY <1>0, <1>7, InnermostFrame DEF Element, AtElement, TypeOK
  <2>2. [Top EXCEPT !.values = @ + 1] \in Frame
    BY <2>1 DEF Frame
  <2>3. stack' \in Seq(Frame)
    BY <1>0, <1>7, <2>1, <2>2 DEF Element, Top
  <2> QED BY <1>0, <1>7, <2>3 DEF Element, TypeOK, Read
<1>8. CASE Separator
  <2>1. stack # <<>> /\ Top \in Frame
    BY <1>0, <1>8, InnermostFrame DEF Separator, AtSeparator
  <2>2. cursor \in 1 .. Len(text)
    BY <1>0, <1>8, TokenTypes DEF Separator, NextIs
  <2>3. Top.kind \in {"object", "array"}
    BY <2>1 DEF Frame
  <2>4. /\ cursor' = cursor + 1 /\ text' = text /\ limits' = limits /\ status' = status
        /\ stack' = stack
        /\ stage' = IF Top.kind = "object" THEN "member" ELSE "element"
    BY <1>8 DEF Separator, Read
  <2> QED BY <1>0, <2>1, <2>2, <2>3, <2>4 DEF TypeOK, Top
<1>9. CASE Finish
  BY <1>9 DEF Finish, TypeOK
<1>10. CASE UNCHANGED vars
  BY <1>10 DEF vars, TypeOK, Top
<1> QED
  BY <1>1, <1>2, <1>3, <1>4, <1>5, <1>6, <1>7, <1>8, <1>9, <1>10
     DEF Next, Step, Terminated, RefuseValue, RefuseMember, RefuseElement, RefuseSeparator

-----------------------------------------------------------------------------

\* One frame is within the limits.
Bounded(f) ==
  /\ IsFiniteSet(f.names)
  /\ Cardinality(f.names) <= limits.max_object_fields
  /\ f.values <= limits.max_array_values

\* What a step makes of the stack leaves every frame within the limits.
LEMMA BoundedInductive ==
  TypeOK /\ ScanBounded /\ NamesFinite /\ [Next]_vars => ScanBounded' /\ NamesFinite'
<1> SUFFICES ASSUME TypeOK, ScanBounded, NamesFinite, [Next]_vars
             PROVE  ScanBounded' /\ NamesFinite'
  OBVIOUS
<1>0. /\ limits \in Limits /\ stack \in Seq(Frame) /\ limits' = limits
      /\ limits.max_nesting_depth \in Nat /\ limits.max_object_fields \in Nat
      /\ limits.max_array_values \in Nat
  <2>1. limits' = limits
    BY DEF Next, Step, Terminated, vars, Fail, Read, RefuseValue, OpenObject, OpenArray,
           StringValue, Scalar, CloseObject, Member, RefuseMember, CloseArray, Element,
           RefuseElement, Separator, Close, RefuseSeparator, Finish
  <2> QED BY <2>1, LimitTypes DEF TypeOK
<1>1. \A i \in DOMAIN stack : Bounded(stack[i])
  BY DEF ScanBounded, NamesFinite, Bounded
<1>c. cursor' <= Len(text') + 1
  <2>1. TypeOK'
    BY TypeInductive
  <2> QED BY <2>1 DEF TypeOK
<1>2. SUFFICES /\ Len(stack') <= limits.max_nesting_depth + 1
               /\ \A i \in DOMAIN stack' : Bounded(stack'[i])
  BY <1>0, <1>c DEF ScanBounded, NamesFinite, Bounded
<1>3. Len(stack) <= limits.max_nesting_depth + 1
  BY DEF ScanBounded
<1>4. CASE OpenObject \/ OpenArray
  <2> PICK f \in Frame : stack' = Append(stack, f) /\ f.names = {} /\ f.values = 0 /\ ~TooDeep
    <3>1. [kind |-> "object", names |-> {}, values |-> 0] \in Frame
      BY DEF Frame
    <3>2. [kind |-> "array", names |-> {}, values |-> 0] \in Frame
      BY DEF Frame
    <3> QED BY <1>4, <3>1, <3>2 DEF OpenObject, OpenArray
  <2>1. Bounded(f)
    BY <1>0, FS_EmptySet DEF Bounded
  <2>2. Len(stack) \in Nat /\ Len(stack) <= limits.max_nesting_depth
    BY <1>0 DEF TooDeep
  <2> QED BY <1>0, <1>1, <2>1, <2>2, Pushed
<1>5. CASE CloseObject \/ CloseArray \/ Close
  <2>1. stack # <<>> /\ stack' = Outer
    BY <1>5 DEF CloseObject, CloseArray, Close, AtMember, AtElement, AtSeparator, TypeOK
  <2> QED BY <1>0, <1>1, <1>3, <2>1, InnermostFrame
<1>6. CASE Member
  <2>1. stack # <<>> /\ Top \in Frame /\ Len(stack) \in Nat \ {0}
    BY <1>0, <1>6, InnermostFrame DEF Member, AtMember, TypeOK
  <2> DEFINE f == [Top EXCEPT !.names = @ \cup {Current.key}]
  <2>2. /\ stack' = [stack EXCEPT ![Len(stack)] = f]
        /\ Cardinality(Top.names) < limits.max_object_fields
    <3>1. Bounded(Top)
      BY <1>0, <1>1, <2>1 DEF Top
    <3>2. Cardinality(Top.names) \in Nat
      BY <3>1, FS_CardinalityType DEF Bounded
    <3>3. stack' = [stack EXCEPT ![Len(stack)] = f]
      BY <1>6 DEF Member, Top
    <3>4. ~(Cardinality(Top.names) >= limits.max_object_fields)
      BY <1>6 DEF Member, Full
    <3> QED BY <1>0, <3>2, <3>3, <3>4
  <2>3. Bounded(f)
    <3>1. Bounded(Top)
      BY <1>0, <1>1, <2>1 DEF Top
    <3>2. /\ IsFiniteSet(Top.names \cup {Current.key})
          /\ \/ Cardinality(Top.names \cup {Current.key}) = Cardinality(Top.names)
             \/ Cardinality(Top.names \cup {Current.key}) = Cardinality(Top.names) + 1
      BY <3>1, FS_AddElement DEF Bounded
    <3>3. f.names = Top.names \cup {Current.key} /\ f.values = Top.values
      BY <2>1 DEF Frame
    <3>4. Cardinality(Top.names) \in Nat
      BY <3>1, FS_CardinalityType DEF Bounded
    <3> QED BY <1>0, <2>2, <3>1, <3>2, <3>3, <3>4 DEF Bounded
  <2>4. Len(stack') = Len(stack) /\ DOMAIN stack' = DOMAIN stack
    BY <1>0, <2>1, <2>2
  <2>5. \A i \in DOMAIN stack' : stack'[i] = IF i = Len(stack) THEN f ELSE stack[i]
    BY <1>0, <2>2, <2>4
  <2> QED BY <1>1, <1>3, <2>3, <2>4, <2>5
<1>7. CASE Element
  <2>1. stack # <<>> /\ Top \in Frame /\ Len(stack) \in Nat \ {0}
    BY <1>0, <1>7, InnermostFrame DEF Element, AtElement, TypeOK
  <2> DEFINE f == [Top EXCEPT !.values = @ + 1]
  <2>2. stack' = [stack EXCEPT ![Len(stack)] = f] /\ ~Crowded
    BY <1>0, <1>7, <2>1 DEF Element, Top
  <2>3. Bounded(f)
    <3>1. Bounded(Top)
      BY <1>0, <1>1, <2>1 DEF Top
    <3>2. f.names = Top.names /\ f.values = Top.values + 1 /\ Top.values \in Nat
      BY <2>1 DEF Frame
    <3> QED BY <1>0, <2>2, <3>1, <3>2 DEF Bounded, Crowded
  <2>4. Len(stack') = Len(stack) /\ DOMAIN stack' = DOMAIN stack
    BY <1>0, <2>1, <2>2
  <2>5. \A i \in DOMAIN stack' : stack'[i] = IF i = Len(stack) THEN f ELSE stack[i]
    BY <1>0, <2>2, <2>4
  <2> QED BY <1>1, <1>3, <2>3, <2>4, <2>5
<1>8. CASE UNCHANGED stack
  BY <1>1, <1>3, <1>8
<1> QED
  BY <1>4, <1>5, <1>6, <1>7, <1>8
     DEF Next, Step, Terminated, vars, Fail, RefuseValue, StringValue, Scalar, RefuseMember,
         RefuseElement, Separator, RefuseSeparator, Finish

\* The scan starts at the first token with nothing open.
LEMMA Initially == Init => TypeOK /\ ScanBounded /\ NamesFinite
<1> SUFFICES ASSUME Init PROVE TypeOK /\ ScanBounded /\ NamesFinite
  OBVIOUS
<1>1. text \in Seq(Token) /\ Len(text) \in Nat
  BY ScanAssumption DEF Init
<1>2. stack = <<>> /\ stack \in Seq(Frame) /\ DOMAIN stack = {}
  BY DEF Init
<1>3. limits.max_nesting_depth \in Nat
  BY LimitTypes DEF Init
<1> QED BY <1>1, <1>2, <1>3 DEF Init, TypeOK, ScanBounded, NamesFinite

\* For all texts, well formed or not, and all limits: the scan never reads
\* a token that is not there or a frame that is not there.
THEOREM ScanTyped == Spec => []TypeOK
<1>1. Init => TypeOK
  BY Initially
<1>2. TypeOK /\ [Next]_vars => TypeOK'
  BY TypeInductive
<1> QED BY <1>1, <1>2, PTL DEF Spec

\* For all texts and all limits: the recursion of the scan, the keys it
\* remembers and the values it counts stay within the limits.
THEOREM ScanKeepsLimits == Spec => []ScanBounded
<1> DEFINE IInv == TypeOK /\ ScanBounded /\ NamesFinite
<1>1. Init => IInv
  BY Initially
<1>2. IInv /\ [Next]_vars => IInv'
  BY TypeInductive, BoundedInductive
<1>3. IInv => ScanBounded
  OBVIOUS
<1> QED BY <1>1, <1>2, <1>3, PTL DEF Spec
=============================================================================
