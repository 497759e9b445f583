---------------------------- MODULE ParsingProofs ----------------------------
(***************************************************************************)
(* From sources to a schema, for every source.  The recursion of the       *)
(* descriptor builder is bounded by max_nesting_depth:                     *)
(* validate_source_resource_limits counts the braces of the text, and the  *)
(* blocks that the builder is in are those open at the cursor, also after  *)
(* a group has been skipped (Inv).  What it builds is what linking takes   *)
(* for granted of a file (BuiltInv), so that what linking guarantees holds *)
(* of parse_with_options as a whole (ParsingInv).  And what it builds is   *)
(* what the source declares, statement for statement: after each statement *)
(* every sequence of the file and of the open blocks lists what the source *)
(* holds before the cursor (Tracked, ExactInv), so that the builder        *)
(* refuses just the defective sources and drops or misplaces nothing.      *)
(***************************************************************************)
EXTENDS Parsing, LinkingProofs, FiniteSetTheorems, TLAPS

\* A stack of blocks, whatever they are.
IsStack(s) == \E S : s \in Seq(S)

\* A stack with one element more is one.
LEMMA PushedStack ==
  ASSUME NEW s, IsStack(s), NEW block
  PROVE  IsStack(Append(s, block)) /\ Len(Append(s, block)) = Len(s) + 1
<1>1. PICK S : s \in Seq(S)
  BY DEF IsStack
<1>2. s \in Seq(S \cup {block}) /\ block \in S \cup {block}
  BY <1>1
<1>3. Append(s, block) \in Seq(S \cup {block}) /\ Len(Append(s, block)) = Len(s) + 1
  BY <1>2
<1> QED BY <1>3 DEF IsStack

\* A stack without its last element is one.
LEMMA PoppedStack ==
  ASSUME NEW s, IsStack(s), s # <<>>
  PROVE  /\ IsStack(SubSeq(s, 1, Len(s) - 1))
         /\ Len(SubSeq(s, 1, Len(s) - 1)) = Len(s) - 1
         /\ Len(s) \in Nat \ {0}
<1>1. PICK S : s \in Seq(S)
  BY DEF IsStack
<1>2. Len(s) \in Nat \ {0}
  BY <1>1
<1>3. SubSeq(s, 1, Len(s) - 1) = [i \in 1 .. Len(s) - 1 |-> s[i]]
  BY <1>1, <1>2
<1>4. SubSeq(s, 1, Len(s) - 1) \in Seq(S) /\ Len(SubSeq(s, 1, Len(s) - 1)) = Len(s) - 1
  BY <1>1, <1>2, <1>3
<1> QED BY <1>2, <1>4 DEF IsStack

\* A block of the stack is replaced.
LEMMA ChangedStack ==
  ASSUME NEW s, IsStack(s), NEW i, NEW block
  PROVE  IsStack([s EXCEPT ![i] = block]) /\ Len([s EXCEPT ![i] = block]) = Len(s)
<1>1. PICK S : s \in Seq(S)
  BY DEF IsStack
<1>2. Len(s) \in Nat /\ s \in [1 .. Len(s) -> S \cup {block}]
  BY <1>1
<1>3. [s EXCEPT ![i] = block] \in [1 .. Len(s) -> S \cup {block}]
  BY <1>2
<1>4. [s EXCEPT ![i] = block] \in Seq(S \cup {block})
  BY <1>2, <1>3
<1>5. Len([s EXCEPT ![i] = block]) = Len(s)
  BY <1>2, <1>3, <1>4
<1> QED BY <1>4, <1>5 DEF IsStack

\* A stack has a length.
LEMMA LengthOfStack ==
  ASSUME NEW s, IsStack(s)
  PROVE  Len(s) \in Nat /\ (s = <<>> <=> Len(s) = 0)
<1>1. PICK S : s \in Seq(S)
  BY DEF IsStack
<1> QED BY <1>1

-----------------------------------------------------------------------------
(* The depth at a position.                                                *)

\* The positions of a set up to i are those before i, and maybe i.
LEMMA OneMore ==
  ASSUME NEW T, NEW i \in Nat \ {0}
  PROVE  /\ Cardinality((1 .. i - 1) \cap T) \in Nat
         /\ Cardinality((1 .. i) \cap T)
              = Cardinality((1 .. i - 1) \cap T) + (IF i \in T THEN 1 ELSE 0)
<1> DEFINE S == (1 .. i - 1) \cap T
<1>1. IsFiniteSet(1 .. i - 1)
  BY FS_Interval
<1>2. IsFiniteSet(S)
  BY <1>1, FS_Subset
<1>3. Cardinality(S) \in Nat
  BY <1>2, FS_CardinalityType
<1>4. CASE i \in T
  <2>1. (1 .. i) \cap T = S \cup {i}
    BY <1>4
  <2>2. i \notin S
    OBVIOUS
  <2>3. Cardinality(S \cup {i}) = Cardinality(S) + 1
    BY <1>2, <2>2, FS_AddElement
  <2> QED BY <1>3, <1>4, <2>1, <2>3
<1>5. CASE i \notin T
  <2>1. (1 .. i) \cap T = S
    BY <1>5
  <2>2. Cardinality((1 .. i) \cap T) = Cardinality(S)
    BY <2>1
  <2> HIDE DEF S
  <2>3. Cardinality(S) = Cardinality(S) + 0
    BY <1>3
  <2> QED BY <1>3, <1>5, <2>2, <2>3 DEF S
<1> QED BY <1>4, <1>5

\* The set of the statements that open a block, and of those that close one.
Opens(s)  == {j \in 1 .. Len(s) : s[j].is \in Opening}
Closes(s) == {j \in 1 .. Len(s) : s[j].is = "end"}

\* The depth at a position, as a difference of counts.
LEMMA DepthAt ==
  ASSUME NEW s \in Sources, NEW i \in 0 .. Len(s)
  PROVE  Depths(s)[i] = Cardinality((1 .. i) \cap Opens(s)) - Cardinality((1 .. i) \cap Closes(s))
<1>1. Len(s) \in Nat
  BY BuilderAssumption
<1>2. {j \in 1 .. i : s[j].is \in Opening} = (1 .. i) \cap Opens(s)
  BY <1>1 DEF Opens
<1>3. {j \in 1 .. i : s[j].is = "end"} = (1 .. i) \cap Closes(s)
  BY <1>1 DEF Closes
<1>4. Depths(s)[i] = Cardinality({j \in 1 .. i : s[j].is \in Opening})
                       - Cardinality({j \in 1 .. i : s[j].is = "end"})
  BY DEF Depths
<1> QED BY <1>2, <1>3, <1>4

\* A statement changes the depth by one at most.
LEMMA DepthStep ==
  ASSUME NEW s \in Sources, NEW i \in 1 .. Len(s)
  PROVE  /\ Depths(s)[i - 1] \in Int /\ Depths(s)[i] \in Int
         /\ s[i].is \in Opening => Depths(s)[i] = Depths(s)[i - 1] + 1
         /\ s[i].is = "end" => Depths(s)[i] = Depths(s)[i - 1] - 1
         /\ s[i].is \notin Opening \cup {"end"} => Depths(s)[i] = Depths(s)[i - 1]
<1>1. Len(s) \in Nat
  BY BuilderAssumption
<1>2. i \in Nat \ {0} /\ i \in 0 .. Len(s) /\ i - 1 \in 0 .. Len(s)
  BY <1>1
<1> DEFINE O(k) == Cardinality((1 .. k) \cap Opens(s))
           C(k) == Cardinality((1 .. k) \cap Closes(s))
<1>3. Depths(s)[i] = O(i) - C(i) /\ Depths(s)[i - 1] = O(i - 1) - C(i - 1)
  BY <1>2, DepthAt
<1>4. O(i - 1) \in Nat /\ O(i) = O(i - 1) + (IF i \in Opens(s) THEN 1 ELSE 0)
  BY <1>2, OneMore
<1>5. C(i - 1) \in Nat /\ C(i) = C(i - 1) + (IF i \in Closes(s) THEN 1 ELSE 0)
  BY <1>2, OneMore
<1>6. i \in Opens(s) <=> s[i].is \in Opening
  BY DEF Opens
<1>7. i \in Closes(s) <=> s[i].is = "end"
  BY DEF Closes
<1>8. "end" \notin Opening
  BY DEF Opening
<1> HIDE DEF O, C
<1> QED BY <1>3, <1>4, <1>5, <1>6, <1>7, <1>8

\* Before the first statement nothing is open.
LEMMA DepthAtStart ==
  ASSUME NEW s \in Sources
  PROVE  Depths(s)[0] = 0
<1>1. Len(s) \in Nat
  BY BuilderAssumption
<1>2. (1 .. 0) \cap Opens(s) = {} /\ (1 .. 0) \cap Closes(s) = {}
  OBVIOUS
<1>3. Cardinality({}) = 0
  BY FS_EmptySet
<1>4. 0 \in 0 .. Len(s)
  BY <1>1
<1>5. Depths(s)[0] = Cardinality((1 .. 0) \cap Opens(s)) - Cardinality((1 .. 0) \cap Closes(s))
  BY <1>4, DepthAt
<1>6. Depths(s)[0] = 0 - 0
  BY <1>2, <1>3, <1>5
<1> QED BY <1>6

-----------------------------------------------------------------------------
(* The invariant.                                                          *)

\* No position is deeper than the limit: what Scan has found out.
Scanned == \A i \in 1 .. Len(source) : Depths(source)[i] <= limit

\* The builder's state while there is a source.
Working ==
  /\ source \in Sources /\ limit \in NestingLimits
  /\ cursor \in 1 .. Len(source) + 1
  /\ Len(stack) = Depths(source)[cursor - 1]
  /\ stage = "scanning" => cursor = 1
  /\ cursor = 1 \/ Scanned
  /\ stage \in {"building", "parsed"} => Scanned

Inv ==
  /\ IsStack(stack)
  /\ stage \in {"scanning", "building", "parsed", "refused", "loaded"}
  /\ IF stage = "loaded" THEN stack = <<>> /\ limit = 0 ELSE Working

\* The invariant bounds the number of open blocks.
LEMMA InvBounds == Inv => NestingBounded
<1> SUFFICES ASSUME Inv PROVE NestingBounded
  OBVIOUS
<1>1. CASE stage = "loaded"
  BY <1>1, LengthOfStack DEF Inv, NestingBounded
<1>2. CASE stage # "loaded"
  <2>1. Working /\ source \in Sources /\ Len(source) \in Nat /\ limit \in Nat
    BY <1>2, BuilderAssumption DEF Inv, Working
  <2>2. CASE cursor = 1
    BY <2>1, <2>2, DepthAtStart DEF Working, NestingBounded
  <2>3. CASE cursor # 1
    <3>1. cursor - 1 \in 1 .. Len(source)
      BY <2>1, <2>3 DEF Working
    <3>2. Depths(source)[cursor - 1] <= limit
      BY <2>1, <2>3, <3>1 DEF Working, Scanned
    <3> QED BY <2>1, <3>2 DEF Working, NestingBounded
  <2> QED BY <2>2, <2>3
<1> QED BY <1>1, <1>2

\* The empty stack is one.
LEMMA EmptyStack == IsStack(<<>>)
<1>1. <<>> \in Seq({})
  OBVIOUS
<1> QED BY <1>1 DEF IsStack

\* The invariant holds before anything is parsed.
LEMMA InitInv == ParsingInit => Inv
<1>1. ASSUME StartBuilding PROVE Inv
  <2>1. Len(source) \in Nat /\ Depths(source)[0] = 0
    BY <1>1, BuilderAssumption, DepthAtStart DEF StartBuilding
  <2> QED BY <1>1, <2>1, EmptyStack DEF StartBuilding, Inv, Working
<1>2. ASSUME stack = <<>>, limit = 0, stage = "loaded" PROVE Inv
  BY <1>2, EmptyStack DEF Inv
<1> QED BY <1>1, <1>2 DEF ParsingInit

-----------------------------------------------------------------------------
(* The steps.  Apart from scanning, skipping and ending, a step reads one  *)
(* statement, and opens or closes a block when the statement does.         *)

Reads(change) ==
  /\ stage = "building" /\ cursor <= Len(source)
  /\ cursor' = cursor + 1 /\ UNCHANGED <<source, limit, stage>>
  /\ IsStack(stack') /\ Len(stack') = Len(stack) + change

\* A statement that changes the stack as it changes the depth keeps the invariant.
LEMMA ReadsOK ==
  ASSUME Inv,
         \/ Reads(1) /\ Current.is \in Opening
         \/ Reads(-1) /\ Current.is = "end"
         \/ Reads(0) /\ Current.is \notin Opening \cup {"end"}
  PROVE  Inv'
<1>1. /\ stage = "building" /\ cursor <= Len(source) /\ cursor' = cursor + 1
      /\ UNCHANGED <<source, limit, stage>> /\ IsStack(stack')
  BY DEF Reads
<1>2. Working /\ source \in Sources /\ Len(source) \in Nat /\ cursor \in 1 .. Len(source)
  BY <1>1, BuilderAssumption DEF Inv, Working
<1>3. Len(stack) = Depths(source)[cursor - 1] /\ Len(stack) \in Nat
  BY <1>2, LengthOfStack DEF Working, Inv
<1>4. Len(stack') = Depths(source)[cursor]
  BY <1>2, <1>3, DepthStep DEF Reads, Current
<1>5. cursor' - 1 = cursor /\ cursor' \in 1 .. Len(source) + 1
  BY <1>1, <1>2
<1>6. Working'
  BY <1>1, <1>2, <1>4, <1>5 DEF Working, Scanned
<1> QED BY <1>1, <1>6 DEF Inv

\* Refusing keeps the invariant.
LEMMA RefuseOK ==
  ASSUME Inv, stage # "loaded", Refuse
  PROVE  Inv'
BY DEF Inv, Working, Refuse, Scanned

\* What a handler does with a statement that opens no block and closes none.
LEMMA WithinOK ==
  ASSUME Inv, stage = "building", cursor <= Len(source), stack # <<>>,
         Current.is \notin Opening \cup {"end"}, NEW block, Within(block)
  PROVE  Inv'
<1>1. IsStack(stack) /\ Outer = SubSeq(stack, 1, Len(stack) - 1)
  BY DEF Inv, Outer
<1>2. IsStack(Outer) /\ Len(Outer) = Len(stack) - 1 /\ Len(stack) \in Nat \ {0}
  BY <1>1, PoppedStack
<1>3. IsStack(stack') /\ Len(stack') = Len(Outer) + 1
  BY <1>2, PushedStack DEF Within
<1>4. Reads(0)
  BY <1>2, <1>3 DEF Reads, Within, Advance
<1> QED BY <1>4, ReadsOK

\* Opening a block keeps the invariant.
LEMMA OpenOK ==
  ASSUME Inv, stage = "building", cursor <= Len(source), Current.is \in Opening,
         NEW block, Open(block)
  PROVE  Inv'
<1>1. IsStack(stack) /\ Len(stack) \in Nat
  BY LengthOfStack DEF Inv
<1>2. IsStack(stack') /\ Len(stack') = Len(stack) + 1
  BY <1>1, PushedStack DEF Open
<1>3. Reads(1)
  BY <1>2 DEF Reads, Open, Advance
<1> QED BY <1>3, ReadsOK

\* The blocks become those of t, or one of them is replaced.
Becomes(t) == stack' = t \/ (\E i, block : stack' = [t EXCEPT ![i] = block])

\* A stack with one block replaced is as long as before.
LEMMA BecomesStack ==
  ASSUME NEW t, IsStack(t), Becomes(t)
  PROVE  IsStack(stack') /\ Len(stack') = Len(t)
<1>1. CASE stack' = t
  BY <1>1
<1>2. CASE \E i, block : stack' = [t EXCEPT ![i] = block]
  <2>1. PICK i, block : stack' = [t EXCEPT ![i] = block]
    BY <1>2
  <2> QED BY <2>1, ChangedStack
<1> QED BY <1>1, <1>2 DEF Becomes

\* Closing a block keeps the invariant.
LEMMA CloseOK ==
  ASSUME Inv, stage = "building", cursor <= Len(source), stack # <<>>, Current.is = "end",
         Becomes(Outer), Advance
  PROVE  Inv'
<1>1. IsStack(stack) /\ Outer = SubSeq(stack, 1, Len(stack) - 1)
  BY DEF Inv, Outer
<1>2. IsStack(Outer) /\ Len(Outer) = Len(stack) - 1 /\ Len(stack) \in Nat \ {0}
  BY <1>1, PoppedStack
<1>3. IsStack(stack') /\ Len(stack') = Len(Outer)
  BY <1>2, BecomesStack
<1>4. Reads(-1)
  BY <1>2, <1>3 DEF Reads, Advance
<1> QED BY <1>4, ReadsOK

\* A statement that leaves the blocks as they are, or changes one of them.
LEMMA KeepOK ==
  ASSUME Inv, stage = "building", cursor <= Len(source), Current.is \notin Opening \cup {"end"},
         Becomes(stack), Advance
  PROVE  Inv'
<1>1. IsStack(stack) /\ Len(stack) \in Nat
  BY LengthOfStack DEF Inv
<1>2. IsStack(stack') /\ Len(stack') = Len(stack)
  BY <1>1, BecomesStack
<1>3. Reads(0)
  BY <1>1, <1>2 DEF Reads, Advance
<1> QED BY <1>3, ReadsOK

\* Counting the braces establishes that no position is too deep.
LEMMA ScanOK ==
  ASSUME Inv, Scan
  PROVE  Inv'
<1>1. CASE Refuse
  BY <1>1, RefuseOK DEF Scan
<1>2. CASE ~Refuse
  <2>1. /\ ~\E i \in DOMAIN source : Depths(source)[i] > limit
        /\ stage = "scanning" /\ stage' = "building"
        /\ UNCHANGED <<source, limit, cursor, stack>>
    BY <1>2 DEF Scan
  <2>2. Working /\ limit \in Nat /\ source \in Sources /\ DOMAIN source = 1 .. Len(source)
        /\ Len(source) \in Nat
    BY <2>1, BuilderAssumption DEF Inv, Working
  <2>3. ASSUME NEW i \in 1 .. Len(source) PROVE Depths(source)[i] <= limit
    <3>1. ~(Depths(source)[i] > limit)
      BY <2>1, <2>2
    <3>2. Depths(source)[i] \in Int
      BY <2>2, DepthStep
    <3> QED BY <2>2, <3>1, <3>2
  <2>4. Scanned'
    BY <2>1, <2>3 DEF Scanned
  <2> QED BY <2>1, <2>2, <2>4 DEF Inv, Working
<1> QED BY <1>1, <1>2

\* Skipping a group keeps the invariant: the depth is what it was before.
LEMMA SkipGroupOK ==
  ASSUME Inv, SkipGroup
  PROVE  Inv'
<1>1. stage = "building" /\ cursor <= Len(source)
  BY DEF SkipGroup, At
<1>2. CASE Refuse
  BY <1>1, <1>2, RefuseOK
<1>3. CASE ~Refuse
  <2>1. PICK end \in cursor + 1 .. Len(source) :
          Depths(source)[end] = Depths(source)[cursor - 1] /\ cursor' = end + 1
    BY <1>3 DEF SkipGroup
  <2>2. UNCHANGED <<source, limit, stack, stage>>
    BY <1>3 DEF SkipGroup
  <2>3. Working /\ source \in Sources /\ Len(source) \in Nat /\ cursor \in 1 .. Len(source)
    BY <1>1, BuilderAssumption DEF Inv, Working
  <2>4. cursor' - 1 = end /\ cursor' \in 1 .. Len(source) + 1
    BY <2>1, <2>3
  <2>5. Working'
    BY <1>1, <2>1, <2>2, <2>3, <2>4 DEF Working, Scanned
  <2> QED BY <1>1, <2>2, <2>5 DEF Inv
<1> QED BY <1>2, <1>3

-----------------------------------------------------------------------------

\* A statement that a handler reads, and where.
LEMMA InBlock ==
  ASSUME NEW is, NEW places, At(is, places)
  PROVE  /\ stage = "building" /\ stage # "loaded" /\ cursor <= Len(source) /\ Current.is = is
         /\ "file" \notin places => stack # <<>>
BY DEF At, Place

\* The statements that open no block and close none.
Plain == {"language", "package", "import", "option", "field", "reserved", "extensions",
          "value", "allow_alias", "rpc"}

\* These statements neither open a block nor close one.
LEMMA PlainStatements == Plain \cap (Opening \cup {"end"}) = {}
BY DEF Plain, Opening

\* Every handler keeps the invariant.
LEMMA BuildInv ==
  ASSUME Inv, Build
  PROVE  Inv'
<1>1. CASE Scan
  BY <1>1, ScanOK
<1>2. CASE Language
  <2>1. At("language", {"file"})
    BY <1>2 DEF Language
  <2>2. /\ stage = "building" /\ stage # "loaded" /\ cursor <= Len(source)
        /\ Current.is \notin Opening \cup {"end"}
    BY <2>1, InBlock, PlainStatements DEF Plain
  <2>3. Refuse \/ (Advance /\ Becomes(stack))
    BY <1>2 DEF Language, Becomes
  <2> QED BY <2>2, <2>3, RefuseOK, KeepOK
<1>3. CASE Package
  <2>1. At("package", {"file"})
    BY <1>3 DEF Package
  <2>2. /\ stage = "building" /\ stage # "loaded" /\ cursor <= Len(source)
        /\ Current.is \notin Opening \cup {"end"}
    BY <2>1, InBlock, PlainStatements DEF Plain
  <2>3. Refuse \/ (Advance /\ Becomes(stack))
    BY <1>3 DEF Package, Becomes
  <2> QED BY <2>2, <2>3, RefuseOK, KeepOK
<1>4. CASE Import
  <2>1. At("import", {"file"})
    BY <1>4 DEF Import
  <2>2. /\ stage = "building" /\ stage # "loaded" /\ cursor <= Len(source)
        /\ Current.is \notin Opening \cup {"end"}
    BY <2>1, InBlock, PlainStatements DEF Plain
  <2>3. Advance /\ Becomes(stack)
    BY <1>4 DEF Import, Becomes
  <2> QED BY <2>2, <2>3, KeepOK
<1>5. CASE SetFeature
  <2>1. At("option", {"file", "message", "enum"})
    BY <1>5 DEF SetFeature
  <2>2. stage = "building" /\ cursor <= Len(source) /\ Current.is \notin Opening \cup {"end"}
    BY <2>1, InBlock, PlainStatements DEF Plain
  <2>3. CASE Place = "file"
    <3>1. Advance /\ Becomes(stack)
      BY <1>5, <2>3 DEF SetFeature, Becomes
    <3> QED BY <2>2, <3>1, KeepOK
  <2>4. CASE Place # "file"
    <3>1. \E block : Within(block)
      BY <1>5, <2>4 DEF SetFeature
    <3>2. stack # <<>>
      BY <2>4 DEF Place
    <3> QED BY <2>2, <3>1, <3>2, WithinOK
  <2> QED BY <2>3, <2>4
<1>6. CASE OpenMessage
  <2>1. At("message", {"file", "message"})
    BY <1>6 DEF OpenMessage
  <2>2. /\ stage = "building" /\ stage # "loaded" /\ cursor <= Len(source)
        /\ Current.is \in Opening
    BY <2>1, InBlock DEF Opening
  <2>3. \E block : Open(block)
    BY <1>6 DEF OpenMessage
  <2> QED BY <2>2, <2>3, OpenOK
<1>7. CASE DeclareField
  <2>1. At("field", {"message"})
    BY <1>7 DEF DeclareField
  <2>2. /\ stage = "building" /\ stage # "loaded" /\ cursor <= Len(source)
        /\ Current.is \notin Opening \cup {"end"} /\ stack # <<>>
    BY <2>1, InBlock, PlainStatements DEF Plain
  <2>3. Refuse \/ (\E block : Within(block))
    BY <1>7 DEF DeclareField
  <2> QED BY <2>2, <2>3, RefuseOK, WithinOK
<1>8. CASE Reserve
  <2>1. At("reserved", {"message", "enum"})
    BY <1>8 DEF Reserve
  <2>2. /\ stage = "building" /\ stage # "loaded" /\ cursor <= Len(source)
        /\ Current.is \notin Opening \cup {"end"} /\ stack # <<>>
    BY <2>1, InBlock, PlainStatements DEF Plain
  <2>3. Refuse \/ (\E block : Within(block))
    BY <1>8 DEF Reserve
  <2> QED BY <2>2, <2>3, RefuseOK, WithinOK
<1>9. CASE ReserveExtensions
  <2>1. At("extensions", {"message"})
    BY <1>9 DEF ReserveExtensions
  <2>2. /\ stage = "building" /\ stage # "loaded" /\ cursor <= Len(source)
        /\ Current.is \notin Opening \cup {"end"} /\ stack # <<>>
    BY <2>1, InBlock, PlainStatements DEF Plain
  <2>3. Refuse \/ (\E block : Within(block))
    BY <1>9 DEF ReserveExtensions
  <2> QED BY <2>2, <2>3, RefuseOK, WithinOK
<1>10. CASE SkipGroup
  BY <1>10, SkipGroupOK
<1>11. CASE CloseMessage
  <2>1. At("end", {"message"})
    BY <1>11 DEF CloseMessage
  <2>2. /\ stage = "building" /\ stage # "loaded" /\ cursor <= Len(source)
        /\ Current.is = "end" /\ stack # <<>>
    BY <2>1, InBlock
  <2>3. Refuse \/ (Advance /\ Becomes(Outer))
    BY <1>11 DEF CloseMessage, Close, Becomes
  <2> QED BY <2>2, <2>3, RefuseOK, CloseOK
<1>12. CASE OpenOneof
  <2>1. At("oneof", {"message"})
    BY <1>12 DEF OpenOneof
  <2>2. /\ stage = "building" /\ stage # "loaded" /\ cursor <= Len(source)
        /\ Current.is \in Opening /\ stack # <<>>
    BY <2>1, InBlock DEF Opening
  <2>3. Refuse \/ (\E block : Open(block))
    BY <1>12 DEF OpenOneof
  <2> QED BY <2>2, <2>3, RefuseOK, OpenOK
<1>13. CASE DeclareMember
  <2>1. At("field", {"oneof"})
    BY <1>13 DEF DeclareMember
  <2>2. /\ stage = "building" /\ stage # "loaded" /\ cursor <= Len(source)
        /\ Current.is \notin Opening \cup {"end"} /\ stack # <<>>
    BY <2>1, InBlock, PlainStatements DEF Plain
  <2>3. Refuse \/ (Advance /\ Becomes(stack))
    BY <1>13 DEF DeclareMember, Becomes
  <2> QED BY <2>2, <2>3, RefuseOK, KeepOK
<1>14. CASE CloseOneof
  <2>1. At("end", {"oneof"})
    BY <1>14 DEF CloseOneof
  <2>2. /\ stage = "building" /\ stage # "loaded" /\ cursor <= Len(source)
        /\ Current.is = "end" /\ stack # <<>>
    BY <2>1, InBlock
  <2>3. Advance /\ Becomes(Outer)
    BY <1>14 DEF CloseOneof, Close, Becomes
  <2> QED BY <2>2, <2>3, CloseOK
<1>15. CASE OpenEnum
  <2>1. At("enum", {"file", "message"})
    BY <1>15 DEF OpenEnum
  <2>2. /\ stage = "building" /\ stage # "loaded" /\ cursor <= Len(source)
        /\ Current.is \in Opening
    BY <2>1, InBlock DEF Opening
  <2>3. \E block : Open(block)
    BY <1>15 DEF OpenEnum
  <2> QED BY <2>2, <2>3, OpenOK
<1>16. CASE DeclareValue
  <2>1. At("value", {"enum"})
    BY <1>16 DEF DeclareValue
  <2>2. /\ stage = "building" /\ stage # "loaded" /\ cursor <= Len(source)
        /\ Current.is \notin Opening \cup {"end"} /\ stack # <<>>
    BY <2>1, InBlock, PlainStatements DEF Plain
  <2>3. Refuse \/ (\E block : Within(block))
    BY <1>16 DEF DeclareValue
  <2> QED BY <2>2, <2>3, RefuseOK, WithinOK
<1>17. CASE AllowAlias
  <2>1. At("allow_alias", {"enum"})
    BY <1>17 DEF AllowAlias
  <2>2. /\ stage = "building" /\ stage # "loaded" /\ cursor <= Len(source)
        /\ Current.is \notin Opening \cup {"end"} /\ stack # <<>>
    BY <2>1, InBlock, PlainStatements DEF Plain
  <2>3. \E block : Within(block)
    BY <1>17 DEF AllowAlias
  <2> QED BY <2>2, <2>3, WithinOK
<1>18. CASE CloseEnum
  <2>1. At("end", {"enum"})
    BY <1>18 DEF CloseEnum
  <2>2. /\ stage = "building" /\ stage # "loaded" /\ cursor <= Len(source)
        /\ Current.is = "end" /\ stack # <<>>
    BY <2>1, InBlock
  <2>3. Refuse \/ (Advance /\ Becomes(Outer))
    BY <1>18 DEF CloseEnum, Close, Becomes
  <2> QED BY <2>2, <2>3, RefuseOK, CloseOK
<1>19. CASE OpenExtend
  <2>1. At("extend", {"file", "message"})
    BY <1>19 DEF OpenExtend
  <2>2. /\ stage = "building" /\ stage # "loaded" /\ cursor <= Len(source)
        /\ Current.is \in Opening
    BY <2>1, InBlock DEF Opening
  <2>3. Refuse \/ (\E block : Open(block))
    BY <1>19 DEF OpenExtend
  <2> QED BY <2>2, <2>3, RefuseOK, OpenOK
<1>20. CASE DeclareExtension
  <2>1. At("field", {"extend"})
    BY <1>20 DEF DeclareExtension
  <2>2. /\ stage = "building" /\ stage # "loaded" /\ cursor <= Len(source)
        /\ Current.is \notin Opening \cup {"end"} /\ stack # <<>>
    BY <2>1, InBlock, PlainStatements DEF Plain
  <2>3. Refuse \/ (Advance /\ Becomes(stack))
    BY <1>20 DEF DeclareExtension, Becomes
  <2> QED BY <2>2, <2>3, RefuseOK, KeepOK
<1>21. CASE CloseExtend
  <2>1. At("end", {"extend"})
    BY <1>21 DEF CloseExtend
  <2>2. /\ stage = "building" /\ stage # "loaded" /\ cursor <= Len(source)
        /\ Current.is = "end" /\ stack # <<>>
    BY <2>1, InBlock
  <2>3. Advance /\ Becomes(Outer)
    BY <1>21 DEF CloseExtend, Close, Becomes
  <2> QED BY <2>2, <2>3, CloseOK
<1>22. CASE OpenService
  <2>1. At("service", {"file"})
    BY <1>22 DEF OpenService
  <2>2. /\ stage = "building" /\ stage # "loaded" /\ cursor <= Len(source)
        /\ Current.is \in Opening
    BY <2>1, InBlock DEF Opening
  <2>3. \E block : Open(block)
    BY <1>22 DEF OpenService
  <2> QED BY <2>2, <2>3, OpenOK
<1>23. CASE DeclareMethod
  <2>1. At("rpc", {"service"})
    BY <1>23 DEF DeclareMethod
  <2>2. /\ stage = "building" /\ stage # "loaded" /\ cursor <= Len(source)
        /\ Current.is \notin Opening \cup {"end"} /\ stack # <<>>
    BY <2>1, InBlock, PlainStatements DEF Plain
  <2>3. Refuse \/ (\E block : Within(block))
    BY <1>23 DEF DeclareMethod
  <2> QED BY <2>2, <2>3, RefuseOK, WithinOK
<1>24. CASE CloseService
  <2>1. At("end", {"service"})
    BY <1>24 DEF CloseService
  <2>2. /\ stage = "building" /\ stage # "loaded" /\ cursor <= Len(source)
        /\ Current.is = "end" /\ stack # <<>>
    BY <2>1, InBlock
  <2>3. Refuse \/ (Advance /\ Becomes(Outer))
    BY <1>24 DEF CloseService, Close, Becomes
  <2> QED BY <2>2, <2>3, RefuseOK, CloseOK
<1>25. CASE EndOfFile
  BY <1>25 DEF EndOfFile, Inv, Working, Scanned
<1> QED
  BY <1>1, <1>2, <1>3, <1>4, <1>5, <1>6, <1>7, <1>8, <1>9, <1>10, <1>11, <1>12, <1>13,
     <1>14, <1>15, <1>16, <1>17, <1>18, <1>19, <1>20, <1>21, <1>22, <1>23, <1>24, <1>25
     DEF Build

\* Every step of parsing keeps the invariant.
LEMMA StepInv == Inv /\ [ParsingNext]_<<building, vars>> => Inv'
<1> SUFFICES ASSUME Inv, [ParsingNext]_<<building, vars>> PROVE Inv'
  OBVIOUS
<1>1. CASE Build
  BY <1>1, BuildInv
<1>2. CASE UNCHANGED building
  BY <1>2 DEF building, Inv, Working, Scanned
<1> QED BY <1>1, <1>2 DEF ParsingNext, BeginLinking, Refused

\* parse_file never recurses deeper than max_nesting_depth, whatever the source:
\* counting braces before parsing (validate_source_resource_limits) is enough.
THEOREM NestingIsBounded == ParsingSpec => []NestingBounded
<1>1. ParsingInit => Inv
  BY InitInv
<1>2. Inv /\ [ParsingNext]_<<building, vars>> => Inv'
  BY StepInv
<1>3. Inv => NestingBounded
  BY InvBounds
<1> QED BY <1>1, <1>2, <1>3, PTL DEF ParsingSpec

-----------------------------------------------------------------------------
(* What is built.                                                          *)

BlockParts ==
  {"kind", "name", "of", "fields", "oneofs", "names", "ranges", "extension_ranges", "options",
   "values", "allow_alias", "methods"}

Fielded(s) == IsStack(s) /\ \A i \in DOMAIN s : ParsedField(s[i].field)
Methods(s) == IsStack(s) /\ \A i \in DOMAIN s : NamedKind(s[i].input) /\ NamedKind(s[i].output)

\* A block whose parts are as linking expects them of what becomes of it.
Sound(b) ==
  /\ DOMAIN b = BlockParts /\ b.kind \in {"message", "enum", "service", "oneof", "extend"}
  /\ b.kind \in {"message", "enum", "service"} => b.name \in Name
  /\ b.kind = "extend" => b.name \in Seq(STRING) /\ NamedKind(b.of)
  /\ Fielded(b.fields) /\ Methods(b.methods) /\ ParsedFeatures(b.options)

Sounds(s) == IsStack(s) /\ \A i \in DOMAIN s : Sound(s[i])

\* A stack has one element more.
LEMMA PushedElements ==
  ASSUME NEW s, IsStack(s), NEW x
  PROVE  /\ IsStack(Append(s, x))
         /\ \A i \in DOMAIN Append(s, x) : Append(s, x)[i] = x \/ (i \in DOMAIN s /\ Append(s, x)[i] = s[i])
<1>1. PICK S : s \in Seq(S)
  BY DEF IsStack
<1>2. s \in Seq(S \cup {x}) /\ x \in S \cup {x}
  BY <1>1
<1>3. /\ DOMAIN Append(s, x) = 1 .. Len(s) + 1 /\ Len(s) \in Nat /\ DOMAIN s = 1 .. Len(s)
      /\ \A i \in 1 .. Len(s) : Append(s, x)[i] = s[i]
      /\ Append(s, x)[Len(s) + 1] = x
  BY <1>2
<1>4. \A i \in 1 .. Len(s) + 1 : i = Len(s) + 1 \/ i \in 1 .. Len(s)
  BY <1>3
<1> QED BY <1>3, <1>4, PushedStack

\* A stack has its last element, and the others without it.
LEMMA PoppedElements ==
  ASSUME NEW s, IsStack(s), s # <<>>
  PROVE  /\ Len(s) \in DOMAIN s
         /\ DOMAIN SubSeq(s, 1, Len(s) - 1) \subseteq DOMAIN s
         /\ \A i \in DOMAIN SubSeq(s, 1, Len(s) - 1) : SubSeq(s, 1, Len(s) - 1)[i] = s[i]
<1>1. PICK S : s \in Seq(S)
  BY DEF IsStack
<1>2. Len(s) \in Nat \ {0} /\ DOMAIN s = 1 .. Len(s)
  BY <1>1
<1>3. SubSeq(s, 1, Len(s) - 1) = [i \in 1 .. Len(s) - 1 |-> s[i]]
  BY <1>1, <1>2
<1>4. Len(s) \in 1 .. Len(s) /\ 1 .. Len(s) - 1 \subseteq 1 .. Len(s)
  BY <1>2
<1> QED BY <1>2, <1>3, <1>4

\* An open block is added.
LEMMA PushedSound ==
  ASSUME NEW s, Sounds(s), NEW b, Sound(b)
  PROVE  Sounds(Append(s, b))
<1>1. IsStack(s) /\ \A i \in DOMAIN s : Sound(s[i])
  BY DEF Sounds
<1>2. IsStack(Append(s, b)) /\ \A i \in DOMAIN Append(s, b) : Sound(Append(s, b)[i])
  BY <1>1, PushedElements
<1> QED BY <1>2 DEF Sounds

\* The innermost block is taken out.
LEMMA PoppedSound ==
  ASSUME NEW s, Sounds(s), s # <<>>
  PROVE  Sounds(SubSeq(s, 1, Len(s) - 1)) /\ Sound(s[Len(s)])
<1>1. IsStack(s) /\ \A i \in DOMAIN s : Sound(s[i])
  BY DEF Sounds
<1>2. Sound(s[Len(s)])
  BY <1>1, PoppedElements
<1>3. \A i \in DOMAIN SubSeq(s, 1, Len(s) - 1) : Sound(SubSeq(s, 1, Len(s) - 1)[i])
  BY <1>1, PoppedElements
<1> QED BY <1>1, <1>2, <1>3, PoppedStack DEF Sounds

\* A block is replaced.
LEMMA ChangedSound ==
  ASSUME NEW s, Sounds(s), NEW i, NEW b, i \in DOMAIN s => Sound(b)
  PROVE  Sounds([s EXCEPT ![i] = b])
<1>1. IsStack(s) /\ \A j \in DOMAIN s : Sound(s[j])
  BY DEF Sounds
<1>2. \A j \in DOMAIN [s EXCEPT ![i] = b] : Sound([s EXCEPT ![i] = b][j])
  BY <1>1
<1> QED BY <1>1, <1>2, ChangedStack DEF Sounds

\* A field is added.
LEMMA FieldAdded ==
  ASSUME NEW s, Fielded(s), NEW x, ParsedField(x.field)
  PROVE  Fielded(Append(s, x))
<1>1. IsStack(s) /\ \A i \in DOMAIN s : ParsedField(s[i].field)
  BY DEF Fielded
<1>2. \A i \in DOMAIN Append(s, x) : ParsedField(Append(s, x)[i].field)
  BY <1>1, PushedElements
<1> QED BY <1>1, <1>2, PushedElements DEF Fielded

\* A method is added.
LEMMA MethodAdded ==
  ASSUME NEW s, Methods(s), NEW x, NamedKind(x.input), NamedKind(x.output)
  PROVE  Methods(Append(s, x))
<1>1. IsStack(s) /\ \A i \in DOMAIN s : NamedKind(s[i].input) /\ NamedKind(s[i].output)
  BY DEF Methods
<1>2. \A i \in DOMAIN Append(s, x) :
        NamedKind(Append(s, x)[i].input) /\ NamedKind(Append(s, x)[i].output)
  BY <1>1, PushedElements
<1> QED BY <1>1, <1>2, PushedElements DEF Methods

\* parse_field: what it does not refuse is in order.
LEMMA FieldInOrder ==
  ASSUME NEW f, f.is = "field", Grammatical(f),
         NEW label \in {None, "optional", "required", "repeated"}, NEW oneof,
         oneof # None => label = None, ~FieldRefused(f, label, oneof)
  PROVE  ParsedField(FieldOf(f, label, oneof))
<1> DEFINE g == FieldOf(f, label, oneof)
           card == CardinalityOf(f, label)
<1>1. /\ f.kind \in ParsedKind /\ ParsedFeatures(f.options) /\ f.packed \in Seq(BOOLEAN)
      /\ f.defaults \in Nat
  BY DEF Grammatical
<1>2. f.kind.map \in BOOLEAN
  BY <1>1 DEF ParsedKind
<1>3. card \in {"optional", "required", "repeated"} /\ (card # "repeated" => ~f.kind.map)
  BY <1>2 DEF CardinalityOf
<1>4. /\ DOMAIN g = {"number", "kind", "cardinality", "oneof", "packed", "packed_explicit",
                     "explicit_presence", "default", "options", "features"}
      /\ g.kind = f.kind /\ g.cardinality = card /\ g.oneof = oneof
      /\ g.packed = PackedFirst(f, label) /\ g.packed_explicit = (f.packed # <<>>)
      /\ g.explicit_presence = (label # None \/ oneof # None)
      /\ g.default = (f.defaults = 1) /\ g.options = f.options
  BY DEF FieldOf
<1>5. f.packed # <<>> => f.packed[1] \in BOOLEAN
  BY <1>1
<1>6. /\ PackedFirst(f, label) \in BOOLEAN \cup {None}
      /\ f.packed # <<>> => PackedFirst(f, label) \in BOOLEAN
  BY <1>5 DEF PackedFirst, Modern
<1>7. card # "repeated" => f.packed = <<>>
  BY DEF FieldRefused
<1>8. card # "repeated" => PackedFirst(f, label) = None
  BY <1>7 DEF PackedFirst
<1>9. f.defaults = 1 => card # "repeated"
  BY DEF FieldRefused
<1>10. oneof # None => card = "optional"
  <2>1. oneof # None => label = None /\ ~f.kind.map
    BY DEF FieldRefused
  <2> QED BY <2>1 DEF CardinalityOf
<1> HIDE DEF g, card
<1>11. /\ g.packed_explicit \in BOOLEAN /\ g.explicit_presence \in BOOLEAN /\ g.default \in BOOLEAN
       /\ g.oneof # None => g.explicit_presence /\ g.cardinality = "optional"
  BY <1>4, <1>10
<1> QED BY <1>1, <1>3, <1>4, <1>6, <1>8, <1>9, <1>11 DEF ParsedField, g

-----------------------------------------------------------------------------
(* A file with one declaration more.                                       *)

\* An option is set.
LEMMA OptionSet ==
  ASSUME NEW options, ParsedFeatures(options), NEW x \in Feature, NEW v
  PROVE  ParsedFeatures(Put(options, x, v))
BY DEF Put, Over, ParsedFeatures

\* The domain and the parts of a file that is parsed.
LEMMA FileHas ==
  ASSUME NEW file, ParsedFile(file)
  PROVE  DOMAIN file = FileParts
BY DEF ParsedFile, FileParts

\* A parsed file with its syntax declared.
LEMMA WithLanguage ==
  ASSUME NEW file, ParsedFile(file), NEW syntax \in Syntax, NEW features
  PROVE  ParsedFile([file EXCEPT !.syntax = syntax, !.features = features])
BY DEF ParsedFile

\* A parsed file with an option set.
LEMMA WithOption ==
  ASSUME NEW file, ParsedFile(file), NEW x \in Feature, NEW v
  PROVE  ParsedFile([file EXCEPT !.options = Put(@, x, v)])
<1>1. ParsedFeatures(Put(file.options, x, v))
  BY OptionSet DEF ParsedFile
<1> QED BY <1>1 DEF ParsedFile

\* A parsed file with a message more.
LEMMA WithMessage ==
  ASSUME NEW file, ParsedFile(file), NEW n \in Name, NEW x, ParsedMessage(x)
  PROVE  ParsedFile([file EXCEPT !.messages = Put(@, n, x)])
<1> DEFINE f == Put(file.messages, n, x)
<1>1. \A m \in DOMAIN f : m \in Name /\ ParsedMessage(f[m])
  BY DEF Put, Over, ParsedFile
<1> HIDE DEF f
<1>2. ParsedFile([file EXCEPT !.messages = f])
  BY <1>1 DEF ParsedFile
<1> QED BY <1>2 DEF f

\* A parsed file with an enum more.
LEMMA WithEnum ==
  ASSUME NEW file, ParsedFile(file), NEW n \in Name, NEW x, ParsedEnum(x)
  PROVE  ParsedFile([file EXCEPT !.enums = Put(@, n, x)])
<1> DEFINE f == Put(file.enums, n, x)
<1>1. \A m \in DOMAIN f : m \in Name /\ ParsedEnum(f[m])
  BY DEF Put, Over, ParsedFile
<1> HIDE DEF f
<1>2. ParsedFile([file EXCEPT !.enums = f])
  BY <1>1 DEF ParsedFile
<1> QED BY <1>2 DEF f

\* A parsed file with a service more.
LEMMA WithService ==
  ASSUME NEW file, ParsedFile(file), NEW n \in Name, NEW x, \A kind \in x : NamedKind(kind)
  PROVE  ParsedFile([file EXCEPT !.services = Put(@, n, x)])
<1> DEFINE f == Put(file.services, n, x)
<1>1. \A m \in DOMAIN f : m \in Name /\ \A kind \in f[m] : NamedKind(kind)
  BY DEF Put, Over, ParsedFile
<1> HIDE DEF f
<1>2. ParsedFile([file EXCEPT !.services = f])
  BY <1>1 DEF ParsedFile
<1> QED BY <1>2 DEF f

\* A parsed file with an extension more.
LEMMA WithExtension ==
  ASSUME NEW file, ParsedFile(file), NEW n \in Name, NEW x, ParsedExtension(x)
  PROVE  ParsedFile([file EXCEPT !.extensions = Put(@, n, x)])
<1> DEFINE f == Put(file.extensions, n, x)
<1>1. \A m \in DOMAIN f : m \in Name /\ ParsedExtension(f[m])
  BY DEF Put, Over, ParsedFile
<1> HIDE DEF f
<1>2. ParsedFile([file EXCEPT !.extensions = f])
  BY <1>1 DEF ParsedFile
<1> QED BY <1>2 DEF f

\* The number of a new option was compared with those before it.
LEMMA WithCustomOption ==
  ASSUME NEW file, ParsedFile(file), NEW n \in Name, NEW x, ParsedOption(x),
         \A m \in DOMAIN file.custom_options :
           ~(/\ file.custom_options[m].extendee = x.extendee
             /\ file.custom_options[m].number = x.number),
         n \notin DOMAIN file.custom_options
  PROVE  ParsedFile([file EXCEPT !.custom_options = Put(@, n, x)])
<1> DEFINE g == file.custom_options
           f == Put(g, n, x)
<1>1. \A m \in DOMAIN f : m \in Name /\ ParsedOption(f[m])
  BY DEF Put, Over, ParsedFile
<1>2. \A m \in DOMAIN f : (m = n /\ f[m] = x) \/ (m # n /\ m \in DOMAIN g /\ f[m] = g[m])
  BY DEF Put, Over
<1>3. \A l, m \in DOMAIN g : g[l].extendee = g[m].extendee /\ g[l].number = g[m].number => l = m
  BY DEF ParsedFile
<1> HIDE DEF f, g
<1>4. \A l, m \in DOMAIN f : f[l].extendee = f[m].extendee /\ f[l].number = f[m].number => l = m
  <2> SUFFICES ASSUME NEW l \in DOMAIN f, NEW m \in DOMAIN f,
                      f[l].extendee = f[m].extendee, f[l].number = f[m].number
               PROVE  l = m
    OBVIOUS
  <2> QED BY <1>2, <1>3 DEF g
<1>5. ParsedFile([file EXCEPT !.custom_options = f])
  BY <1>1, <1>4 DEF ParsedFile
<1> QED BY <1>5 DEF f, g

-----------------------------------------------------------------------------
(* Every step of the builder.                                              *)

BuiltInv ==
  stage \in {"scanning", "building", "parsed"} =>
    package \in Seq(STRING) /\ Sounds(stack) /\ ParsedFile(built)

\* The current statement is one that the grammar makes.
LEMMA CurrentIs ==
  ASSUME Inv, NEW is, NEW places, At(is, places)
  PROVE  Grammatical(Current) /\ Current.is = is
<1>1. /\ stage = "building" /\ cursor <= Len(source) /\ Current.is = is
  BY DEF At
<1>2. source \in Sources /\ cursor \in 1 .. Len(source) + 1
  BY <1>1 DEF Inv, Working
<1>3. Len(source) \in Nat /\ DOMAIN source = 1 .. Len(source)
      /\ \A i \in DOMAIN source : Grammatical(source[i])
  BY <1>2, BuilderAssumption
<1>4. cursor \in DOMAIN source
  BY <1>1, <1>2, <1>3
<1> QED BY <1>1, <1>3, <1>4 DEF Current

\* The innermost block, and the scope that a block or the package gives.
LEMMA TopIs ==
  ASSUME BuiltInv, stage = "building"
  PROVE  /\ package \in Seq(STRING) /\ Sounds(stack) /\ ParsedFile(built) /\ FileSyntax \in Syntax
         /\ stack # <<>> => Sound(Top) /\ Sounds(Outer) /\ Place = Top.kind
         /\ stack = <<>> => Place = "file"
<1>1. package \in Seq(STRING) /\ Sounds(stack) /\ ParsedFile(built)
  BY DEF BuiltInv
<1>2. FileSyntax \in Syntax
  BY <1>1 DEF FileSyntax, ParsedFile
<1>3. stack # <<>> => Sound(Top) /\ Sounds(Outer)
  BY <1>1, PoppedSound DEF Top, Outer
<1> QED BY <1>1, <1>2, <1>3 DEF Place

\* What was built before a refusal does not matter.
LEMMA RefuseBuilds ==
  ASSUME Refuse
  PROVE  BuiltInv'
BY DEF Refuse, BuiltInv

\* The innermost block is replaced by a sound one.
LEMMA WithinBuilds ==
  ASSUME BuiltInv, stage = "building", stack # <<>>, NEW block, Sound(block), Within(block)
  PROVE  BuiltInv'
<1>1. package \in Seq(STRING) /\ Sounds(Outer) /\ ParsedFile(built)
  BY TopIs
<1>2. Sounds(Append(Outer, block))
  BY <1>1, PushedSound
<1> QED BY <1>1, <1>2 DEF Within, Advance, BuiltInv

\* A sound block is opened.
LEMMA OpenBuilds ==
  ASSUME BuiltInv, stage = "building", NEW block, Sound(block), Open(block)
  PROVE  BuiltInv'
<1>1. package \in Seq(STRING) /\ Sounds(stack) /\ ParsedFile(built)
  BY DEF BuiltInv
<1>2. Sounds(Append(stack, block))
  BY <1>1, PushedSound
<1> QED BY <1>1, <1>2 DEF Open, Advance, BuiltInv

\* A block is closed and leaves a parsed file.
LEMMA CloseBuilds ==
  ASSUME BuiltInv, stage = "building", stack # <<>>, NEW file, ParsedFile(file), Close(file)
  PROVE  BuiltInv'
<1>1. package \in Seq(STRING) /\ Sounds(Outer)
  BY TopIs
<1> QED BY <1>1 DEF Close, Advance, BuiltInv

\* A declaration that leaves the blocks as they are.
LEMMA DeclareBuilds ==
  ASSUME BuiltInv, stage = "building", NEW file, ParsedFile(file), built' = file, Advance,
         UNCHANGED <<stack, package>>
  PROVE  BuiltInv'
<1>1. package \in Seq(STRING) /\ Sounds(stack)
  BY DEF BuiltInv
<1> QED BY <1>1 DEF Advance, BuiltInv

\* A block that was just opened.
LEMMA OpenedIsSound ==
  ASSUME NEW kind \in {"message", "enum", "service", "oneof"}, NEW name,
         kind # "oneof" => name \in Name
  PROVE  Sound(Opened(kind, name))
<1>1. IsStack(<<>>) /\ DOMAIN <<>> = {}
  BY DEF IsStack
<1>2. Fielded(<<>>) /\ Methods(<<>>)
  BY <1>1 DEF Fielded, Methods
<1>3. ParsedFeatures(Nothing)
  BY DEF ParsedFeatures, Nothing
<1> QED BY <1>2, <1>3 DEF Sound, Opened, BlockParts

\* Parts of a block that linking does not rely on.
LEMMA OtherParts ==
  ASSUME NEW b, Sound(b), NEW x
  PROVE  /\ Sound([b EXCEPT !.values = x]) /\ Sound([b EXCEPT !.allow_alias = x])
         /\ Sound([b EXCEPT !.oneofs = x]) /\ Sound([b EXCEPT !.extension_ranges = x])
         /\ \A y : Sound([b EXCEPT !.names = x, !.ranges = y])
BY DEF Sound, BlockParts

\* The file's own statements.
LEMMA FileBuilds ==
  ASSUME Inv, BuiltInv, Scan \/ Language \/ Package \/ Import \/ EndOfFile
  PROVE  BuiltInv'
<1>1. CASE Scan
  <2>1. CASE Refuse
    BY <2>1, RefuseBuilds
  <2>2. CASE ~Refuse
    BY <1>1, <2>2 DEF Scan, BuiltInv
  <2> QED BY <2>1, <2>2
<1>2. CASE Language
  <2>1. CASE Refuse
    BY <2>1, RefuseBuilds
  <2>2. CASE ~Refuse
    <3>1. /\ stage = "building" /\ Current.syntax \in Syntax /\ Advance /\ UNCHANGED <<stack, package>>
          /\ built' = [built EXCEPT !.syntax = Current.syntax, !.features = Defaults(Current.syntax)]
      BY <1>2, <2>2 DEF Language, At
    <3>2. ParsedFile(built')
      BY <3>1, TopIs, WithLanguage
    <3> QED BY <3>1, <3>2, DeclareBuilds
  <2> QED BY <2>1, <2>2
<1>3. CASE Package
  <2>1. CASE Refuse
    BY <2>1, RefuseBuilds
  <2>2. CASE ~Refuse
    <3>1. /\ At("package", {"file"}) /\ package' = Current.name /\ Advance
          /\ UNCHANGED <<stack, built>>
      BY <1>3, <2>2 DEF Package
    <3>2. Grammatical(Current) /\ Current.is = "package" /\ stage = "building"
      BY <3>1, CurrentIs DEF At
    <3>3. Current.name \in Seq(STRING)
      BY <3>2 DEF Grammatical, Name
    <3> QED BY <3>1, <3>2, <3>3 DEF BuiltInv, Advance
  <2> QED BY <2>1, <2>2
<1>4. CASE Import
  <2>1. stage = "building" /\ Advance /\ UNCHANGED <<stack, package, built>>
    BY <1>4 DEF Import, At
  <2>2. ParsedFile(built)
    BY <2>1, TopIs
  <2> QED BY <2>1, <2>2, DeclareBuilds
<1>5. CASE EndOfFile
  BY <1>5 DEF EndOfFile, BuiltInv
<1> QED BY <1>1, <1>2, <1>3, <1>4, <1>5

\* A feature is set.
LEMMA FeatureBuilds ==
  ASSUME Inv, BuiltInv, SetFeature
  PROVE  BuiltInv'
<1>1. At("option", {"file", "message", "enum"}) /\ stage = "building"
  BY DEF SetFeature, At
<1>2. Current.feature \in Feature
  <2>1. Grammatical(Current) /\ Current.is = "option"
    BY <1>1, CurrentIs
  <2> QED BY <2>1 DEF Grammatical
<1>3. CASE Place = "file"
  <2>1. /\ built' = [built EXCEPT !.options = Put(@, Current.feature, Current.value)]
        /\ Advance /\ UNCHANGED <<stack, package>>
    BY <1>3 DEF SetFeature
  <2>2. ParsedFile(built')
    BY <1>1, <1>2, <2>1, TopIs, WithOption
  <2> QED BY <1>1, <2>1, <2>2, DeclareBuilds
<1>4. CASE Place # "file"
  <2> DEFINE block == [Top EXCEPT !.options = Put(@, Current.feature, Current.value)]
  <2>1. Within(block) /\ stack # <<>>
    BY <1>4 DEF SetFeature, Place
  <2>2. Sound(Top)
    BY <1>1, <2>1, TopIs
  <2>3. ParsedFeatures(Put(Top.options, Current.feature, Current.value))
    BY <1>2, <2>2, OptionSet DEF Sound
  <2>4. Sound(block)
    BY <2>2, <2>3 DEF Sound, BlockParts
  <2> HIDE DEF block
  <2> QED BY <1>1, <2>1, <2>4, WithinBuilds
<1> QED BY <1>3, <1>4

\* One element more makes a sequence that is not empty.
LEMMA NotEmpty ==
  ASSUME NEW S, NEW s \in Seq(S), NEW x \in S
  PROVE  Append(s, x) \in Seq(S) \ {<<>>}
<1>1. Append(s, x) \in Seq(S) /\ Len(Append(s, x)) = Len(s) + 1 /\ Len(s) \in Nat
  OBVIOUS
<1>2. Len(<<>>) = 0
  OBVIOUS
<1> QED BY <1>1, <1>2

\* A full name is that of the scope and one identifier more.
LEMMA NameInScope ==
  ASSUME NEW scope \in Seq(STRING), NEW n \in STRING
  PROVE  Append(scope, n) \in Name
BY NotEmpty DEF Name

\* Blocks that open.
LEMMA OpeningBuilds ==
  ASSUME Inv, BuiltInv, OpenMessage \/ OpenEnum \/ OpenService \/ OpenOneof \/ OpenExtend
  PROVE  BuiltInv'
<1>1. ASSUME NEW is \in {"message", "enum", "service"}, NEW places \in SUBSET {"file", "message"},
             At(is, places)
      PROVE  stage = "building" /\ Append(Scope, Current.name) \in Name
  <2>1. stage = "building" /\ Place \in places
    BY <1>1 DEF At
  <2>2. Current.name \in STRING
    <3>1. Grammatical(Current) /\ Current.is = is
      BY <1>1, CurrentIs
    <3> QED BY <3>1 DEF Grammatical
  <2>3. Scope \in Seq(STRING)
    <3>1. CASE stack = <<>>
      BY <2>1, <3>1, TopIs DEF Scope
    <3>2. CASE stack # <<>>
      <4>1. Sound(Top) /\ Place = Top.kind
        BY <2>1, <3>2, TopIs
      <4>2. Top.kind = "message"
        BY <2>1, <4>1 DEF Sound
      <4> QED BY <3>2, <4>1, <4>2 DEF Sound, Scope, Name
    <3> QED BY <3>1, <3>2
  <2> QED BY <2>1, <2>2, <2>3, NameInScope
<1>2. CASE OpenMessage
  <2>1. stage = "building" /\ Append(Scope, Current.name) \in Name
    BY <1>1, <1>2 DEF OpenMessage
  <2>2. Open(Opened("message", Append(Scope, Current.name)))
    BY <1>2 DEF OpenMessage
  <2> QED BY <2>1, <2>2, OpenedIsSound, OpenBuilds
<1>3. CASE OpenEnum
  <2>1. stage = "building" /\ Append(Scope, Current.name) \in Name
    BY <1>1, <1>3 DEF OpenEnum
  <2>2. Open(Opened("enum", Append(Scope, Current.name)))
    BY <1>3 DEF OpenEnum
  <2> QED BY <2>1, <2>2, OpenedIsSound, OpenBuilds
<1>4. CASE OpenService
  <2>1. stage = "building" /\ Append(Scope, Current.name) \in Name
    BY <1>1, <1>4 DEF OpenService
  <2>2. Open(Opened("service", Append(Scope, Current.name)))
    BY <1>4 DEF OpenService
  <2> QED BY <2>1, <2>2, OpenedIsSound, OpenBuilds
<1>5. CASE OpenOneof
  <2>1. stage = "building"
    BY <1>5 DEF OpenOneof, At
  <2>2. Refuse \/ Open(Opened("oneof", Current.name))
    BY <1>5 DEF OpenOneof
  <2>3. Sound(Opened("oneof", Current.name))
    BY OpenedIsSound
  <2> QED BY <2>1, <2>2, <2>3, OpenBuilds, RefuseBuilds
<1>6. CASE OpenExtend
  <2> DEFINE of == [Current.of EXCEPT !.absolute = FALSE]
             block == [Opened("extend", Scope) EXCEPT !.of = of]
  <2>1. At("extend", {"file", "message"}) /\ stage = "building" /\ (Refuse \/ Open(block))
    BY <1>6 DEF OpenExtend, At
  <2>2. NamedKind(Current.of)
    <3>1. Grammatical(Current) /\ Current.is = "extend"
      BY <2>1, CurrentIs
    <3> QED BY <3>1 DEF Grammatical
  <2>3. NamedKind(of)
    BY <2>2 DEF NamedKind, ParsedKind
  <2>4. Scope \in Seq(STRING)
    <3>1. CASE stack = <<>>
      BY <2>1, <3>1, TopIs DEF Scope
    <3>2. CASE stack # <<>>
      <4>1. Sound(Top) /\ Place = Top.kind /\ Place \in {"file", "message"}
        BY <2>1, <3>2, TopIs DEF At
      <4>2. Top.kind = "message"
        BY <4>1 DEF Sound
      <4> QED BY <3>2, <4>1, <4>2 DEF Sound, Scope, Name
    <3> QED BY <3>1, <3>2
  <2> HIDE DEF of
  <2>5. Sound(block)
    <3>1. IsStack(<<>>) /\ DOMAIN <<>> = {}
      BY DEF IsStack
    <3>2. Fielded(<<>>) /\ Methods(<<>>)
      BY <3>1 DEF Fielded, Methods
    <3>3. ParsedFeatures(Nothing)
      BY DEF ParsedFeatures, Nothing
    <3> QED BY <2>3, <2>4, <3>2, <3>3 DEF Sound, Opened, BlockParts
  <2> HIDE DEF block
  <2> QED BY <2>1, <2>5, OpenBuilds, RefuseBuilds
<1> QED BY <1>2, <1>3, <1>4, <1>5, <1>6

\* Statements that change the innermost block but for its fields.
LEMMA BlockBuilds ==
  ASSUME Inv, BuiltInv, Reserve \/ ReserveExtensions \/ DeclareValue \/ AllowAlias \/ DeclareMethod
  PROVE  BuiltInv'
<1>1. stage = "building" /\ stack # <<>>
  BY DEF Reserve, ReserveExtensions, DeclareValue, AllowAlias, DeclareMethod, At, Place
<1>2. Sound(Top)
  BY <1>1, TopIs
<1>3. CASE Reserve
  <2>1. Refuse \/ Within([Top EXCEPT !.names = @ \o Current.names, !.ranges = @ \o Current.ranges])
    BY <1>3 DEF Reserve
  <2>2. Sound([Top EXCEPT !.names = @ \o Current.names, !.ranges = @ \o Current.ranges])
    BY <1>2, OtherParts
  <2> QED BY <1>1, <2>1, <2>2, WithinBuilds, RefuseBuilds
<1>4. CASE ReserveExtensions
  <2> DEFINE x == Top.extension_ranges \cup UNION {Current.ranges[i][1] .. Current.ranges[i][2] :
                                                    i \in DOMAIN Current.ranges}
  <2>1. Refuse \/ Within([Top EXCEPT !.extension_ranges = x])
    BY <1>4 DEF ReserveExtensions
  <2> HIDE DEF x
  <2>2. Sound([Top EXCEPT !.extension_ranges = x])
    BY <1>2, OtherParts
  <2> QED BY <1>1, <2>1, <2>2, WithinBuilds, RefuseBuilds
<1>5. CASE DeclareValue
  <2> DEFINE x == Append(Top.values, [name |-> Current.name, number |-> Current.number])
  <2>1. Refuse \/ Within([Top EXCEPT !.values = x])
    BY <1>5 DEF DeclareValue
  <2> HIDE DEF x
  <2>2. Sound([Top EXCEPT !.values = x])
    BY <1>2, OtherParts
  <2> QED BY <1>1, <2>1, <2>2, WithinBuilds, RefuseBuilds
<1>6. CASE AllowAlias
  <2>1. Within([Top EXCEPT !.allow_alias = Current.value])
    BY <1>6 DEF AllowAlias
  <2>2. Sound([Top EXCEPT !.allow_alias = Current.value])
    BY <1>2, OtherParts
  <2> QED BY <1>1, <2>1, <2>2, WithinBuilds
<1>7. CASE DeclareMethod
  <2>1. At("rpc", {"service"}) /\ (Refuse \/ Within([Top EXCEPT !.methods = Append(@, Current)]))
    BY <1>7 DEF DeclareMethod
  <2>2. NamedKind(Current.input) /\ NamedKind(Current.output)
    <3>1. Grammatical(Current) /\ Current.is = "rpc"
      BY <2>1, CurrentIs
    <3> QED BY <3>1 DEF Grammatical
  <2>3. Methods(Append(Top.methods, Current))
    BY <1>2, <2>2, MethodAdded DEF Sound
  <2>4. Sound([Top EXCEPT !.methods = Append(@, Current)])
    BY <1>2, <2>3 DEF Sound, BlockParts
  <2> QED BY <1>1, <2>1, <2>4, WithinBuilds, RefuseBuilds
<1> QED BY <1>3, <1>4, <1>5, <1>6, <1>7

\* Fields of messages and of oneofs.
LEMMA FieldBuilds ==
  ASSUME Inv, BuiltInv, DeclareField \/ DeclareMember
  PROVE  BuiltInv'
<1>1. stage = "building" /\ stack # <<>>
  BY DEF DeclareField, DeclareMember, At, Place
<1>2. Sound(Top) /\ Sounds(stack)
  BY <1>1, TopIs
<1>3. Grammatical(Current) /\ Current.is = "field"
  BY CurrentIs DEF DeclareField, DeclareMember
<1>4. Current.label \in {None, "optional", "required", "repeated"}
  BY <1>3 DEF Grammatical
<1>5. CASE Refuse
  BY <1>5, RefuseBuilds
<1>6. CASE DeclareField /\ ~Refuse
  <2> DEFINE x == Described(Current, Current.label, None)
  <2>1. /\ ~FieldRefused(Current, Current.label, None)
        /\ Within([Top EXCEPT !.fields = Append(@, x)])
    BY <1>6 DEF DeclareField
  <2>2. ParsedField(FieldOf(Current, Current.label, None))
    BY <1>3, <1>4, <2>1, FieldInOrder
  <2>3. ParsedField(x.field)
    BY <2>2 DEF Described
  <2> HIDE DEF x
  <2>4. Fielded(Append(Top.fields, x))
    BY <1>2, <2>3, FieldAdded DEF Sound
  <2>5. Sound([Top EXCEPT !.fields = Append(@, x)])
    BY <1>2, <2>4 DEF Sound, BlockParts
  <2> QED BY <1>1, <2>1, <2>5, WithinBuilds
<1>7. CASE DeclareMember /\ ~Refuse
  <2> DEFINE x == Described(Current, None, Top.name)
             k == Len(stack) - 1
             fields == Append(stack[k].fields, x)
  <2>1. /\ ~FieldRefused(Current, None, Top.name)
        /\ stack' = [stack EXCEPT ![k].fields = Append(@, x)]
        /\ Advance /\ UNCHANGED <<package, imports, built>>
    BY <1>7 DEF DeclareMember
  <2>2. ParsedField(FieldOf(Current, None, Top.name))
    BY <1>3, <2>1, FieldInOrder
  <2>3. ParsedField(x.field)
    BY <2>2 DEF Described
  <2> HIDE DEF x, k
  <2>4. k \in DOMAIN stack => Sound([stack[k] EXCEPT !.fields = fields])
    <3>1. SUFFICES ASSUME k \in DOMAIN stack PROVE Sound([stack[k] EXCEPT !.fields = fields])
      OBVIOUS
    <3>2. Sound(stack[k])
      BY <1>2, <3>1 DEF Sounds
    <3>3. Fielded(fields)
      BY <2>3, <3>2, FieldAdded DEF Sound
    <3> HIDE DEF fields
    <3> QED BY <3>2, <3>3 DEF Sound, BlockParts
  <2>5. stack' = [stack EXCEPT ![k] = [stack[k] EXCEPT !.fields = fields]]
    BY <2>1
  <2>6. Sounds(stack')
    BY <1>2, <2>4, <2>5, ChangedSound
  <2>7. package \in Seq(STRING) /\ ParsedFile(built)
    BY <1>1, TopIs
  <2> QED BY <2>1, <2>6, <2>7 DEF BuiltInv, Advance
<1> QED BY <1>5, <1>6, <1>7

\* Blocks that end.
LEMMA ClosingBuilds ==
  ASSUME Inv, BuiltInv, CloseMessage \/ CloseOneof \/ CloseEnum \/ CloseExtend \/ CloseService
  PROVE  BuiltInv'
<1>1. stage = "building" /\ stack # <<>>
  BY DEF CloseMessage, CloseOneof, CloseEnum, CloseExtend, CloseService, At, Place
<1>2. /\ Sound(Top) /\ Sounds(Outer) /\ Place = Top.kind /\ ParsedFile(built)
      /\ package \in Seq(STRING)
  BY <1>1, TopIs
<1>3. CASE Refuse
  BY <1>3, RefuseBuilds
<1>4. CASE CloseMessage /\ ~Refuse
  <2> DEFINE f == Top.fields
             message == [fields |-> [n \in {f[i].name : i \in DOMAIN f} |->
                                      f[CHOOSE i \in DOMAIN f : f[i].name = n].field],
                         extension_ranges |-> Top.extension_ranges, options |-> Top.options,
                         features |-> Defaults(FileSyntax)]
  <2>1. Top.kind = "message" /\ Close([built EXCEPT !.messages = Put(@, Top.name, message)])
    BY <1>2, <1>4 DEF CloseMessage, At
  <2>2. \A n \in {f[i].name : i \in DOMAIN f} :
          (CHOOSE i \in DOMAIN f : f[i].name = n) \in DOMAIN f
    OBVIOUS
  <2>3. ParsedMessage(message)
    BY <1>2, <2>2 DEF Sound, Fielded, ParsedMessage
  <2> HIDE DEF message
  <2>4. ParsedFile([built EXCEPT !.messages = Put(@, Top.name, message)])
    BY <1>2, <2>1, <2>3, WithMessage DEF Sound
  <2> QED BY <1>1, <2>1, <2>4, CloseBuilds
<1>5. CASE CloseOneof
  <2> DEFINE k == Len(Outer)
             x == Outer[k].oneofs \cup {Top.name}
  <2>1. stack' = [Outer EXCEPT ![k] = [Outer[k] EXCEPT !.oneofs = x]]
        /\ Advance /\ UNCHANGED <<package, imports, built>>
    BY <1>5 DEF CloseOneof
  <2> HIDE DEF k, x
  <2>2. k \in DOMAIN Outer => Sound([Outer[k] EXCEPT !.oneofs = x])
    BY <1>2, OtherParts DEF Sounds
  <2>3. Sounds(stack')
    BY <1>2, <2>1, <2>2, ChangedSound
  <2> QED BY <1>2, <2>1, <2>3 DEF BuiltInv, Advance
<1>6. CASE CloseEnum /\ ~Refuse
  <2> DEFINE enum == [values |-> {Top.values[i].name : i \in DOMAIN Top.values}, syntax |-> FileSyntax,
                      options |-> Top.options, features |-> Defaults(FileSyntax)]
  <2>1. Top.kind = "enum" /\ Close([built EXCEPT !.enums = Put(@, Top.name, enum)])
    BY <1>2, <1>6 DEF CloseEnum, At
  <2>2. ParsedEnum(enum)
    BY <1>2 DEF Sound, ParsedEnum
  <2> HIDE DEF enum
  <2>3. ParsedFile([built EXCEPT !.enums = Put(@, Top.name, enum)])
    BY <1>2, <2>1, <2>2, WithEnum DEF Sound
  <2> QED BY <1>1, <2>1, <2>3, CloseBuilds
<1>7. CASE CloseExtend
  BY <1>1, <1>2, <1>7, CloseBuilds DEF CloseExtend
<1>8. CASE CloseService /\ ~Refuse
  <2> DEFINE kinds == UNION {{Top.methods[i].input, Top.methods[i].output} : i \in DOMAIN Top.methods}
  <2>1. Top.kind = "service" /\ Close([built EXCEPT !.services = Put(@, Top.name, kinds)])
    BY <1>2, <1>8 DEF CloseService, At
  <2>2. \A kind \in kinds : NamedKind(kind)
    BY <1>2 DEF Sound, Methods
  <2> HIDE DEF kinds
  <2>3. ParsedFile([built EXCEPT !.services = Put(@, Top.name, kinds)])
    BY <1>2, <2>1, <2>2, WithService DEF Sound
  <2> QED BY <1>1, <2>1, <2>3, CloseBuilds
<1> QED BY <1>3, <1>4, <1>5, <1>6, <1>7, <1>8

\* Extensions and options.
LEMMA ExtensionBuilds ==
  ASSUME Inv, BuiltInv, DeclareExtension
  PROVE  BuiltInv'
<1> DEFINE label == Labelled(Current.label)
           n == Append(Scope, Current.name)
           field == FieldOf(Current, label, None)
           option == [extendee |-> Top.of.name, number |-> Current.number, kind |-> Current.kind,
                      cardinality |-> field.cardinality]
           extension == [extendee |-> Top.of, field |-> field]
<1>1. /\ At("field", {"extend"}) /\ stage = "building" /\ stack # <<>>
  BY DEF DeclareExtension, At, Place
<1>2. /\ Sound(Top) /\ Top.kind = "extend" /\ ParsedFile(built)
  BY <1>1, TopIs DEF At
<1>3. Grammatical(Current) /\ Current.is = "field"
  BY <1>1, CurrentIs
<1>4. label \in {None, "optional", "required", "repeated"} /\ Current.name \in STRING
      /\ Current.kind \in ParsedKind
  BY <1>3 DEF Grammatical, Labelled
<1>5. n \in Name
  BY <1>1, <1>2, <1>4, NameInScope DEF Sound, Scope
<1>6. CASE Refuse
  BY <1>6, RefuseBuilds
<1>7. CASE ~Refuse
  <2>1. ~FieldRefused(Current, label, None) /\ Advance /\ UNCHANGED <<stack, package>>
    BY <1>7 DEF DeclareExtension
  <2>2. ParsedField(field)
    BY <1>3, <1>4, <2>1, FieldInOrder
  <2>3. \/ ~OptionTaken(n, option) /\ built' = [built EXCEPT !.custom_options = Put(@, n, option)]
        \/ built' = [built EXCEPT !.extensions = Put(@, n, extension)]
    BY <1>7 DEF DeclareExtension
  <2>4. ParsedOption(option) /\ ParsedExtension(extension)
    <3> HIDE DEF field
    <3> QED BY <1>2, <1>4, <2>2 DEF ParsedOption, ParsedExtension, Sound
  <2> HIDE DEF label, n, field, option, extension
  <2>5. CASE ~OptionTaken(n, option) /\ built' = [built EXCEPT !.custom_options = Put(@, n, option)]
    <3>1. /\ n \notin DOMAIN built.custom_options
          /\ \A m \in DOMAIN built.custom_options :
               ~(/\ built.custom_options[m].extendee = option.extendee
                 /\ built.custom_options[m].number = option.number)
      BY <2>5 DEF OptionTaken
    <3>2. ParsedFile([built EXCEPT !.custom_options = Put(@, n, option)])
      BY <1>2, <1>5, <2>4, <3>1, WithCustomOption
    <3> QED BY <1>1, <2>1, <2>5, <3>2, DeclareBuilds
  <2>6. CASE built' = [built EXCEPT !.extensions = Put(@, n, extension)]
    <3>1. ParsedFile([built EXCEPT !.extensions = Put(@, n, extension)])
      BY <1>2, <1>5, <2>4, WithExtension
    <3> QED BY <1>1, <2>1, <2>6, <3>1, DeclareBuilds
  <2> QED BY <2>3, <2>5, <2>6
<1> QED BY <1>6, <1>7

\* Every step of the builder.
LEMMA BuildBuilds ==
  ASSUME Inv, BuiltInv, Build
  PROVE  BuiltInv'
<1>1. CASE SkipGroup
  <2>1. CASE Refuse
    BY <2>1, RefuseBuilds
  <2>2. CASE ~Refuse
    BY <1>1, <2>2 DEF SkipGroup, BuiltInv
  <2> QED BY <2>1, <2>2
<1> QED BY <1>1, FileBuilds, FeatureBuilds, OpeningBuilds, BlockBuilds, FieldBuilds, ClosingBuilds,
           ExtensionBuilds DEF Build

-----------------------------------------------------------------------------
(* Building and linking, one after the other.                              *)

ParsingInv ==
  /\ Inv /\ BuiltInv
  /\ phase = "parsing" => stage # "loaded" /\ reason = None
  /\ phase # "parsing" => LinkInv /\ SettingsInv

\* Where linking begins, its invariants hold.
LEMMA StartingHolds == Starting => LinkInv /\ SettingsInv
BY StartingLinks, StartingSettled

\* The same of the state after a step.
LEMMA StartingHoldsNext == Starting' => (LinkInv /\ SettingsInv)'
BY StartingHolds, PTL

\* Linking the one file that was built begins as linking a registry does.
LEMMA BeginLinkingStarts ==
  ASSUME ParsingInv, BeginLinking
  PROVE  Starting'
<1>1. /\ registry' = [files |-> [p \in {Root} |-> built], sees |-> [p \in {Root} |-> {Root}]]
      /\ order' = <<Root>> /\ todo' = <<Root>> /\ files' = registry'.files
      /\ phase' = "resolving" /\ reason' = reason /\ reason = None
  BY DEF BeginLinking, ParsingInv
<1>2. ParsedFile(built)
  BY DEF BeginLinking, ParsingInv, BuiltInv
<1>3. Path' = {Root}
  BY <1>1 DEF Path
<1>4. Loaded(registry')
  <2>1. /\ DOMAIN registry'.files = {Root} /\ registry'.files[Root] = built
        /\ registry'.sees[Root] = {Root}
    BY <1>1
  <2> QED BY <1>2, <2>1, OneFileLoaded
<1>5. <<Root>> \in Seq({Root}) /\ DOMAIN <<Root>> = {1} /\ <<Root>>[1] = Root
  OBVIOUS
<1>6. Distinct(<<Root>>) /\ Paths(<<Root>>) = {Root}
  BY <1>5 DEF Distinct, Paths
<1> QED BY <1>1, <1>3, <1>4, <1>5, <1>6 DEF Starting

\* A source to parse or a registry to link satisfies the invariant.
LEMMA ParsingBegins == ParsingInit => ParsingInv
<1> SUFFICES ASSUME ParsingInit PROVE ParsingInv
  OBVIOUS
<1>1. Inv
  BY InitInv
<1>2. CASE StartBuilding /\ phase = "parsing" /\ reason = None
  <2>1. /\ package = <<>> /\ stack = <<>> /\ stage = "scanning"
        /\ built = [syntax |-> "proto2", options |-> Nothing, features |-> Defaults("proto2"),
                    messages |-> Nothing, enums |-> Nothing, services |-> Nothing,
                    custom_options |-> Nothing, extensions |-> Nothing, settings |-> {}]
    BY <1>2 DEF StartBuilding
  <2>2. IsStack(<<>>) /\ DOMAIN <<>> = {} /\ <<>> \in Seq(STRING)
    BY DEF IsStack
  <2>3. Sounds(stack) /\ package \in Seq(STRING)
    BY <2>1, <2>2 DEF Sounds
  <2>4. ParsedFeatures(Nothing) /\ DOMAIN Nothing = {}
    BY DEF ParsedFeatures, Nothing
  <2>5. ParsedFile(built)
    BY <2>1, <2>4 DEF ParsedFile, Syntax
  <2> QED BY <1>1, <1>2, <2>1, <2>3, <2>5 DEF ParsingInv, BuiltInv
<1>3. CASE Init /\ stage = "loaded"
  <2>1. phase = "resolving"
    BY <1>3 DEF Init
  <2>2. LinkInv /\ SettingsInv
    BY <1>3, InitStarts, StartingHolds
  <2> QED BY <1>1, <1>3, <2>1, <2>2 DEF ParsingInv, BuiltInv
<1> QED BY <1>2, <1>3 DEF ParsingInit

\* Every step of parsing keeps the invariant.
LEMMA ParsingStep == ParsingInv /\ [ParsingNext]_<<building, vars>> => ParsingInv'
<1> SUFFICES ASSUME ParsingInv, [ParsingNext]_<<building, vars>> PROVE ParsingInv'
  OBVIOUS
<1>1. Inv'
  BY StepInv DEF ParsingInv
<1>2. ASSUME UNCHANGED building PROVE BuiltInv' /\ stage' = stage
  BY <1>2 DEF building, BuiltInv, ParsingInv
<1>3. ASSUME [Next]_vars, phase # "parsing"
      PROVE  phase' # "parsing" /\ LinkInv' /\ SettingsInv'
  <2>1. LinkInv /\ SettingsInv
    BY <1>3 DEF ParsingInv
  <2>2. LinkInv' /\ SettingsInv'
    BY <1>3, <2>1, LinkStep, SettingsKeep
  <2> QED BY <2>2 DEF LinkInv, VisitInv
<1>4. CASE phase = "parsing" /\ Build /\ UNCHANGED vars
  <2>1. BuiltInv'
    BY <1>4, BuildBuilds DEF ParsingInv
  <2>2. stage' # "loaded"
    BY <1>4 DEF ParsingInv, BuiltInv, Build, Scan, Language, Package, Import, SetFeature,
       OpenMessage, DeclareField, Reserve, ReserveExtensions, SkipGroup, CloseMessage, OpenOneof,
       DeclareMember, CloseOneof, OpenEnum, DeclareValue, AllowAlias, CloseEnum, OpenExtend,
       DeclareExtension, CloseExtend, OpenService, DeclareMethod, CloseService, EndOfFile,
       Refuse, Advance, Open, Within, Close
  <2>3. phase' = "parsing" /\ reason' = None
    BY <1>4 DEF vars, ParsingInv
  <2> QED BY <1>1, <2>1, <2>2, <2>3 DEF ParsingInv
<1>5. CASE BeginLinking
  <2>1. (LinkInv /\ SettingsInv)' /\ phase' # "parsing"
    BY <1>5, BeginLinkingStarts, StartingHoldsNext DEF BeginLinking
  <2>2. BuiltInv'
    BY <1>2, <1>5 DEF BeginLinking
  <2> QED BY <1>1, <2>1, <2>2 DEF ParsingInv
<1>6. CASE phase # "parsing" /\ Next /\ UNCHANGED building
  BY <1>1, <1>2, <1>3, <1>6 DEF ParsingInv
<1>7. CASE UNCHANGED <<building, vars>>
  <2>1. CASE phase # "parsing"
    BY <1>1, <1>2, <1>3, <1>7, <2>1 DEF ParsingInv
  <2>2. CASE phase = "parsing"
    BY <1>1, <1>2, <1>7, <2>2 DEF ParsingInv, vars
  <2> QED BY <2>1, <2>2
<1> QED BY <1>4, <1>5, <1>6, <1>7 DEF ParsingNext, Refused

\* Before linking nothing is refused or accepted for what linking looks at.
LEMMA ParsingFits ==
  ParsingInv => /\ NothingAmbiguous /\ MergeComplete /\ TypesBound
                /\ FeaturesNearest /\ CodecReady /\ SettingsFit
<1>1. ASSUME ParsingInv, phase = "parsing"
      PROVE  /\ NothingAmbiguous /\ MergeComplete /\ TypesBound
             /\ FeaturesNearest /\ CodecReady /\ SettingsFit
  <2>1. ~Accepted /\ reason # "conflict" /\ reason # "duplicate"
    BY <1>1, NoReason DEF Accepted, ParsingInv
  <2> QED BY <2>1 DEF NothingAmbiguous, NamesUnique, NumbersUnique, MergeComplete, TypesBound,
       FeaturesNearest, CodecReady, SettingsFit
<1>2. ASSUME ParsingInv, phase # "parsing"
      PROVE  /\ NothingAmbiguous /\ MergeComplete /\ TypesBound
             /\ FeaturesNearest /\ CodecReady /\ SettingsFit
  <2>1. LinkInv /\ SettingsInv
    BY <1>2 DEF ParsingInv
  <2> QED BY <2>1, NeverAmbiguous, MergedCompletely, BoundTypes, NearestFeatures, ReadyForCodec,
             FittingSettings
<1> QED BY <1>1, <1>2

\* What linking takes for granted of a parsed file.
HandedOn == stage = "parsed" => ParsedFile(built)

\* parse_file hands on what linking takes for granted, from any source that the
\* grammar accepts: parse_field has put every field in order, every declaration
\* has a name and no two custom options of a message share a number.
THEOREM BuildingIsHandedOn == ParsingSpec => []HandedOn
<1>1. ParsingInv => HandedOn
  BY DEF ParsingInv, BuiltInv, HandedOn
<1> QED BY <1>1, ParsingBegins, ParsingStep, PTL DEF ParsingSpec

\* parse_with_options from source to schema: what linking guarantees of the files
\* of a registry it guarantees of every source that is built and linked alone.
THEOREM ParsingIsSound ==
  ParsingSpec => [](/\ NothingAmbiguous /\ MergeComplete /\ TypesBound
                    /\ FeaturesNearest /\ CodecReady /\ SettingsFit)
BY ParsingBegins, ParsingStep, ParsingFits, PTL DEF ParsingSpec

-----------------------------------------------------------------------------
(* What is built, exactly.  Every part of the builder's state is what the  *)
(* statements before the cursor make of it (Tracked): the block at a level *)
(* of the stack is the one of the source that is open at that level.       *)

Level(k) == Depths(source)[k]

\* The positions of a set before c.
Before(S, c) == {j \in S : j < c}

\* The blocks of a sort that end before c.
Ended(is, c) == Before(All(is), c) \ Around(c)

\* A sequence lists what G gives for some positions, in their order.
Lists(s, S, G) ==
  /\ IsStack(s)
  /\ \E q \in [DOMAIN s -> S] :
       /\ \A a, b \in DOMAIN s : a < b => q[a] < q[b]
       /\ \A j \in S : \E a \in DOMAIN s : q[a] = j
       /\ \A a \in DOMAIN s : s[a] = G[q[a]]

\* A sequence joins the sequences that G gives for some positions.
PartsAt(S, G) == {p \in S \X Nat : p[2] \in DOMAIN G[p[1]]}
Joins(s, S, G) ==
  /\ IsStack(s)
  /\ \E q \in [DOMAIN s -> PartsAt(S, G)] :
       /\ \A a, b \in DOMAIN s : q[a] = q[b] => a = b
       /\ \A p \in PartsAt(S, G) : \E a \in DOMAIN s : q[a] = p
       /\ \A a \in DOMAIN s : s[a] = G[q[a][1]][q[a][2]]

\* What the statements give, by position.
Descriptions == [j \in DOMAIN source |-> Described(source[j], LabelOf(j), OneofAround(j))]
ValuesAt == [j \in DOMAIN source |-> [name |-> source[j].name, number |-> source[j].number]]
NamesAt  == [j \in DOMAIN source |-> source[j].names]
RangesAt == [j \in DOMAIN source |-> source[j].ranges]
ExtensionRangesAt(j) ==
  UNION {source[j].ranges[i][1] .. source[j].ranges[i][2] : i \in DOMAIN source[j].ranges}

\* The options that some statements set, the last of each feature.
LastSet(options, S) ==
  /\ options = [x \in {source[j].feature : j \in S} |-> options[x]]
  /\ \A j \in S : (\A k \in S : source[k].feature = source[j].feature => k <= j)
                    => options[source[j].feature] = source[j].value

\* The last setting of allow_alias.
AliasSaid(alias, S) ==
  /\ S = {} => alias = FALSE
  /\ \A j \in S : (\A k \in S : k <= j) => alias = source[j].value

MessageTracked(b, i, c) ==
  /\ Lists(b.fields, Before(FieldsIn(i), c), Descriptions)
  /\ b.oneofs = {source[o].name : o \in Before(Inside("oneof", i), c) \ Around(c)}
  /\ Joins(b.names, Before(Inside("reserved", i), c), NamesAt)
  /\ Joins(b.ranges, Before(Inside("reserved", i), c), RangesAt)
  /\ b.extension_ranges = UNION {ExtensionRangesAt(j) : j \in Before(Inside("extensions", i), c)}
  /\ LastSet(b.options, Before(Inside("option", i), c))

EnumTracked(b, i, c) ==
  /\ Lists(b.values, Before(Inside("value", i), c), ValuesAt)
  /\ AliasSaid(b.allow_alias, Before(Inside("allow_alias", i), c))
  /\ Joins(b.names, Before(Inside("reserved", i), c), NamesAt)
  /\ Joins(b.ranges, Before(Inside("reserved", i), c), RangesAt)
  /\ LastSet(b.options, Before(Inside("option", i), c))

\* A block of the stack is what the block at i is so far.
BlockTracked(b, i, c) ==
  /\ b.kind = source[i].is
  /\ b.kind \in {"message", "enum", "service"} => b.name = FullName(i)
  /\ b.kind = "message" => MessageTracked(b, i, c)
  /\ b.kind = "enum"    => EnumTracked(b, i, c)
  /\ b.kind = "service" => Lists(b.methods, Before(Inside("rpc", i), c), source)
  /\ b.kind = "oneof"   => b.name = source[i].name
  /\ b.kind = "extend"  => b.name = ScopeAround(i) /\ b.of = [source[i].of EXCEPT !.absolute = FALSE]

StackTracked(s, c) ==
  /\ Len(s) = Level(c - 1)
  /\ \A i \in Around(c) : source[i].is # "group" /\ BlockTracked(s[Level(i)], i, c)
  /\ \A n \in 1 .. Len(s) : \E i \in Around(c) : Level(i) = n

\* Where the builder looks for a statement.
InPlace(j) ==
  /\ source[j].is = "package"  => Owner(j) = 0
  /\ source[j].is = "reserved" => Owner(j) # 0 /\ source[Owner(j)].is \in {"message", "enum"}
  /\ source[j].is = "oneof"    => Owner(j) # 0 /\ source[Owner(j)].is = "message"

ExtensionsAt == {j \in All("field") : source[Owner(j)].is = "extend"}
OptionsAt == {j \in ExtensionsAt : IsOptionMessage(Extends(j))}
OthersAt  == {j \in ExtensionsAt : ~IsOptionMessage(Extends(j))}

\* Two extensions are at odds.
ExtendAlike(i, j) ==
  /\ IsOptionMessage(Extends(i)) = IsOptionMessage(Extends(j))
  /\ \/ FullName(i) = FullName(j)
     \/ /\ IsOptionMessage(Extends(i)) /\ Extends(i).name = Extends(j).name
        /\ source[i].number = source[j].number

\* In one block, statements of a sort have names of their own.
NamedApart(is, c) ==
  \A i, j \in Before(All(is), c) : Owner(i) = Owner(j) /\ source[i].name = source[j].name => i = j

ReservedApart(m) == \A i, j \in Inside("reserved", m) : ~Overlap(i, j)

TypesEnded(c) == Ended("message", c) \cup Ended("enum", c)

FullyNamedApart(S) == \A i, j \in S : FullName(i) = FullName(j) => i = j

\* What the builder has read is in order and where it looks for it.
FitBefore(c) ==
  \A j \in DOMAIN source : j < c /\ Innermost(j, {"group"}) = 0 => ~Misfit(j) /\ InPlace(j)
PlacedBefore(c) == \A j \in DOMAIN source : j < c /\ Innermost(j, {"group"}) = 0 => InPlace(j)

OnePackage(c) == \A i, j \in Before(All("package"), c) : i = j
ExtendedApart(c) == \A i, j \in Before(ExtensionsAt, c) : i # j => ~ExtendAlike(i, j)

\* The blocks that have ended are in order.
EndedInOrder(c) ==
  /\ \A m \in Ended("message", c) : ~MessageClashes(m)
  /\ \A e \in Ended("enum", c) : ~EnumClashes(e)
  /\ \A m \in TypesEnded(c) : ReservedApart(m)
  /\ FullyNamedApart(TypesEnded(c)) /\ FullyNamedApart(Ended("service", c))

\* Nothing before c is out of order or at odds.
InOrderBefore(c) ==
  /\ FitBefore(c) /\ OnePackage(c)
  /\ NamedApart("rpc", c) /\ NamedApart("oneof", c) /\ ExtendedApart(c)
  /\ EndedInOrder(c)

MessageMade(d, m) ==
  /\ DOMAIN d.fields = {source[j].name : j \in FieldsIn(m)}
  /\ \A j \in FieldsIn(m) :
       LET f == d.fields[source[j].name]
       IN  f.number = source[j].number /\ f.kind = source[j].kind /\ f.oneof = OneofAround(j)
  /\ d.extension_ranges = UNION {ExtensionRangesAt(j) : j \in Inside("extensions", m)}
  /\ d.options = SettingsIn(m)

EnumMade(d, e) ==
  /\ d.values = {source[j].name : j \in Inside("value", e)}
  /\ d.options = SettingsIn(e)

KindsIn(s) == UNION {{source[j].input, source[j].output} : j \in Inside("rpc", s)}

\* Descriptors under the full names of the blocks or the fields they describe.
MessagesMade(f, S) ==
  DOMAIN f = {FullName(m) : m \in S} /\ \A m \in S : MessageMade(f[FullName(m)], m)
EnumsMade(f, S) ==
  DOMAIN f = {FullName(e) : e \in S} /\ \A e \in S : EnumMade(f[FullName(e)], e)
ServicesMade(f, S) ==
  DOMAIN f = {FullName(s) : s \in S} /\ \A s \in S : f[FullName(s)] = KindsIn(s)
OptionsMade(f, S) ==
  /\ DOMAIN f = {FullName(j) : j \in S}
  /\ \A j \in S : f[FullName(j)].extendee = Extends(j).name /\ f[FullName(j)].number = source[j].number
OthersMade(f, S) ==
  /\ DOMAIN f = {FullName(j) : j \in S}
  /\ \A j \in S : /\ f[FullName(j)].extendee.name = Extends(j).name
                  /\ f[FullName(j)].field.number = source[j].number

\* The descriptors are those of what ends before c.
Made(file, c) ==
  /\ MessagesMade(file.messages, Ended("message", c)) /\ EnumsMade(file.enums, Ended("enum", c))
  /\ ServicesMade(file.services, Ended("service", c))
  /\ OptionsMade(file.custom_options, Before(OptionsAt, c))
  /\ OthersMade(file.extensions, Before(OthersAt, c))
  /\ LastSet(file.options, Before(Inside("option", 0), c))

ImportAt(j) == [path |-> source[j].path, kind |-> source[j].kind]
ImportedBefore(c) ==
  [n \in DOMAIN Sorted(Before(All("import"), c)) |-> ImportAt(Sorted(Before(All("import"), c))[n])]

\* The state of the builder is what the statements before c make of it.
Tracked(c, s, file, p, list) ==
  /\ StackTracked(s, c) /\ InOrderBefore(c) /\ Made(file, c)
  /\ p = PackageBefore(c) /\ list = ImportedBefore(c)

ExactInv ==
  /\ stage \in {"scanning", "building", "parsed"} => Tracked(cursor, stack, built, package, imports)
  /\ stage = "parsed"  => cursor > Len(source)
  /\ stage = "refused" => Defective

-----------------------------------------------------------------------------
(* Positions in the source and the blocks around them.                     *)

\* A source is a sequence, and what opens more than it closes has a level.
LEMMA SourceIs ==
  ASSUME source \in Sources
  PROVE  /\ Len(source) \in Nat /\ DOMAIN source = 1 .. Len(source)
         /\ \A k \in 0 .. Len(source) : Level(k) \in Nat
         /\ Level(0) = 0 /\ Level(Len(source)) = 0
<1>1. Len(source) \in Nat /\ DOMAIN source = 1 .. Len(source)
  BY BuilderAssumption
<1>2. Level(0) = 0
  BY DepthAtStart DEF Level
<1>3. /\ Depths(source)[Len(source)] = 0
      /\ \A i \in DOMAIN source : Depths(source)[i] >= 0
  BY BuilderAssumption
<1>4. ASSUME NEW k \in 0 .. Len(source) PROVE Level(k) \in Nat
  <2>1. CASE k = 0
    BY <1>2, <2>1
  <2>2. CASE k # 0
    <3>1. k \in 1 .. Len(source)
      BY <1>1, <2>2
    <3>2. Depths(source)[k] \in Int
      BY <3>1, DepthStep
    <3>3. Depths(source)[k] >= 0
      BY <1>1, <1>3, <3>1
    <3> QED BY <3>2, <3>3 DEF Level
  <2> QED BY <2>1, <2>2
<1> QED BY <1>1, <1>2, <1>3, <1>4 DEF Level

\* A statement changes the level by one at most.
LEMMA LevelStep ==
  ASSUME source \in Sources, NEW c \in 1 .. Len(source)
  PROVE  /\ Level(c - 1) \in Nat /\ Level(c) \in Nat
         /\ source[c].is \in Opening => Level(c) = Level(c - 1) + 1
         /\ source[c].is = "end" => Level(c) = Level(c - 1) - 1
         /\ source[c].is \notin Opening \cup {"end"} => Level(c) = Level(c - 1)
<1>1. c - 1 \in 0 .. Len(source) /\ c \in 0 .. Len(source)
  BY SourceIs
<1>2. Level(c - 1) \in Nat /\ Level(c) \in Nat
  BY <1>1, SourceIs
<1>3. /\ source[c].is \in Opening => Depths(source)[c] = Depths(source)[c - 1] + 1
      /\ source[c].is = "end" => Depths(source)[c] = Depths(source)[c - 1] - 1
      /\ source[c].is \notin Opening \cup {"end"} => Depths(source)[c] = Depths(source)[c - 1]
  BY DepthStep
<1> QED BY <1>2, <1>3 DEF Level

\* The blocks around a position, by levels.
LEMMA AroundIs ==
  ASSUME NEW c
  PROVE  Around(c) = {i \in 1 .. c - 1 : source[i].is \in Opening
                                         /\ \A k \in i .. c - 1 : Level(k) >= Level(i)}
BY DEF Around, Level

\* A block around a position is before it and has a level of its own.
LEMMA AroundHas ==
  ASSUME source \in Sources, NEW c \in 1 .. Len(source) + 1, NEW i \in Around(c)
  PROVE  /\ i \in Nat /\ i \in 1 .. Len(source) /\ i < c /\ source[i].is \in Opening
         /\ Level(i) \in 1 .. Level(c - 1) /\ Level(c - 1) \in Nat /\ Level(i) \in Nat
         /\ Level(i) = Level(i - 1) + 1
         /\ \A k \in i .. c - 1 : Level(k) >= Level(i)
<1>1. /\ i \in 1 .. c - 1 /\ source[i].is \in Opening
      /\ \A k \in i .. c - 1 : Level(k) >= Level(i)
  BY AroundIs
<1>2. Len(source) \in Nat /\ i \in 1 .. Len(source) /\ i < c /\ c - 1 \in i .. c - 1
      /\ c - 1 \in 0 .. Len(source) /\ i \in Nat
  BY <1>1, SourceIs
<1>3. Level(c - 1) \in Nat
  BY <1>2, SourceIs
<1>4. Level(i) = Level(i - 1) + 1 /\ Level(i - 1) \in Nat /\ Level(i) \in Nat
  BY <1>1, <1>2, LevelStep
<1>5. Level(c - 1) >= Level(i)
  BY <1>1, <1>2
<1> QED BY <1>1, <1>2, <1>3, <1>4, <1>5

\* The levels of the blocks around a position increase.
LEMMA AroundLevels ==
  ASSUME source \in Sources, NEW c \in 1 .. Len(source) + 1, NEW i \in Around(c), NEW j \in Around(c)
  PROVE  /\ i < j => Level(i) < Level(j)
         /\ Level(i) <= Level(j) => i <= j
         /\ Level(i) = Level(j) => i = j
<1>1. ASSUME NEW a \in Around(c), NEW b \in Around(c), a < b
      PROVE  Level(a) < Level(b)
  <2>1. a \in Nat /\ b \in Nat /\ b < c /\ Level(b) = Level(b - 1) + 1
        /\ \A k \in a .. c - 1 : Level(k) >= Level(a)
    BY AroundHas
  <2>2. b - 1 \in a .. c - 1 /\ b \in 1 .. Len(source)
    BY <1>1, <2>1, SourceIs, AroundHas
  <2>3. Level(b - 1) >= Level(a) /\ Level(a) \in Nat /\ Level(b - 1) \in Nat
    BY <2>1, <2>2, LevelStep, AroundHas
  <2> QED BY <2>1, <2>3
<1>2. i \in Nat /\ j \in Nat /\ Level(i) \in Nat /\ Level(j) \in Nat
  BY AroundHas
<1>3. (i < j => Level(i) < Level(j)) /\ (j < i => Level(j) < Level(i))
  BY <1>1
<1> QED BY <1>2, <1>3

\* What is around a later position, and began before c, is around c.
LEMMA AroundEarlier ==
  ASSUME source \in Sources, NEW n \in 1 .. Len(source) + 1, NEW c \in 1 .. n,
         NEW i \in Around(n), i < c
  PROVE  i \in Around(c)
<1>1. i \in Nat /\ i \in 1 .. Len(source) /\ source[i].is \in Opening
      /\ \A k \in i .. n - 1 : Level(k) >= Level(i)
  BY AroundHas
<1>2. i \in 1 .. c - 1 /\ i .. c - 1 \subseteq i .. n - 1
  BY <1>1, SourceIs
<1> QED BY <1>1, <1>2, AroundIs

\* What is around a block that is around c is around c.
LEMMA AroundOuter ==
  ASSUME source \in Sources, NEW c \in 1 .. Len(source) + 1, NEW j \in Around(c), NEW i \in Around(j)
  PROVE  i \in Around(c)
<1>1. j \in Nat /\ j \in 1 .. Len(source) /\ j < c /\ Level(j) = Level(j - 1) + 1
      /\ \A k \in j .. c - 1 : Level(k) >= Level(j)
  BY AroundHas
<1>2. j \in 1 .. Len(source) + 1
  BY <1>1, SourceIs
<1>3. i \in Nat /\ i < j /\ source[i].is \in Opening /\ i \in 1 .. Len(source)
      /\ Level(i) \in 1 .. Level(j - 1) /\ Level(j - 1) \in Nat /\ Level(i) \in Nat
      /\ \A k \in i .. j - 1 : Level(k) >= Level(i)
  BY <1>2, AroundHas
<1>4. i \in 1 .. c - 1
  BY <1>1, <1>3
<1>5. ASSUME NEW k \in i .. c - 1 PROVE Level(k) >= Level(i)
  <2>1. CASE k < j
    <3>1. k \in i .. j - 1
      BY <1>1, <1>3, <2>1
    <3> QED BY <1>3, <3>1
  <2>2. CASE ~(k < j)
    <3>1. k \in j .. c - 1
      BY <1>1, <1>3, <2>2
    <3>2. Level(k) >= Level(j)
      BY <1>1, <3>1
    <3>3. k \in 0 .. Len(source)
      BY <1>1, <3>1, SourceIs
    <3>4. Level(k) \in Nat /\ Level(j) \in Nat
      BY <1>1, <3>3, SourceIs, LevelStep
    <3> QED BY <1>1, <1>3, <3>2, <3>4
  <2> QED BY <2>1, <2>2
<1> QED BY <1>3, <1>4, <1>5, AroundIs

\* The innermost block of some kinds is one of them, or there is none.
LEMMA InnermostIs ==
  ASSUME source \in Sources, NEW c \in 1 .. Len(source) + 1, NEW K
  PROVE  /\ Innermost(c, K) \in Nat
         /\ Innermost(c, K) # 0 => Innermost(c, K) \in Around(c) /\ source[Innermost(c, K)].is \in K
         /\ \A i \in Around(c) : source[i].is \in K => i <= Innermost(c, K) /\ Innermost(c, K) # 0
<1> DEFINE S == {i \in Around(c) : source[i].is \in K}
           T == {0} \cup S
<1>1. S \subseteq Nat /\ \A i \in S : 1 <= i /\ i < c
  BY AroundHas
<1>2. c \in Nat /\ T \in SUBSET (0 .. c) /\ T # {}
  BY <1>1, SourceIs
<1>3. Innermost(c, K) = Max(T)
  BY DEF Innermost
<1> HIDE DEF T
<1>4. Max(T) \in T /\ \A k \in T : k <= Max(T)
  BY <1>2, Longest
<1> USE DEF T
<1>5. Innermost(c, K) \in Nat
  BY <1>1, <1>3, <1>4
<1>6. Innermost(c, K) # 0 => Innermost(c, K) \in S
  BY <1>3, <1>4
<1>7. ASSUME NEW i \in Around(c), source[i].is \in K
      PROVE  i <= Innermost(c, K) /\ Innermost(c, K) # 0
  <2>1. i \in S /\ i \in T
    BY <1>7
  <2>2. i <= Max(T)
    BY <1>4, <2>1
  <2> QED BY <1>1, <1>3, <1>5, <2>1, <2>2
<1> QED BY <1>5, <1>6, <1>7

\* The innermost block is the last of those around a position.
LEMMA InnermostUnique ==
  ASSUME source \in Sources, NEW c \in 1 .. Len(source) + 1, NEW K, NEW i \in Around(c),
         source[i].is \in K, \A j \in Around(c) : source[j].is \in K => j <= i
  PROVE  Innermost(c, K) = i
<1>1. i <= Innermost(c, K) /\ Innermost(c, K) # 0 /\ Innermost(c, K) \in Nat
  BY InnermostIs
<1>2. Innermost(c, K) \in Around(c) /\ source[Innermost(c, K)].is \in K
  BY <1>1, InnermostIs
<1>3. Innermost(c, K) <= i
  BY <1>2
<1>4. i \in Nat
  BY AroundHas
<1> QED BY <1>1, <1>3, <1>4

\* Where no block of some kinds is around, none is the innermost.
LEMMA InnermostNone ==
  ASSUME source \in Sources, NEW c \in 1 .. Len(source) + 1, NEW K,
         \A j \in Around(c) : source[j].is \notin K
  PROVE  Innermost(c, K) = 0
BY InnermostIs

\* The innermost block has the level of the position.
LEMMA OwnerIs ==
  ASSUME source \in Sources, NEW c \in 1 .. Len(source) + 1
  PROVE  /\ Owner(c) \in Nat
         /\ Owner(c) = 0 <=> Around(c) = {}
         /\ Owner(c) # 0 => Owner(c) \in Around(c) /\ \A i \in Around(c) : i <= Owner(c)
<1>1. \A i \in Around(c) : source[i].is \in Opening
  BY AroundHas
<1>2. /\ Owner(c) \in Nat
      /\ Owner(c) # 0 => Owner(c) \in Around(c)
      /\ \A i \in Around(c) : i <= Owner(c) /\ Owner(c) # 0
  BY <1>1, InnermostIs DEF Owner
<1> QED BY <1>2

-----------------------------------------------------------------------------
(* From one statement to the next that the builder reads.                  *)

\* The builder reads on at n after a statement at c.
Follows(c, n) ==
  \/ n = c + 1 /\ source[c].is # "group"
  \/ /\ source[c].is = "group" /\ n - 1 \in c + 1 .. Len(source) /\ n \in Nat
     /\ Level(n - 1) = Level(c - 1)
     /\ \A k \in c .. n - 2 : Level(k) > Level(c - 1)

\* The builder reads on later in the source.
LEMMA FollowsIs ==
  ASSUME source \in Sources, NEW c \in 1 .. Len(source), NEW n, Follows(c, n)
  PROVE  /\ n \in Nat /\ n \in 1 .. Len(source) + 1 /\ c < n /\ c + 1 <= n
         /\ c \in Nat /\ c \in 1 .. Len(source) + 1 /\ c \in 1 .. n
BY SourceIs DEF Follows

\* A statement within a block leaves the blocks around as they are.
LEMMA AroundPlain ==
  ASSUME source \in Sources, NEW c \in 1 .. Len(source), source[c].is \notin Opening \cup {"end"}
  PROVE  Around(c + 1) = Around(c)
<1>1. c \in 1 .. Len(source) + 1 /\ c + 1 \in 1 .. Len(source) + 1 /\ c \in 1 .. c + 1 /\ c \in Nat
  BY SourceIs
<1>2. Level(c) = Level(c - 1)
  BY LevelStep
<1>3. ASSUME NEW i \in Around(c) PROVE i \in Around(c + 1)
  <2>1. /\ i \in Nat /\ i \in 1 .. Len(source) /\ i < c /\ source[i].is \in Opening
        /\ \A k \in i .. c - 1 : Level(k) >= Level(i)
    BY <1>1, AroundHas
  <2>2. c - 1 \in i .. c - 1 /\ i \in 1 .. (c + 1) - 1
    BY <1>1, <2>1
  <2>3. Level(c) >= Level(i)
    BY <1>2, <2>1, <2>2
  <2>4. \A k \in i .. (c + 1) - 1 : k = c \/ k \in i .. c - 1
    BY <1>1, <2>1
  <2> QED BY <2>1, <2>2, <2>3, <2>4, AroundIs
<1>4. ASSUME NEW i \in Around(c + 1) PROVE i \in Around(c)
  <2>1. i \in Nat /\ i < c + 1 /\ source[i].is \in Opening
    BY <1>1, AroundHas
  <2>2. i < c
    BY <1>1, <2>1
  <2> QED BY <1>1, <2>2, AroundEarlier
<1> QED BY <1>3, <1>4

\* A block that opens is the innermost then.
LEMMA AroundOpened ==
  ASSUME source \in Sources, NEW c \in 1 .. Len(source), source[c].is \in Opening
  PROVE  Around(c + 1) = Around(c) \cup {c}
<1>1. c \in 1 .. Len(source) + 1 /\ c + 1 \in 1 .. Len(source) + 1 /\ c \in 1 .. c + 1 /\ c \in Nat
  BY SourceIs
<1>2. Level(c) = Level(c - 1) + 1 /\ Level(c - 1) \in Nat
  BY LevelStep
<1>3. ASSUME NEW i \in Around(c) PROVE i \in Around(c + 1)
  <2>1. /\ i \in Nat /\ i \in 1 .. Len(source) /\ i < c /\ source[i].is \in Opening
        /\ \A k \in i .. c - 1 : Level(k) >= Level(i)
        /\ Level(i) \in Nat
    BY <1>1, AroundHas
  <2>2. c - 1 \in i .. c - 1 /\ i \in 1 .. (c + 1) - 1
    BY <1>1, <2>1
  <2>3. Level(c - 1) >= Level(i)
    BY <2>1, <2>2
  <2>4. Level(c) >= Level(i)
    BY <1>2, <2>1, <2>3
  <2>5. \A k \in i .. (c + 1) - 1 : k = c \/ k \in i .. c - 1
    BY <1>1, <2>1
  <2> QED BY <2>1, <2>2, <2>4, <2>5, AroundIs
<1>4. c \in Around(c + 1)
  <2>1. c \in 1 .. (c + 1) - 1 /\ \A k \in c .. (c + 1) - 1 : k = c
    BY <1>1
  <2>2. Level(c) \in Nat
    BY LevelStep
  <2> QED BY <2>1, <2>2, AroundIs
<1>5. ASSUME NEW i \in Around(c + 1), i # c PROVE i \in Around(c)
  <2>1. i \in Nat /\ i < c + 1
    BY <1>1, AroundHas
  <2>2. i < c
    BY <1>1, <1>5, <2>1
  <2> QED BY <1>1, <2>2, AroundEarlier
<1> QED BY <1>3, <1>4, <1>5

\* An end closes the innermost block.
LEMMA AroundClosed ==
  ASSUME source \in Sources, NEW c \in 1 .. Len(source), source[c].is = "end",
         Owner(c) # 0, Level(Owner(c)) = Level(c - 1)
  PROVE  Around(c + 1) = Around(c) \ {Owner(c)}
<1>1. c \in 1 .. Len(source) + 1 /\ c + 1 \in 1 .. Len(source) + 1 /\ c \in 1 .. c + 1 /\ c \in Nat
  BY SourceIs
<1>2. Level(c) = Level(c - 1) - 1 /\ Level(c) \in Nat /\ Level(c - 1) \in Nat
  BY LevelStep
<1>3. Owner(c) \in Around(c)
  BY <1>1, OwnerIs
<1>4. ASSUME NEW i \in Around(c), i # Owner(c) PROVE i \in Around(c + 1)
  <2>1. /\ i \in Nat /\ i \in 1 .. Len(source) /\ i < c /\ source[i].is \in Opening
        /\ \A k \in i .. c - 1 : Level(k) >= Level(i)
        /\ Level(i) \in Nat /\ Level(i) <= Level(c - 1)
    BY <1>1, AroundHas
  <2>2. Level(i) # Level(Owner(c))
    BY <1>1, <1>3, <1>4, AroundLevels
  <2>3. Level(c) >= Level(i)
    BY <1>2, <2>1, <2>2
  <2>4. i \in 1 .. (c + 1) - 1 /\ \A k \in i .. (c + 1) - 1 : k = c \/ k \in i .. c - 1
    BY <1>1, <2>1
  <2> QED BY <2>1, <2>3, <2>4, AroundIs
<1>5. ASSUME NEW i \in Around(c + 1) PROVE i \in Around(c) /\ i # Owner(c)
  <2>1. i \in Nat /\ i < c + 1 /\ source[i].is \in Opening /\ Level(i) \in 1 .. Level((c + 1) - 1)
    BY <1>1, AroundHas
  <2>2. i # c
    BY <2>1 DEF Opening
  <2>3. i < c
    BY <1>1, <2>1, <2>2
  <2>4. i \in Around(c)
    BY <1>1, <2>3, AroundEarlier
  <2>5. (c + 1) - 1 = c
    BY <1>1
  <2>6. Level(i) <= Level(c)
    BY <1>2, <2>1, <2>5
  <2>7. Level(i) # Level(c - 1)
    BY <1>2, <2>6
  <2> QED BY <2>4, <2>7
<1> QED BY <1>4, <1>5

\* What a group contains is in the group.
LEMMA GroupAround ==
  ASSUME source \in Sources, NEW c \in 1 .. Len(source), NEW n, Follows(c, n),
         source[c].is = "group", NEW j \in c + 1 .. n - 1
  PROVE  j \in 1 .. Len(source) /\ c \in Around(j) /\ Innermost(j, {"group"}) # 0
<1>1. /\ n - 1 \in c + 1 .. Len(source) /\ n \in Nat
      /\ \A k \in c .. n - 2 : Level(k) > Level(c - 1)
  BY DEF Follows
<1>2. Level(c) = Level(c - 1) + 1 /\ Level(c - 1) \in Nat
  BY LevelStep DEF Opening
<1>3. c \in Nat /\ Len(source) \in Nat /\ j \in 1 .. Len(source) /\ c \in 1 .. j - 1
      /\ c .. j - 1 \subseteq c .. n - 2 /\ j \in 1 .. Len(source) + 1
  BY <1>1, SourceIs
<1>4. ASSUME NEW k \in c .. j - 1 PROVE Level(k) >= Level(c)
  <2>1. k \in 0 .. Len(source) /\ k \in c .. n - 2
    BY <1>3
  <2>2. Level(k) \in Nat /\ Level(k) > Level(c - 1)
    BY <1>1, <2>1, SourceIs
  <2> QED BY <1>2, <2>2
<1>5. c \in Around(j)
  BY <1>3, <1>4, AroundIs DEF Opening
<1> QED BY <1>3, <1>5, InnermostIs

\* A group that is skipped leaves the blocks around as they are.
LEMMA AroundSkipped ==
  ASSUME source \in Sources, NEW c \in 1 .. Len(source), NEW n, Follows(c, n), source[c].is = "group"
  PROVE  Around(n) = Around(c)
<1>1. /\ n - 1 \in c + 1 .. Len(source) /\ n \in Nat /\ Level(n - 1) = Level(c - 1)
      /\ \A k \in c .. n - 2 : Level(k) > Level(c - 1)
  BY DEF Follows
<1>2. /\ n \in 1 .. Len(source) + 1 /\ c < n /\ c \in Nat /\ c \in 1 .. Len(source) + 1 /\ c \in 1 .. n
      /\ Len(source) \in Nat
  BY FollowsIs, SourceIs
<1>3. Level(c - 1) \in Nat
  BY LevelStep
<1>4. ASSUME NEW i \in Around(c) PROVE i \in Around(n)
  <2>1. /\ i \in Nat /\ i \in 1 .. Len(source) /\ i < c /\ source[i].is \in Opening
        /\ \A k \in i .. c - 1 : Level(k) >= Level(i)
        /\ Level(i) \in Nat /\ Level(i) <= Level(c - 1)
    BY <1>2, AroundHas
  <2>2. i \in 1 .. n - 1
    BY <1>2, <2>1
  <2>3. ASSUME NEW k \in i .. n - 1 PROVE Level(k) >= Level(i)
    <3>1. k \in 0 .. Len(source) /\ (k \in i .. c - 1 \/ k \in c .. n - 2 \/ k = n - 1)
      BY <1>1, <1>2, <2>1
    <3>2. Level(k) \in Nat
      BY <3>1, SourceIs
    <3>3. k \in i .. c - 1 \/ Level(k) >= Level(c - 1)
      BY <1>1, <1>3, <3>1, <3>2
    <3> QED BY <1>3, <2>1, <3>2, <3>3
  <2> QED BY <2>1, <2>2, <2>3, AroundIs
<1>5. ASSUME NEW i \in Around(n) PROVE i \in Around(c)
  <2>1. /\ i \in Nat /\ i \in 1 .. Len(source) /\ i < n /\ source[i].is \in Opening
        /\ \A k \in i .. n - 1 : Level(k) >= Level(i)
        /\ Level(i) \in Nat /\ Level(i) = Level(i - 1) + 1
    BY <1>2, AroundHas
  <2>2. n - 1 \in i .. n - 1
    BY <1>1, <1>2, <2>1
  <2>3. Level(i) <= Level(c - 1)
    BY <1>1, <2>1, <2>2
  <2>4. ~(i \in c .. n - 2)
    BY <1>1, <1>3, <2>1, <2>3
  <2>5. i # n - 1
    <3>1. SUFFICES ASSUME i = n - 1 PROVE FALSE
      OBVIOUS
    <3>2. i - 1 \in c .. n - 2
      BY <1>1, <1>2, <3>1
    <3>3. Level(i - 1) > Level(c - 1)
      BY <1>1, <3>2
    <3>4. Level(i - 1) \in Nat
      BY <2>1, LevelStep
    <3> QED BY <1>3, <2>1, <2>3, <3>3, <3>4
  <2>6. i < c
    BY <1>1, <1>2, <2>1, <2>4, <2>5
  <2> QED BY <1>2, <2>6, AroundEarlier
<1> QED BY <1>4, <1>5

\* The statements of a sort grow by the one that is read.
LEMMA BeforeGrows ==
  ASSUME source \in Sources, NEW c \in 1 .. Len(source), NEW n, Follows(c, n),
         NEW is, is # "group", NEW S, S \subseteq All(is)
  PROVE  Before(S, n) = Before(S, c) \cup ({c} \cap S)
<1>1. n \in Nat /\ c \in Nat /\ c < n
  BY FollowsIs
<1>2. \A j \in S : j \in 1 .. Len(source) /\ source[j].is = is /\ Innermost(j, {"group"}) = 0
  BY SourceIs DEF All
<1>3. ASSUME NEW j \in S, j < n PROVE j < c \/ j = c
  <2>1. SUFFICES ASSUME ~(j < c), j # c PROVE FALSE
    OBVIOUS
  <2>2. j \in Nat /\ c + 1 <= j /\ j <= n - 1
    BY <1>1, <1>2, <1>3, <2>1
  <2>3. source[c].is = "group"
    BY <1>1, <2>2 DEF Follows
  <2>4. j \in c + 1 .. n - 1
    BY <1>1, <2>2
  <2> QED BY <1>2, <2>3, <2>4, GroupAround
<1>4. \A j \in S : j < c => j < n
  BY <1>1, <1>2
<1>5. \A j \in S : j < n <=> j < c \/ j = c
  BY <1>1, <1>3, <1>4
<1> QED BY <1>5 DEF Before

\* A block that is not in a group has none around it.
LEMMA OutsideGroups ==
  ASSUME source \in Sources, NEW c \in 1 .. Len(source) + 1, Innermost(c, {"group"}) = 0,
         NEW i \in Around(c)
  PROVE  /\ i \in DOMAIN source /\ source[i].is # "group" /\ Innermost(i, {"group"}) = 0
         /\ i \in All(source[i].is)
<1>1. i \in 1 .. Len(source) /\ i \in 1 .. Len(source) + 1 /\ DOMAIN source = 1 .. Len(source)
  BY SourceIs, AroundHas
<1>2. source[i].is # "group"
  BY InnermostIs
<1>3. \A j \in Around(i) : source[j].is \notin {"group"}
  BY InnermostIs, AroundOuter
<1>4. Innermost(i, {"group"}) = 0
  BY <1>1, <1>3, InnermostNone
<1> QED BY <1>1, <1>2, <1>4 DEF All

\* When a block has ended, all that is in it has been read.
LEMMA WholeBlock ==
  ASSUME source \in Sources, NEW n \in 1 .. Len(source) + 1, NEW m \in Nat \ {0}, m < n,
         m \notin Around(n)
  PROVE  /\ \A is : Before(Inside(is, m), n) = Inside(is, m)
         /\ Before(FieldsIn(m), n) = FieldsIn(m)
<1>1. ASSUME NEW j \in DOMAIN source, NEW K, Innermost(j, K) = m PROVE j < n
  <2>1. j \in 1 .. Len(source) + 1 /\ j \in Nat /\ n \in Nat
    BY SourceIs
  <2>2. m \in Around(j)
    BY <1>1, <2>1, InnermostIs
  <2>3. CASE n <= j
    <3>1. n \in 1 .. j
      BY <2>1, <2>3
    <3>2. m \in Around(n)
      BY <2>1, <2>2, <3>1, AroundEarlier
    <3> QED BY <3>2
  <2> QED BY <2>1, <2>3
<1>2. ASSUME NEW is PROVE Before(Inside(is, m), n) = Inside(is, m)
  BY <1>1 DEF Before, Inside, All, Owner
<1>3. Before(FieldsIn(m), n) = FieldsIn(m)
  BY <1>1 DEF Before, FieldsIn, All
<1> QED BY <1>2, <1>3

-----------------------------------------------------------------------------
(* What the parts of the state are made of.                                *)

\* A function from 1 to a number is a sequence.
LEMMA SequenceOf ==
  ASSUME NEW N \in Nat, NEW f, DOMAIN f = 1 .. N, f = [n \in 1 .. N |-> f[n]]
  PROVE  IsStack(f) /\ Len(f) = N
<1> DEFINE T == {f[n] : n \in 1 .. N}
<1>1. f \in [1 .. N -> T]
  OBVIOUS
<1>2. f \in Seq(T)
  BY <1>1
<1>3. Len(f) = N
  BY <1>2
<1> QED BY <1>2, <1>3 DEF IsStack

\* A sequence is a function of its indices.
LEMMA ByIndex ==
  ASSUME NEW S, NEW s \in Seq(S)
  PROVE  s = [n \in 1 .. Len(s) |-> s[n]]
<1>1. s \in [1 .. Len(s) -> S]
  OBVIOUS
<1> QED BY <1>1

\* One element more, by index.
LEMMA AppendIs ==
  ASSUME NEW s, IsStack(s), NEW x
  PROVE  /\ Len(s) \in Nat /\ DOMAIN s = 1 .. Len(s)
         /\ Append(s, x) = [n \in 1 .. Len(s) + 1 |-> IF n = Len(s) + 1 THEN x ELSE s[n]]
<1>1. PICK S : s \in Seq(S)
  BY DEF IsStack
<1>2. s \in Seq(S \cup {x}) /\ x \in S \cup {x}
  BY <1>1
<1>3. Len(s) \in Nat /\ DOMAIN s = 1 .. Len(s)
  BY <1>1
<1>4. Append(s, x) \in Seq(S \cup {x}) /\ DOMAIN Append(s, x) = 1 .. Len(s) + 1
  BY <1>2
<1>5. \A n \in 1 .. Len(s) + 1 : Append(s, x)[n] = IF n = Len(s) + 1 THEN x ELSE s[n]
  BY <1>2, <1>3
<1>6. Len(Append(s, x)) = Len(s) + 1
  BY <1>2
<1>7. Append(s, x) = [n \in 1 .. Len(s) + 1 |-> Append(s, x)[n]]
  BY <1>4, <1>6, ByIndex
<1> QED BY <1>3, <1>5, <1>7

\* Two sequences joined, by index.
LEMMA ConcatIs ==
  ASSUME NEW s, IsStack(s), NEW t, IsStack(t)
  PROVE  /\ Len(s) \in Nat /\ DOMAIN s = 1 .. Len(s) /\ Len(t) \in Nat /\ DOMAIN t = 1 .. Len(t)
         /\ IsStack(s \o t)
         /\ s \o t = [n \in 1 .. Len(s) + Len(t) |-> IF n <= Len(s) THEN s[n] ELSE t[n - Len(s)]]
<1>1. PICK S : s \in Seq(S)
  BY DEF IsStack
<1>2. PICK T : t \in Seq(T)
  BY DEF IsStack
<1>3. s \in Seq(S \cup T) /\ t \in Seq(S \cup T)
  BY <1>1, <1>2
<1>4. s \o t \in Seq(S \cup T)
  BY <1>3
<1>5. /\ Len(s) \in Nat /\ DOMAIN s = 1 .. Len(s) /\ Len(t) \in Nat /\ DOMAIN t = 1 .. Len(t)
  BY <1>3
<1>6. /\ Len(s \o t) = Len(s) + Len(t)
      /\ \A n \in 1 .. Len(s) + Len(t) : (s \o t)[n] = IF n <= Len(s) THEN s[n] ELSE t[n - Len(s)]
  BY <1>3, ConcatProperties
<1>7. s \o t = [n \in 1 .. Len(s) + Len(t) |-> (s \o t)[n]]
  <2>1. s \o t = [n \in 1 .. Len(s \o t) |-> (s \o t)[n]]
    BY <1>4, ByIndex
  <2> QED BY <1>6, <2>1
<1> QED BY <1>4, <1>5, <1>6, <1>7 DEF IsStack

\* Nothing is listed at first.
LEMMA ListsNone == ASSUME NEW G PROVE Lists(<<>>, {}, G)
<1>1. <<>> \in [DOMAIN <<>> -> {}] /\ DOMAIN <<>> = {}
  OBVIOUS
<1> QED BY <1>1, EmptyStack DEF Lists

\* A later position is listed after the others.
LEMMA ListsMore ==
  ASSUME NEW s, NEW S, S \subseteq Nat, NEW G, Lists(s, S, G),
         NEW p \in Nat, \A j \in S : j < p
  PROVE  Lists(Append(s, G[p]), S \cup {p}, G)
<1>0. IsStack(s) /\ IsStack(Append(s, G[p]))
  BY PushedStack DEF Lists
<1>1. PICK q \in [DOMAIN s -> S] :
        /\ \A a, b \in DOMAIN s : a < b => q[a] < q[b]
        /\ \A j \in S : \E a \in DOMAIN s : q[a] = j
        /\ \A a \in DOMAIN s : s[a] = G[q[a]]
  BY DEF Lists
<1> DEFINE t == Append(s, G[p])
           N == Len(s) + 1
           r == [n \in 1 .. N |-> IF n = N THEN p ELSE q[n]]
<1>2. /\ Len(s) \in Nat /\ DOMAIN s = 1 .. Len(s) /\ DOMAIN t = 1 .. N /\ t[N] = G[p]
      /\ \A n \in 1 .. N : n = N \/ (n \in DOMAIN s /\ n # N /\ t[n] = s[n])
      /\ N \in 1 .. N /\ N \in Nat
  BY <1>0, AppendIs
<1>3. /\ \A n \in DOMAIN s : n \in 1 .. N /\ n # N /\ n < N /\ n \in Nat /\ r[n] = q[n] /\ q[n] \in S
      /\ r[N] = p
  BY <1>2
<1> HIDE DEF t, N, r
<1>4. r \in [DOMAIN t -> S \cup {p}]
  <2>1. \A n \in 1 .. N : r[n] \in S \cup {p}
    BY <1>2, <1>3
  <2>2. r = [n \in 1 .. N |-> r[n]]
    BY DEF r
  <2> QED BY <1>2, <2>1, <2>2
<1>5. ASSUME NEW a \in DOMAIN t, NEW b \in DOMAIN t, a < b PROVE r[a] < r[b]
  <2>1. CASE b = N
    <3>1. a \in DOMAIN s
      BY <1>2, <1>5, <2>1
    <3> QED BY <1>3, <2>1, <3>1
  <2>2. CASE b # N
    <3>1. b \in DOMAIN s /\ a # N
      BY <1>2, <1>3, <1>5, <2>2
    <3>2. a \in DOMAIN s
      BY <1>2, <3>1
    <3> QED BY <1>1, <1>3, <1>5, <3>1, <3>2
  <2> QED BY <2>1, <2>2
<1>6. \A j \in S \cup {p} : \E a \in DOMAIN t : r[a] = j
  BY <1>1, <1>2, <1>3
<1>7. \A a \in DOMAIN t : t[a] = G[r[a]]
  BY <1>1, <1>2, <1>3
<1>8. Lists(t, S \cup {p}, G)
  BY <1>0, <1>4, <1>5, <1>6, <1>7 DEF Lists, t
<1> QED BY <1>8 DEF t

\* The elements of s are what G gives for positions, each once, in their order.
FromPositions(s, S, G, q) ==
  /\ \A a \in DOMAIN s : a \in Nat /\ q[a] \in S /\ s[a] = G[q[a]]
  /\ \A j \in S : \E a \in DOMAIN s : q[a] = j
  /\ \A a, b \in DOMAIN s : a # b => q[a] # q[b]
  /\ \A a, b \in DOMAIN s : a < b => q[a] < q[b]

\* A list has every position once.
LEMMA ListsEach ==
  ASSUME NEW s, NEW S, S \subseteq Nat, NEW G, Lists(s, S, G)
  PROVE  IsStack(s) /\ \E q : FromPositions(s, S, G, q)
<1>1. PICK q \in [DOMAIN s -> S] :
        /\ \A a, b \in DOMAIN s : a < b => q[a] < q[b]
        /\ \A j \in S : \E a \in DOMAIN s : q[a] = j
        /\ \A a \in DOMAIN s : s[a] = G[q[a]]
  BY DEF Lists
<1>2. DOMAIN s = 1 .. Len(s) /\ Len(s) \in Nat /\ IsStack(s)
  BY AppendIs DEF Lists
<1>3. ASSUME NEW a \in DOMAIN s PROVE q[a] \in Nat /\ q[a] \in S /\ a \in Nat
  <2>1. q[a] \in S
    OBVIOUS
  <2>2. a \in 1 .. Len(s)
    BY <1>2
  <2>3. a \in Nat
    BY <1>2, <2>2
  <2>4. q[a] \in Nat
    BY <2>1
  <2> QED BY <2>1, <2>3, <2>4
<1>4. ASSUME NEW a \in DOMAIN s, NEW b \in DOMAIN s, a # b PROVE q[a] # q[b]
  <2>1. a < b \/ b < a
    BY <1>3, <1>4
  <2>2. q[a] < q[b] \/ q[b] < q[a]
    BY <1>1, <2>1
  <2> QED BY <1>3, <2>2
<1>5. FromPositions(s, S, G, q)
  BY <1>1, <1>3, <1>4 DEF FromPositions
<1> QED BY <1>2, <1>5

\* Nothing is joined at first.
LEMMA JoinsNone == ASSUME NEW G PROVE Joins(<<>>, {}, G)
<1>1. PartsAt({}, G) = {}
  BY DEF PartsAt
<1>2. <<>> \in [DOMAIN <<>> -> {}] /\ DOMAIN <<>> = {}
  OBVIOUS
<1> QED BY <1>1, <1>2, EmptyStack DEF Joins

\* The sequence of a new position is joined after the others.
LEMMA JoinsMore ==
  ASSUME NEW s, NEW S, NEW G, Joins(s, S, G), NEW p, p \notin S, IsStack(G[p])
  PROVE  Joins(s \o G[p], S \cup {p}, G)
<1>0. IsStack(s)
  BY DEF Joins
<1>1. PICK q \in [DOMAIN s -> PartsAt(S, G)] :
        /\ \A a, b \in DOMAIN s : q[a] = q[b] => a = b
        /\ \A x \in PartsAt(S, G) : \E a \in DOMAIN s : q[a] = x
        /\ \A a \in DOMAIN s : s[a] = G[q[a][1]][q[a][2]]
  BY DEF Joins
<1> DEFINE g == G[p]
           L == Len(s)
           M == Len(g)
           t == s \o g
           P == PartsAt(S, G)
           R == PartsAt(S \cup {p}, G)
           r == [n \in 1 .. L + M |-> IF n <= L THEN q[n] ELSE <<p, n - L>>]
<1>2. /\ L \in Nat /\ DOMAIN s = 1 .. L /\ M \in Nat /\ DOMAIN g = 1 .. M /\ IsStack(t)
      /\ t = [n \in 1 .. L + M |-> IF n <= L THEN s[n] ELSE g[n - L]]
  BY <1>0, ConcatIs
<1>3. \A x : x \in R <=> x \in P \/ \E k \in 1 .. M : x = <<p, k>>
  <2>1. \A x : x \in R <=> x \in (S \cup {p}) \X Nat /\ x[2] \in DOMAIN G[x[1]]
    BY DEF PartsAt
  <2>2. \A x : x \in P <=> x \in S \X Nat /\ x[2] \in DOMAIN G[x[1]]
    BY DEF PartsAt
  <2>3. ASSUME NEW x, x \in R PROVE x \in P \/ \E k \in 1 .. M : x = <<p, k>>
    <3>1. x \in (S \cup {p}) \X Nat /\ x[2] \in DOMAIN G[x[1]] /\ x = <<x[1], x[2]>>
      BY <2>1, <2>3
    <3>2. CASE x[1] = p
      BY <1>2, <3>1, <3>2
    <3>3. CASE x[1] # p
      <4>1. x \in S \X Nat
        BY <3>1, <3>3
      <4> QED BY <2>2, <3>1, <4>1
    <3> QED BY <3>2, <3>3
  <2>4. ASSUME NEW x, x \in P PROVE x \in R
    BY <2>1, <2>2, <2>4
  <2>5. ASSUME NEW k \in 1 .. M PROVE <<p, k>> \in R
    <3>1. <<p, k>> \in (S \cup {p}) \X Nat /\ <<p, k>>[1] = p /\ <<p, k>>[2] = k
      BY <1>2
    <3> QED BY <1>2, <2>1, <3>1
  <2> QED BY <2>3, <2>4, <2>5
<1>4. \A x \in P : x[1] # p
  BY DEF PartsAt
<1>5. \A n \in 1 .. L + M : \/ n \in 1 .. L /\ n <= L /\ n \in DOMAIN s /\ t[n] = s[n] /\ r[n] = q[n]
                            \/ /\ ~(n <= L) /\ n - L \in 1 .. M /\ t[n] = g[n - L]
                               /\ r[n] = <<p, n - L>>
  BY <1>2
<1>6. /\ \A n \in 1 .. L : n \in 1 .. L + M /\ r[n] = q[n] /\ t[n] = s[n]
      /\ \A k \in 1 .. M : /\ L + k \in 1 .. L + M /\ ~(L + k <= L) /\ (L + k) - L = k
                           /\ r[L + k] = <<p, k>> /\ t[L + k] = g[k]
  BY <1>2
<1>7. DOMAIN t = 1 .. L + M /\ DOMAIN r = 1 .. L + M /\ r = [n \in 1 .. L + M |-> r[n]]
  BY <1>2
<1>8. \A n \in 1 .. L : q[n] \in P
  BY <1>2
<1> HIDE DEF g, L, M, t, P, R, r
<1>9. r \in [DOMAIN t -> R]
  <2>1. \A n \in 1 .. L + M : r[n] \in R
    BY <1>3, <1>5, <1>8
  <2> QED BY <1>7, <2>1
<1>10. ASSUME NEW a \in DOMAIN t, NEW b \in DOMAIN t, r[a] = r[b] PROVE a = b
  <2>0. a \in 1 .. L + M /\ b \in 1 .. L + M /\ a \in Nat /\ b \in Nat
    BY <1>2, <1>7
  <2>1. CASE a \in 1 .. L /\ b \in 1 .. L
    <3>1. r[a] = q[a] /\ r[b] = q[b] /\ a \in DOMAIN s /\ b \in DOMAIN s
      BY <1>2, <1>6, <2>1
    <3> QED BY <1>1, <1>10, <3>1
  <2>2. CASE a \in 1 .. L /\ b \notin 1 .. L
    <3>1. r[a] \in P /\ r[b] = <<p, b - L>>
      BY <1>5, <1>6, <1>8, <2>0, <2>2
    <3>2. r[b][1] = p
      BY <3>1
    <3> QED BY <1>4, <1>10, <3>1, <3>2
  <2>3. CASE a \notin 1 .. L /\ b \in 1 .. L
    <3>1. r[b] \in P /\ r[a] = <<p, a - L>>
      BY <1>5, <1>6, <1>8, <2>0, <2>3
    <3>2. r[a][1] = p
      BY <3>1
    <3> QED BY <1>4, <1>10, <3>1, <3>2
  <2>4. CASE a \notin 1 .. L /\ b \notin 1 .. L
    <3>1. r[a] = <<p, a - L>> /\ r[b] = <<p, b - L>>
      BY <1>5, <2>0, <2>4
    <3>2. r[a][2] = a - L /\ r[b][2] = b - L
      BY <3>1
    <3>3. a - L = b - L
      BY <1>10, <3>2
    <3> QED BY <1>2, <2>0, <3>3
  <2> QED BY <2>1, <2>2, <2>3, <2>4
<1>11. ASSUME NEW x \in R PROVE \E a \in DOMAIN t : r[a] = x
  <2>1. CASE x \in P
    <3>1. PICK a \in DOMAIN s : q[a] = x
      BY <1>1, <2>1 DEF P
    <3> QED BY <1>2, <1>6, <1>7, <3>1
  <2>2. ASSUME NEW k \in 1 .. M, x = <<p, k>> PROVE \E a \in DOMAIN t : r[a] = x
    BY <1>6, <1>7, <2>2
  <2> QED BY <1>3, <2>1, <2>2
<1>12. ASSUME NEW a \in DOMAIN t PROVE t[a] = G[r[a][1]][r[a][2]]
  <2>1. a \in 1 .. L + M
    BY <1>7
  <2>2. CASE a <= L
    BY <1>1, <1>5, <2>1, <2>2
  <2>3. CASE ~(a <= L)
    <3>1. t[a] = g[a - L] /\ r[a] = <<p, a - L>>
      BY <1>5, <2>1, <2>3
    <3>2. r[a][1] = p /\ r[a][2] = a - L
      BY <3>1
    <3> QED BY <3>1, <3>2 DEF g
  <2> QED BY <2>2, <2>3
<1>13. Joins(t, S \cup {p}, G)
  BY <1>2, <1>9, <1>10, <1>11, <1>12 DEF Joins, R
<1> QED BY <1>13 DEF t, g

\* A later position comes last in the order.
LEMMA SortedMore ==
  ASSUME NEW S, IsFiniteSet(S), S \subseteq Nat, NEW p \in Nat, \A j \in S : j < p
  PROVE  /\ IsStack(Sorted(S)) /\ DOMAIN Sorted(S) = 1 .. Cardinality(S) /\ Cardinality(S) \in Nat
         /\ Sorted(S \cup {p}) = Append(Sorted(S), p)
<1> DEFINE T == S \cup {p}
           N == Cardinality(S)
           At1(n) == {i \in S : Cardinality({k \in S : k <= i}) = n}
           At2(n) == {i \in T : Cardinality({k \in T : k <= i}) = n}
<1>1. p \notin S
  OBVIOUS
<1>2. N \in Nat /\ Cardinality(T) = N + 1
  BY <1>1, FS_CardinalityType, FS_AddElement
<1>3. Sorted(S) = [n \in 1 .. N |-> Min(At1(n))]
  BY DEF Sorted
<1>4. Sorted(T) = [n \in 1 .. N + 1 |-> Min(At2(n))]
  BY <1>2 DEF Sorted
<1>5. ASSUME NEW i \in S PROVE {k \in T : k <= i} = {k \in S : k <= i}
  <2>1. i \in Nat /\ ~(p <= i)
    OBVIOUS
  <2> QED BY <2>1
<1>6. {k \in T : k <= p} = T
  <2>1. \A k \in T : k <= p
    OBVIOUS
  <2> HIDE DEF T
  <2> QED BY <2>1
<1>7. \A i \in S : Cardinality({k \in S : k <= i}) <= N /\ Cardinality({k \in S : k <= i}) \in Nat
  <2>1. \A i \in S : {k \in S : k <= i} \in SUBSET S
    OBVIOUS
  <2> QED BY <2>1, FS_Subset, FS_CardinalityType
<1>8. ASSUME NEW n \in 1 .. N PROVE At2(n) = At1(n)
  <2>1. n # N + 1
    BY <1>2
  <2>2. p \notin At2(n)
    BY <1>2, <1>6, <2>1
  <2>3. \A i \in S : i \in At2(n) <=> i \in At1(n)
    BY <1>5
  <2> QED BY <1>1, <2>2, <2>3
<1>9. At2(N + 1) = {p}
  <2>1. p \in At2(N + 1)
    BY <1>2, <1>6
  <2>2. \A i \in S : i \notin At2(N + 1)
    BY <1>2, <1>5, <1>7
  <2> QED BY <2>1, <2>2
<1>10. Min({p}) = p
  BY DEF Min
<1> HIDE DEF At1, At2
<1>11. DOMAIN Sorted(S) = 1 .. N /\ IsStack(Sorted(S)) /\ Len(Sorted(S)) = N
  <2>1. DOMAIN Sorted(S) = 1 .. N /\ Sorted(S) = [n \in 1 .. N |-> Sorted(S)[n]]
    BY <1>3
  <2> HIDE DEF N
  <2> QED BY <1>2, <2>1, SequenceOf
<1>12. Append(Sorted(S), p) = [n \in 1 .. N + 1 |-> IF n = N + 1 THEN p ELSE Sorted(S)[n]]
  BY <1>11, AppendIs
<1>13. \A n \in 1 .. N + 1 : Sorted(T)[n] = IF n = N + 1 THEN p ELSE Sorted(S)[n]
  <2> SUFFICES ASSUME NEW n \in 1 .. N + 1
               PROVE  Sorted(T)[n] = IF n = N + 1 THEN p ELSE Sorted(S)[n]
    OBVIOUS
  <2>1. Sorted(T)[n] = Min(At2(n))
    BY <1>4
  <2>2. CASE n = N + 1
    BY <1>9, <1>10, <2>1, <2>2
  <2>3. CASE n # N + 1
    <3>1. n \in 1 .. N
      BY <1>2, <2>3
    <3> QED BY <1>3, <1>8, <2>1, <2>3, <3>1
  <2> QED BY <2>2, <2>3
<1>14. Sorted(T) = [n \in 1 .. N + 1 |-> Sorted(T)[n]]
  BY <1>4
<1> QED BY <1>2, <1>11, <1>12, <1>13, <1>14

\* The order of no positions.
LEMMA SortedNone == Sorted({}) = <<>> /\ DOMAIN Sorted({}) = {}
<1>1. Cardinality({}) = 0 /\ 1 .. 0 = {}
  BY FS_EmptySet
<1>2. DOMAIN Sorted({}) = {}
  BY <1>1 DEF Sorted
<1>3. Sorted({}) = [n \in {} |-> Sorted({})[n]]
  BY <1>1 DEF Sorted
<1> QED BY <1>2, <1>3

\* No option is set at first.
LEMMA LastSetNone == LastSet(Nothing, {})
BY DEF LastSet, Nothing

\* A later setting replaces those of the same feature.
LEMMA LastSetMore ==
  ASSUME NEW options, NEW S, S \subseteq Nat, LastSet(options, S), NEW p \in Nat, \A j \in S : j < p
  PROVE  LastSet(Put(options, source[p].feature, source[p].value), S \cup {p})
<1> DEFINE x == source[p].feature
           v == source[p].value
           put == Put(options, x, v)
           T == S \cup {p}
<1>1. /\ options = [y \in {source[j].feature : j \in S} |-> options[y]]
      /\ \A j \in S : (\A k \in S : source[k].feature = source[j].feature => k <= j)
                        => options[source[j].feature] = source[j].value
  BY DEF LastSet
<1>2. put = [y \in {x} \cup DOMAIN options |-> IF y \in {x} THEN v ELSE options[y]]
  BY DEF Put, Over
<1>3. DOMAIN options = {source[j].feature : j \in S}
  BY <1>1
<1>4. {x} \cup DOMAIN options = {source[j].feature : j \in T}
  BY <1>3
<1>5. put = [y \in {source[j].feature : j \in T} |-> put[y]]
  <2> HIDE DEF put, x, v, T
  <2> QED BY <1>2, <1>4
<1>6. put[x] = v /\ \A j \in S : source[j].feature # x => put[source[j].feature] = options[source[j].feature]
  BY <1>2, <1>3
<1>7. ASSUME NEW j \in T, \A k \in T : source[k].feature = source[j].feature => k <= j
      PROVE  put[source[j].feature] = source[j].value
  <2>1. CASE j = p
    BY <1>6, <2>1
  <2>2. CASE j # p
    <3>1. j \in S /\ j < p /\ j \in Nat
      BY <2>2
    <3>2. source[j].feature # x
      BY <1>7, <3>1
    <3>3. \A k \in S : source[k].feature = source[j].feature => k <= j
      BY <1>7
    <3> HIDE DEF put, x, v, T
    <3> QED BY <1>1, <1>6, <3>1, <3>2, <3>3
  <2> QED BY <2>1, <2>2
<1> HIDE DEF put, T
<1>8. LastSet(put, T)
  BY <1>5, <1>7 DEF LastSet
<1> QED BY <1>8 DEF put, T, x, v

\* The last settings of a block are its options.
LEMMA LastSetIs ==
  ASSUME source \in Sources, NEW i, NEW options, LastSet(options, Inside("option", i))
  PROVE  options = SettingsIn(i)
<1> DEFINE S == Inside("option", i)
           Q(x) == {j \in S : source[j].feature = x}
<1>1. S \subseteq 1 .. Len(source) /\ Len(source) \in Nat
  BY SourceIs DEF Inside, All
<1>2. SettingsIn(i) = [x \in {source[j].feature : j \in S} |-> source[Max(Q(x))].value]
  BY DEF SettingsIn
<1>3. /\ options = [x \in {source[j].feature : j \in S} |-> options[x]]
      /\ \A j \in S : (\A k \in S : source[k].feature = source[j].feature => k <= j)
                        => options[source[j].feature] = source[j].value
  BY DEF LastSet
<1> HIDE DEF S
<1>4. ASSUME NEW x \in {source[j].feature : j \in S} PROVE options[x] = source[Max(Q(x))].value
  <2>1. Q(x) \in SUBSET (0 .. Len(source)) /\ Q(x) # {}
    <3>1. PICK j \in S : source[j].feature = x
      OBVIOUS
    <3>2. j \in Q(x)
      BY <3>1
    <3>3. \A k \in Q(x) : k \in 0 .. Len(source)
      BY <1>1
    <3> HIDE DEF Q
    <3> QED BY <3>2, <3>3
  <2>2. Max(Q(x)) \in Q(x) /\ \A k \in Q(x) : k <= Max(Q(x))
    <3> HIDE DEF Q
    <3> QED BY <1>1, <2>1, Longest
  <2>3. PICK m : m = Max(Q(x))
    OBVIOUS
  <2>4. m \in S /\ source[m].feature = x /\ \A k \in S : source[k].feature = x => k <= m
    BY <2>2, <2>3
  <2>5. options[x] = source[m].value
    BY <1>3, <2>4
  <2> QED BY <2>3, <2>5
<1> HIDE DEF Q
<1> QED BY <1>2, <1>3, <1>4

\* Nothing is said of aliases at first.
LEMMA AliasNone == AliasSaid(FALSE, {})
BY DEF AliasSaid

\* A later setting replaces the one before.
LEMMA AliasMore ==
  ASSUME NEW S, S \subseteq Nat, NEW p \in Nat, \A j \in S : j < p
  PROVE  AliasSaid(source[p].value, S \cup {p})
<1>1. ASSUME NEW j \in S \cup {p}, \A k \in S \cup {p} : k <= j PROVE j = p
  BY <1>1
<1> QED BY <1>1 DEF AliasSaid

\* The last setting of an enum is what it says.
LEMMA AliasIs ==
  ASSUME source \in Sources, NEW e, NEW alias, AliasSaid(alias, Inside("allow_alias", e))
  PROVE  alias = Aliases(e)
<1> DEFINE S == Inside("allow_alias", e)
<1>1. /\ S \subseteq 1 .. Len(source) /\ Len(source) \in Nat
      /\ \A j \in S : j \in DOMAIN source /\ source[j].is = "allow_alias"
  BY SourceIs DEF Inside, All
<1>2. Aliases(e) = (S # {} /\ source[Max(S)].value)
  BY DEF Aliases
<1>3. /\ S = {} => alias = FALSE
      /\ \A j \in S : (\A k \in S : k <= j) => alias = source[j].value
  BY DEF AliasSaid
<1> HIDE DEF S
<1>4. CASE S = {}
  BY <1>2, <1>3, <1>4
<1>5. CASE S # {}
  <2>1. S \in SUBSET (0 .. Len(source))
    BY <1>1
  <2>2. Max(S) \in S /\ \A k \in S : k <= Max(S)
    BY <1>1, <1>5, <2>1, Longest
  <2>3. alias = source[Max(S)].value
    BY <1>3, <2>2
  <2>4. source[Max(S)].value \in BOOLEAN
    <3>1. PICK m : m = Max(S)
      OBVIOUS
    <3>2. m \in DOMAIN source /\ source[m].is = "allow_alias"
      BY <1>1, <2>2, <3>1
    <3>3. Grammatical(source[m])
      BY <3>2, BuilderAssumption
    <3> QED BY <3>1, <3>2, <3>3 DEF Grammatical
  <2> QED BY <1>2, <1>5, <2>3, <2>4
<1> QED BY <1>4, <1>5

-----------------------------------------------------------------------------
(* The innermost block, and the names in a scope.                          *)

\* The blocks around a position are its owner and those around the owner.
LEMMA AroundOwner ==
  ASSUME source \in Sources, NEW c \in 1 .. Len(source) + 1, Owner(c) # 0
  PROVE  Around(c) = Around(Owner(c)) \cup {Owner(c)} /\ Owner(c) \notin Around(Owner(c))
<1> DEFINE p == Owner(c)
<1>1. p \in Around(c) /\ \A i \in Around(c) : i <= p
  BY OwnerIs
<1> HIDE DEF p
<1>2. p \in Nat /\ p \in 1 .. Len(source) /\ p < c /\ p \in 1 .. Len(source) + 1 /\ p \in 1 .. c
      /\ c \in Nat
  BY <1>1, AroundHas, SourceIs
<1>3. ASSUME NEW i \in Around(c), i # p PROVE i \in Around(p)
  <2>1. i \in Nat /\ i <= p
    BY <1>1, <1>3, AroundHas
  <2>2. i < p
    BY <1>2, <1>3, <2>1
  <2> QED BY <1>2, <2>2, AroundEarlier
<1>4. \A i \in Around(p) : i \in Around(c)
  BY <1>1, AroundOuter
<1>5. p \notin Around(p)
  BY <1>2, AroundIs
<1> QED BY <1>1, <1>3, <1>4, <1>5 DEF p

\* The block on top of the stack is the innermost one.
LEMMA TopTracked ==
  ASSUME source \in Sources, NEW c \in 1 .. Len(source) + 1, NEW s, IsStack(s), StackTracked(s, c)
  PROVE  /\ s = <<>> <=> Owner(c) = 0
         /\ s = <<>> => Around(c) = {}
         /\ s # <<>> => /\ Owner(c) \in Around(c) /\ Level(Owner(c)) = Len(s)
                        /\ Len(s) = Level(c - 1) /\ source[Owner(c)].is = s[Len(s)].kind
                        /\ BlockTracked(s[Len(s)], Owner(c), c)
         /\ Innermost(c, {"group"}) = 0
<1>1. /\ Len(s) = Level(c - 1)
      /\ \A i \in Around(c) : source[i].is # "group" /\ BlockTracked(s[Level(i)], i, c)
      /\ \A n \in 1 .. Len(s) : \E i \in Around(c) : Level(i) = n
  BY DEF StackTracked
<1>2. Len(s) \in Nat /\ (s = <<>> <=> Len(s) = 0)
  BY LengthOfStack
<1>3. Innermost(c, {"group"}) = 0
  BY <1>1, InnermostNone
<1>4. ASSUME s = <<>> PROVE Around(c) = {}
  <2>1. \A i \in Around(c) : Level(i) \in 1 .. Level(c - 1)
    BY AroundHas
  <2> QED BY <1>1, <1>2, <1>4, <2>1
<1>5. ASSUME s # <<>>
      PROVE  /\ Owner(c) # 0 /\ Owner(c) \in Around(c) /\ Level(Owner(c)) = Len(s)
             /\ source[Owner(c)].is = s[Len(s)].kind /\ BlockTracked(s[Len(s)], Owner(c), c)
  <2>1. PICK i \in Around(c) : Level(i) = Len(s)
    BY <1>1, <1>2, <1>5
  <2>2. Owner(c) # 0 /\ Owner(c) \in Around(c) /\ i <= Owner(c)
    BY <2>1, OwnerIs
  <2>3. Level(Owner(c)) \in Nat /\ Level(Owner(c)) <= Level(c - 1) /\ i \in Nat /\ Owner(c) \in Nat
    BY <2>2, AroundHas
  <2>4. i = Owner(c) \/ i < Owner(c)
    BY <2>2, <2>3
  <2>5. Level(i) <= Level(Owner(c))
    BY <1>2, <2>1, <2>2, <2>3, <2>4, AroundLevels
  <2>6. Level(Owner(c)) = Len(s)
    BY <1>1, <1>2, <2>1, <2>3, <2>5
  <2>7. BlockTracked(s[Len(s)], Owner(c), c)
    BY <1>1, <2>2, <2>6
  <2>8. source[Owner(c)].is = s[Len(s)].kind
    BY <2>7 DEF BlockTracked
  <2> QED BY <2>2, <2>6, <2>7, <2>8
<1> QED BY <1>1, <1>3, <1>4, <1>5, OwnerIs

\* The package before a position.
LEMMA PackageIs ==
  ASSUME source \in Sources, NEW c \in 1 .. Len(source) + 1,
         OnePackage(c)
  PROVE  /\ Before(All("package"), c) = {} => PackageBefore(c) = <<>>
         /\ \A j \in Before(All("package"), c) : PackageBefore(c) = source[j].name /\ source[j].name \in Name
         /\ PackageBefore(c) \in Seq(STRING)
<1> DEFINE B == Before(All("package"), c)
<1>1. PackageBefore(c) = IF B = {} THEN <<>> ELSE source[Min(B)].name
  BY DEF PackageBefore, Before
<1>2. B \subseteq Nat /\ B \subseteq DOMAIN source /\ \A j \in B : source[j].is = "package"
  BY SourceIs DEF Before, All
<1> HIDE DEF B
<1>3. ASSUME NEW j \in B PROVE PackageBefore(c) = source[j].name /\ source[j].name \in Name
  <2>1. Min(B) \in B
    BY <1>2, <1>3, Shortest
  <2>2. Min(B) = j
    BY <2>1 DEF B, OnePackage
  <2>3. Grammatical(source[j]) /\ source[j].is = "package"
    BY <1>2, BuilderAssumption
  <2>4. source[j].name \in Name
    BY <2>3 DEF Grammatical
  <2> QED BY <1>1, <1>3, <2>2, <2>4
<1>4. B = {} => PackageBefore(c) = <<>>
  BY <1>1
<1>5. PackageBefore(c) \in Seq(STRING)
  <2>1. CASE B = {}
    <3>1. <<>> \in Seq(STRING)
      OBVIOUS
    <3> QED BY <1>4, <2>1, <3>1
  <2>2. CASE B # {}
    BY <1>3, <2>2 DEF Name
  <2> QED BY <2>1, <2>2
<1> QED BY <1>3, <1>4, <1>5 DEF B

\* Statements other than a package leave the package as it is.
LEMMA PackageKept ==
  ASSUME source \in Sources, NEW c \in 1 .. Len(source), NEW n, Follows(c, n), source[c].is # "package"
  PROVE  /\ Before(All("package"), n) = Before(All("package"), c)
         /\ PackageBefore(n) = PackageBefore(c)
<1>1. c \notin All("package")
  BY DEF All
<1>2. Before(All("package"), n) = Before(All("package"), c)
  BY <1>1, BeforeGrows
<1> QED BY <1>2 DEF PackageBefore, Before

\* Within a block the package is that before the block.
LEMMA PackageWithin ==
  ASSUME source \in Sources, NEW c \in 1 .. Len(source) + 1, NEW p \in Around(c), PlacedBefore(c)
  PROVE  PackageBefore(c) = PackageBefore(p)
<1>1. p \in Nat /\ p \in 1 .. Len(source) /\ p < c /\ source[p].is \in Opening /\ c \in Nat
  BY AroundHas, SourceIs
<1>2. ASSUME NEW j \in All("package"), j < c PROVE j < p
  <2>1. /\ j \in DOMAIN source /\ source[j].is = "package" /\ Innermost(j, {"group"}) = 0
        /\ j \in Nat /\ j \in 1 .. Len(source) + 1 /\ j \in 1 .. c
    BY <1>1, <1>2, SourceIs DEF All
  <2>2. Owner(j) = 0
    BY <1>2, <2>1 DEF PlacedBefore, InPlace
  <2>3. Around(j) = {}
    BY <2>1, <2>2, OwnerIs
  <2>4. ~(p < j)
    BY <2>1, <2>3, AroundEarlier
  <2>5. p # j
    BY <1>1, <2>1 DEF Opening
  <2> QED BY <1>1, <2>1, <2>4, <2>5
<1>3. \A j \in All("package") : j < p => j < c
  <2>1. All("package") \subseteq Nat
    BY SourceIs DEF All
  <2> QED BY <1>1, <2>1
<1>4. {i \in All("package") : i < c} = {i \in All("package") : i < p}
  BY <1>2, <1>3
<1> QED BY <1>4 DEF PackageBefore

\* The messages around a position.
MessagesAround(c) == {i \in Around(c) : source[i].is = "message"}

\* The identifiers that the messages around a position give.
NamesAround(c) ==
  [n \in DOMAIN Sorted(MessagesAround(c)) |-> source[Sorted(MessagesAround(c))[n]].name]

\* A scope is that of the package and those of the messages.
LEMMA ScopeIs ==
  ASSUME NEW c
  PROVE  ScopeAround(c) = PackageBefore(c) \o NamesAround(c)
BY DEF ScopeAround, NamesAround, MessagesAround

\* The messages around a position are finitely many.
LEMMA MessagesFinite ==
  ASSUME source \in Sources, NEW c \in 1 .. Len(source) + 1
  PROVE  IsFiniteSet(MessagesAround(c)) /\ MessagesAround(c) \subseteq Nat
<1>1. \A i \in MessagesAround(c) : i \in Nat /\ i <= c
  BY AroundHas, SourceIs DEF MessagesAround
<1>2. c \in Nat
  BY SourceIs
<1> QED BY <1>1, <1>2, FS_BoundedSetOfNaturals

\* The names around a position are a sequence, with one more inside a message.
LEMMA NamesMore ==
  ASSUME source \in Sources, NEW c \in 1 .. Len(source) + 1
  PROVE  /\ IsStack(NamesAround(c))
         /\ Owner(c) # 0 /\ source[Owner(c)].is = "message"
              => NamesAround(c) = Append(NamesAround(Owner(c)), source[Owner(c)].name)
<1>1. ASSUME NEW d \in 1 .. Len(source) + 1
      PROVE  /\ IsStack(NamesAround(d)) /\ IsStack(Sorted(MessagesAround(d)))
             /\ DOMAIN NamesAround(d) = DOMAIN Sorted(MessagesAround(d))
             /\ Len(NamesAround(d)) = Len(Sorted(MessagesAround(d)))
  <2>1. IsFiniteSet(MessagesAround(d)) /\ MessagesAround(d) \subseteq Nat
    BY MessagesFinite
  <2>2. d \in Nat /\ \A j \in MessagesAround(d) : j < d
    BY SourceIs, AroundHas DEF MessagesAround
  <2> DEFINE t == Sorted(MessagesAround(d))
             N == Cardinality(MessagesAround(d))
             f == NamesAround(d)
  <2>3. IsStack(t) /\ DOMAIN t = 1 .. N /\ N \in Nat
    BY <2>1, <2>2, SortedMore
  <2>4. DOMAIN f = DOMAIN t /\ f = [n \in DOMAIN t |-> f[n]]
    BY DEF NamesAround
  <2> HIDE DEF t, N, f
  <2>5. IsStack(f) /\ Len(f) = N
    BY <2>3, <2>4, SequenceOf
  <2>6. t = [n \in 1 .. N |-> t[n]]
    <3>1. PICK S : t \in Seq(S)
      BY <2>3 DEF IsStack
    <3>2. t = [n \in 1 .. Len(t) |-> t[n]]
      BY <3>1, ByIndex
    <3>3. DOMAIN t = 1 .. Len(t)
      BY <3>1
    <3> QED BY <2>3, <3>2, <3>3
  <2>7. Len(t) = N
    BY <2>3, <2>6, SequenceOf
  <2> QED BY <2>3, <2>4, <2>5, <2>7 DEF t, f
<1>2. ASSUME Owner(c) # 0, source[Owner(c)].is = "message"
      PROVE  NamesAround(c) = Append(NamesAround(Owner(c)), source[Owner(c)].name)
  <2> DEFINE p == Owner(c)
  <2>1. p \in Around(c) /\ Around(c) = Around(p) \cup {p}
    BY <1>2, OwnerIs, AroundOwner
  <2>2. source[p].is = "message"
    BY <1>2
  <2> HIDE DEF p
  <2>3. p \in Nat /\ p \in 1 .. Len(source) + 1
    BY <2>1, AroundHas, SourceIs
  <2>4. MessagesAround(c) = MessagesAround(p) \cup {p}
    BY <2>1, <2>2 DEF MessagesAround
  <2>5. IsFiniteSet(MessagesAround(p)) /\ MessagesAround(p) \subseteq Nat
    BY <2>3, MessagesFinite
  <2>6. \A j \in MessagesAround(p) : j < p
    BY <2>3, AroundHas DEF MessagesAround
  <2>7. Sorted(MessagesAround(c)) = Append(Sorted(MessagesAround(p)), p)
    BY <2>3, <2>4, <2>5, <2>6, SortedMore
  <2> DEFINE t == Sorted(MessagesAround(p))
             u == Sorted(MessagesAround(c))
             f == NamesAround(p)
             g == NamesAround(c)
             N == Len(t)
  <2>8. /\ IsStack(f) /\ IsStack(t) /\ DOMAIN f = DOMAIN t /\ Len(f) = Len(t)
        /\ DOMAIN g = DOMAIN u
    BY <1>1, <2>3
  <2>9. /\ f = [n \in DOMAIN t |-> source[t[n]].name]
        /\ g = [n \in DOMAIN u |-> source[u[n]].name]
    BY DEF NamesAround
  <2> HIDE DEF t, u, f, g
  <2>10. N \in Nat /\ DOMAIN t = 1 .. N
         /\ Append(t, p) = [n \in 1 .. N + 1 |-> IF n = N + 1 THEN p ELSE t[n]]
    BY <2>8, AppendIs
  <2>11. Append(f, source[p].name) = [n \in 1 .. N + 1 |-> IF n = N + 1 THEN source[p].name ELSE f[n]]
    BY <2>8, AppendIs
  <2>12. u = Append(t, p)
    BY <2>7 DEF u, t
  <2> HIDE DEF N
  <2>13. DOMAIN u = 1 .. N + 1
    BY <2>10, <2>12
  <2>14. \A n \in 1 .. N + 1 : source[u[n]].name = IF n = N + 1 THEN source[p].name ELSE f[n]
    <3> SUFFICES ASSUME NEW n \in 1 .. N + 1
                 PROVE  source[u[n]].name = IF n = N + 1 THEN source[p].name ELSE f[n]
      OBVIOUS
    <3>1. u[n] = IF n = N + 1 THEN p ELSE t[n]
      BY <2>10, <2>12
    <3>2. CASE n = N + 1
      BY <3>1, <3>2
    <3>3. CASE n # N + 1
      <4>1. n \in DOMAIN t
        BY <2>10, <3>3
      <4> QED BY <2>9, <3>1, <3>3, <4>1
    <3> QED BY <3>2, <3>3
  <2>15. g = [n \in 1 .. N + 1 |-> IF n = N + 1 THEN source[p].name ELSE f[n]]
    BY <2>9, <2>13, <2>14
  <2>16. g = Append(f, source[p].name)
    BY <2>11, <2>15
  <2> QED BY <2>16 DEF g, f, p
<1> QED BY <1>1, <1>2

\* Joining and then appending is appending first.
LEMMA JoinAppend ==
  ASSUME NEW s, IsStack(s), NEW t, IsStack(t), NEW x
  PROVE  s \o Append(t, x) = Append(s \o t, x)
<1>1. PICK S : s \in Seq(S)
  BY DEF IsStack
<1>2. PICK T : t \in Seq(T)
  BY DEF IsStack
<1> DEFINE R == S \cup T \cup {x}
<1>3. s \in Seq(R) /\ t \in Seq(R) /\ x \in R /\ <<x>> \in Seq(R)
  BY <1>1, <1>2
<1> HIDE DEF R
<1>4. Append(t, x) = t \o <<x>>
  BY <1>3, AppendIsConcat
<1>5. s \o t \in Seq(R)
  BY <1>3, ConcatProperties
<1>6. Append(s \o t, x) = (s \o t) \o <<x>>
  BY <1>3, <1>5, AppendIsConcat
<1>7. (s \o t) \o <<x>> = s \o (t \o <<x>>)
  BY <1>3, ConcatAssociative
<1> QED BY <1>4, <1>6, <1>7

\* The scope within the file, a message, or another block.
LEMMA ScopeWithin ==
  ASSUME source \in Sources, NEW c \in 1 .. Len(source) + 1, PlacedBefore(c),
         OnePackage(c)
  PROVE  /\ Owner(c) = 0 => ScopeAround(c) = PackageBefore(c)
         /\ Owner(c) # 0 /\ source[Owner(c)].is = "message" => ScopeAround(c) = FullName(Owner(c))
         /\ Owner(c) # 0 /\ source[Owner(c)].is # "message" => ScopeAround(c) = ScopeAround(Owner(c))
<1>1. PackageBefore(c) \in Seq(STRING)
  BY PackageIs
<1>2. ASSUME Owner(c) = 0 PROVE ScopeAround(c) = PackageBefore(c)
  <2>1. Around(c) = {}
    BY <1>2, OwnerIs
  <2>2. MessagesAround(c) = {}
    BY <2>1 DEF MessagesAround
  <2>3. DOMAIN Sorted(MessagesAround(c)) = {}
    BY <2>2, SortedNone
  <2>4. NamesAround(c) = <<>>
    BY <2>3 DEF NamesAround
  <2>5. PackageBefore(c) \o <<>> = PackageBefore(c)
    BY <1>1, ConcatEmptySeq
  <2> QED BY <2>4, <2>5, ScopeIs
<1>3. ASSUME Owner(c) # 0
      PROVE  /\ PackageBefore(c) = PackageBefore(Owner(c)) /\ Owner(c) \in 1 .. Len(source) + 1
             /\ Around(c) = Around(Owner(c)) \cup {Owner(c)}
  <2>1. Owner(c) \in Around(c)
    BY <1>3, OwnerIs
  <2>2. Owner(c) \in 1 .. Len(source)
    BY <2>1, AroundHas
  <2> QED BY <1>3, <2>1, <2>2, PackageWithin, AroundOwner, SourceIs
<1>4. ASSUME Owner(c) # 0, source[Owner(c)].is = "message" PROVE ScopeAround(c) = FullName(Owner(c))
  <2> DEFINE p == Owner(c)
  <2>1. NamesAround(c) = Append(NamesAround(p), source[p].name)
    BY <1>4, NamesMore
  <2>2. PackageBefore(c) = PackageBefore(p) /\ p \in 1 .. Len(source) + 1
    BY <1>3, <1>4
  <2>3. IsStack(NamesAround(p))
    BY <2>2, NamesMore
  <2>4. IsStack(PackageBefore(p))
    BY <1>1, <2>2 DEF IsStack
  <2> HIDE DEF p
  <2>5. PackageBefore(p) \o Append(NamesAround(p), source[p].name)
          = Append(PackageBefore(p) \o NamesAround(p), source[p].name)
    BY <2>3, <2>4, JoinAppend
  <2>6. ScopeAround(c) = PackageBefore(p) \o Append(NamesAround(p), source[p].name)
    BY <2>1, <2>2, ScopeIs
  <2>7. FullName(p) = Append(PackageBefore(p) \o NamesAround(p), source[p].name)
    BY ScopeIs DEF FullName
  <2> QED BY <2>5, <2>6, <2>7 DEF p
<1>5. ASSUME Owner(c) # 0, source[Owner(c)].is # "message" PROVE ScopeAround(c) = ScopeAround(Owner(c))
  <2>1. MessagesAround(c) = MessagesAround(Owner(c))
    BY <1>3, <1>5 DEF MessagesAround
  <2>2. NamesAround(c) = NamesAround(Owner(c))
    BY <2>1 DEF NamesAround
  <2> QED BY <1>3, <1>5, <2>2, ScopeIs
<1> QED BY <1>2, <1>4, <1>5

-----------------------------------------------------------------------------
(* What a statement leaves as it is.                                       *)

PartSorts == {"reserved", "extensions", "option", "value", "allow_alias", "rpc"}

\* A block has the same contents before c and before n.
SameContents(i, c, n) ==
  /\ Before(FieldsIn(i), n) = Before(FieldsIn(i), c)
  /\ Before(Inside("oneof", i), n) \ Around(n) = Before(Inside("oneof", i), c) \ Around(c)
  /\ \A is \in PartSorts : Before(Inside(is, i), n) = Before(Inside(is, i), c)

\* A block with the same contents is described as before.
LEMMA BlockKept ==
  ASSUME NEW b, NEW i, NEW c, NEW n, SameContents(i, c, n), BlockTracked(b, i, c)
  PROVE  BlockTracked(b, i, n)
<1>1. /\ Before(FieldsIn(i), n) = Before(FieldsIn(i), c)
      /\ Before(Inside("oneof", i), n) \ Around(n) = Before(Inside("oneof", i), c) \ Around(c)
  BY DEF SameContents
<1>2. /\ Before(Inside("reserved", i), n) = Before(Inside("reserved", i), c)
      /\ Before(Inside("extensions", i), n) = Before(Inside("extensions", i), c)
      /\ Before(Inside("option", i), n) = Before(Inside("option", i), c)
      /\ Before(Inside("value", i), n) = Before(Inside("value", i), c)
      /\ Before(Inside("allow_alias", i), n) = Before(Inside("allow_alias", i), c)
      /\ Before(Inside("rpc", i), n) = Before(Inside("rpc", i), c)
  BY DEF SameContents, PartSorts
<1>3. MessageTracked(b, i, c) => MessageTracked(b, i, n)
  BY <1>1, <1>2 DEF MessageTracked
<1>4. EnumTracked(b, i, c) => EnumTracked(b, i, n)
  BY <1>2 DEF EnumTracked
<1> QED BY <1>2, <1>3, <1>4 DEF BlockTracked

\* The statements in a block grow by the one that is read.
LEMMA InsideGrows ==
  ASSUME source \in Sources, NEW c \in 1 .. Len(source), NEW n, Follows(c, n),
         NEW is, is # "group", NEW i
  PROVE  Before(Inside(is, i), n) = Before(Inside(is, i), c) \cup ({c} \cap Inside(is, i))
<1>1. Inside(is, i) \subseteq All(is)
  BY DEF Inside
<1> QED BY <1>1, BeforeGrows

\* A statement of another sort, or of another block, leaves them.
LEMMA InsideKept ==
  ASSUME source \in Sources, NEW c \in 1 .. Len(source), NEW n, Follows(c, n),
         NEW is, is # "group", NEW i, ~(source[c].is = is /\ Owner(c) = i)
  PROVE  Before(Inside(is, i), n) = Before(Inside(is, i), c)
<1>1. c \notin Inside(is, i)
  BY DEF Inside, All
<1>2. Before(Inside(is, i), n) = Before(Inside(is, i), c) \cup ({c} \cap Inside(is, i))
  BY InsideGrows
<1> QED BY <1>1, <1>2

\* A statement of theirs joins them.
LEMMA InsideAdds ==
  ASSUME source \in Sources, NEW c \in 1 .. Len(source), NEW n, Follows(c, n),
         source[c].is # "group", Innermost(c, {"group"}) = 0
  PROVE  Before(Inside(source[c].is, Owner(c)), n) = Before(Inside(source[c].is, Owner(c)), c) \cup {c}
<1> DEFINE is == source[c].is
           i == Owner(c)
<1>1. c \in Inside(is, i)
  BY SourceIs DEF Inside, All
<1>2. is # "group"
  OBVIOUS
<1> HIDE DEF is, i
<1>3. Before(Inside(is, i), n) = Before(Inside(is, i), c) \cup ({c} \cap Inside(is, i))
  BY <1>2, InsideGrows
<1>4. Before(Inside(is, i), n) = Before(Inside(is, i), c) \cup {c}
  BY <1>1, <1>3
<1> QED BY <1>4 DEF is, i

\* The fields of a message grow by a field that is read.
LEMMA FieldsGrow ==
  ASSUME source \in Sources, NEW c \in 1 .. Len(source), NEW n, Follows(c, n), NEW i
  PROVE  /\ Before(FieldsIn(i), n) = Before(FieldsIn(i), c) \cup ({c} \cap FieldsIn(i))
         /\ c \notin FieldsIn(i) => Before(FieldsIn(i), n) = Before(FieldsIn(i), c)
         /\ source[c].is # "field" => c \notin FieldsIn(i)
<1>1. FieldsIn(i) \subseteq All("field")
  BY DEF FieldsIn
<1>2. Before(FieldsIn(i), n) = Before(FieldsIn(i), c) \cup ({c} \cap FieldsIn(i))
  BY <1>1, BeforeGrows
<1>3. source[c].is # "field" => c \notin FieldsIn(i)
  BY DEF FieldsIn, All
<1> QED BY <1>2, <1>3

\* A statement of another block, or one that no block keeps, changes no contents.
LEMMA ContentsKept ==
  ASSUME source \in Sources, NEW c \in 1 .. Len(source), NEW n, Follows(c, n), Around(n) = Around(c),
         NEW i, source[c].is \notin Opening \ {"group"}, c \notin FieldsIn(i),
         source[c].is \in PartSorts => Owner(c) # i
  PROVE  SameContents(i, c, n)
<1>1. source[c].is # "oneof"
  BY DEF Opening
<1>2. Before(Inside("oneof", i), n) = Before(Inside("oneof", i), c)
  <2>1. "oneof" # "group" /\ ~(source[c].is = "oneof" /\ Owner(c) = i)
    BY <1>1
  <2> QED BY <2>1, InsideKept
<1>3. \A is \in PartSorts : is # "group"
  BY DEF PartSorts
<1>4. ASSUME NEW is \in PartSorts PROVE Before(Inside(is, i), n) = Before(Inside(is, i), c)
  <2>1. ~(source[c].is = is /\ Owner(c) = i) /\ is # "group"
    BY <1>3
  <2> QED BY <2>1, InsideKept
<1>5. Before(FieldsIn(i), n) = Before(FieldsIn(i), c)
  BY FieldsGrow
<1> QED BY <1>2, <1>4, <1>5 DEF SameContents

\* A block that opens is no contents of another yet.
LEMMA ContentsOpened ==
  ASSUME source \in Sources, NEW c \in 1 .. Len(source), source[c].is \in Opening \ {"group"}, NEW i
  PROVE  SameContents(i, c, c + 1)
<1> DEFINE n == c + 1
<1>1. Follows(c, n)
  BY DEF Follows
<1>2. Around(n) = Around(c) \cup {c}
  BY AroundOpened
<1> HIDE DEF n
<1>3. Before(Inside("oneof", i), n) = Before(Inside("oneof", i), c) \cup ({c} \cap Inside("oneof", i))
  <2>1. "oneof" # "group"
    OBVIOUS
  <2> QED BY <1>1, <2>1, InsideGrows
<1>4. c \notin Before(Inside("oneof", i), c)
  <2>1. ~(c < c)
    BY SourceIs
  <2> QED BY <2>1 DEF Before
<1>5. Before(Inside("oneof", i), n) \ Around(n) = Before(Inside("oneof", i), c) \ Around(c)
  BY <1>2, <1>3, <1>4
<1>6. \A is \in PartSorts : is # "group" /\ is # source[c].is
  BY DEF PartSorts, Opening
<1>7. ASSUME NEW is \in PartSorts PROVE Before(Inside(is, i), n) = Before(Inside(is, i), c)
  <2>1. is # "group" /\ ~(source[c].is = is /\ Owner(c) = i)
    BY <1>6
  <2> QED BY <1>1, <2>1, InsideKept
<1>8. source[c].is # "field"
  BY DEF Opening
<1>9. Before(FieldsIn(i), n) = Before(FieldsIn(i), c)
  BY <1>1, <1>8, FieldsGrow
<1> QED BY <1>5, <1>7, <1>9 DEF SameContents, n

\* A block that ends leaves the contents of others, but a oneof that of its message.
LEMMA ContentsClosed ==
  ASSUME source \in Sources, NEW c \in 1 .. Len(source), source[c].is = "end",
         Owner(c) # 0, Level(Owner(c)) = Level(c - 1), NEW i
  PROVE  /\ Before(FieldsIn(i), c + 1) = Before(FieldsIn(i), c)
         /\ \A is \in PartSorts : Before(Inside(is, i), c + 1) = Before(Inside(is, i), c)
         /\ Before(Inside("oneof", i), c + 1) \ Around(c + 1)
              = (Before(Inside("oneof", i), c) \ Around(c)) \cup ({Owner(c)} \cap Inside("oneof", i))
         /\ Owner(c) \notin Inside("oneof", i) => SameContents(i, c, c + 1)
<1> DEFINE n == c + 1
           p == Owner(c)
<1>1. Follows(c, n)
  BY DEF Follows
<1>2. Around(n) = Around(c) \ {p}
  BY AroundClosed
<1>3. p \in Around(c) /\ p < c
  <2>1. c \in 1 .. Len(source) + 1
    BY SourceIs
  <2> QED BY <2>1, OwnerIs, AroundHas
<1> HIDE DEF n, p
<1>4. Before(Inside("oneof", i), n) = Before(Inside("oneof", i), c)
  <2>1. "oneof" # "group" /\ ~(source[c].is = "oneof" /\ Owner(c) = i)
    OBVIOUS
  <2> QED BY <1>1, <2>1, InsideKept
<1>5. p \in Inside("oneof", i) => p \in Before(Inside("oneof", i), c)
  BY <1>3 DEF Before
<1>6. \A x \in Before(Inside("oneof", i), c) : x \in Inside("oneof", i)
  BY DEF Before
<1>7. Before(Inside("oneof", i), n) \ Around(n)
        = (Before(Inside("oneof", i), c) \ Around(c)) \cup ({p} \cap Inside("oneof", i))
  BY <1>2, <1>3, <1>4, <1>5, <1>6
<1>8. \A is \in PartSorts : is # "group" /\ is # source[c].is
  BY DEF PartSorts
<1>9. ASSUME NEW is \in PartSorts PROVE Before(Inside(is, i), n) = Before(Inside(is, i), c)
  <2>1. is # "group" /\ ~(source[c].is = is /\ Owner(c) = i)
    BY <1>8
  <2> QED BY <1>1, <2>1, InsideKept
<1>10. Before(FieldsIn(i), n) = Before(FieldsIn(i), c)
  BY <1>1, FieldsGrow
<1>11. p \notin Inside("oneof", i) => SameContents(i, c, n)
  BY <1>7, <1>9, <1>10 DEF SameContents
<1> QED BY <1>7, <1>9, <1>10, <1>11 DEF n, p

\* The sorts of blocks that leave a descriptor.
Described3 == {"message", "enum", "service"}

\* A statement that ends no block leaves those that have ended.
LEMMA EndedKept ==
  ASSUME source \in Sources, NEW c \in 1 .. Len(source), NEW n, Follows(c, n), source[c].is # "end",
         NEW is \in Described3
  PROVE  Ended(is, n) = Ended(is, c)
<1>1. is # "group" /\ is \in Opening /\ n \in Nat /\ c \in Nat
  BY FollowsIs DEF Described3, Opening
<1>2. Before(All(is), n) = Before(All(is), c) \cup ({c} \cap All(is))
  BY <1>1, BeforeGrows
<1>3. \A j \in Before(All(is), c) : j # c
  BY <1>1 DEF Before
<1>4. CASE source[c].is = "group"
  <2>1. Around(n) = Around(c)
    BY <1>4, AroundSkipped
  <2>2. c \notin All(is)
    BY <1>1, <1>4 DEF All
  <2> QED BY <1>2, <2>1, <2>2 DEF Ended
<1>5. CASE source[c].is # "group"
  <2>1. n = c + 1
    BY <1>5 DEF Follows
  <2>2. CASE source[c].is \in Opening
    <3>1. Around(n) = Around(c) \cup {c}
      BY <2>1, <2>2, AroundOpened
    <3> QED BY <1>2, <1>3, <3>1 DEF Ended
  <2>3. CASE source[c].is \notin Opening
    <3>1. Around(n) = Around(c)
      BY <2>1, <2>3, AroundPlain
    <3>2. c \notin All(is)
      BY <1>1, <2>3 DEF All
    <3> QED BY <1>2, <3>1, <3>2 DEF Ended
  <2> QED BY <2>2, <2>3
<1> QED BY <1>4, <1>5

\* An end adds the innermost block to those that have ended.
LEMMA EndedMore ==
  ASSUME source \in Sources, NEW c \in 1 .. Len(source), source[c].is = "end",
         Owner(c) # 0, Level(Owner(c)) = Level(c - 1), NEW is \in Described3
  PROVE  Ended(is, c + 1) = Ended(is, c) \cup ({Owner(c)} \cap All(is))
<1> DEFINE n == c + 1
           p == Owner(c)
<1>1. is # "group" /\ is # "end" /\ Follows(c, n)
  BY DEF Described3, Follows
<1>2. Around(n) = Around(c) \ {p}
  BY AroundClosed
<1>3. p \in Around(c) /\ p < c
  <2>1. c \in 1 .. Len(source) + 1
    BY SourceIs
  <2> QED BY <2>1, OwnerIs, AroundHas
<1> HIDE DEF n, p
<1>4. Before(All(is), n) = Before(All(is), c) \cup ({c} \cap All(is))
  BY <1>1, BeforeGrows
<1>5. c \notin All(is)
  BY <1>1 DEF All
<1>6. p \in All(is) => p \in Before(All(is), c)
  BY <1>3 DEF Before
<1>7. \A x \in Before(All(is), c) : x \in All(is)
  BY DEF Before
<1>8. Ended(is, n) = Ended(is, c) \cup ({p} \cap All(is))
  BY <1>2, <1>3, <1>4, <1>5, <1>6, <1>7 DEF Ended
<1> QED BY <1>8 DEF n, p

-----------------------------------------------------------------------------
(* The stack.                                                              *)

\* A statement after which the same blocks are around, with the same contents.
LEMMA StackSame ==
  ASSUME NEW c, NEW n, NEW s, StackTracked(s, c), Around(n) = Around(c), Level(n - 1) = Level(c - 1),
         \A i \in Around(c) : SameContents(i, c, n)
  PROVE  StackTracked(s, n)
<1>1. /\ Len(s) = Level(c - 1)
      /\ \A i \in Around(c) : source[i].is # "group" /\ BlockTracked(s[Level(i)], i, c)
      /\ \A k \in 1 .. Len(s) : \E i \in Around(c) : Level(i) = k
  BY DEF StackTracked
<1>2. ASSUME NEW i \in Around(c) PROVE BlockTracked(s[Level(i)], i, n)
  <2>1. BlockTracked(s[Level(i)], i, c) /\ SameContents(i, c, n)
    BY <1>1
  <2> QED BY <2>1, BlockKept
<1> QED BY <1>1, <1>2 DEF StackTracked

\* A statement that changes the contents of one of the blocks around.
LEMMA StackChanged ==
  ASSUME source \in Sources, NEW c \in 1 .. Len(source) + 1, NEW n, NEW s, StackTracked(s, c),
         Around(n) = Around(c), Level(n - 1) = Level(c - 1), NEW p \in Around(c),
         NEW t, Len(t) = Len(s), \A k \in 1 .. Len(s) : k # Level(p) => t[k] = s[k],
         BlockTracked(t[Level(p)], p, n),
         \A i \in Around(c) : i # p => SameContents(i, c, n)
  PROVE  StackTracked(t, n)
<1>1. /\ Len(s) = Level(c - 1)
      /\ \A i \in Around(c) : source[i].is # "group" /\ BlockTracked(s[Level(i)], i, c)
      /\ \A k \in 1 .. Len(s) : \E i \in Around(c) : Level(i) = k
  BY DEF StackTracked
<1>2. ASSUME NEW i \in Around(c), i # p PROVE BlockTracked(t[Level(i)], i, n)
  <2>1. Level(i) # Level(p)
    BY <1>2, AroundLevels
  <2>2. Level(i) \in 1 .. Len(s)
    BY <1>1, AroundHas
  <2>3. t[Level(i)] = s[Level(i)]
    BY <2>1, <2>2
  <2>4. BlockTracked(s[Level(i)], i, c) /\ SameContents(i, c, n)
    BY <1>1, <1>2
  <2>5. BlockTracked(s[Level(i)], i, n)
    BY <2>4, BlockKept
  <2> QED BY <2>3, <2>5
<1>3. \A i \in Around(c) : BlockTracked(t[Level(i)], i, n)
  BY <1>2
<1> QED BY <1>1, <1>3 DEF StackTracked

\* A block that opens.
LEMMA StackPushed ==
  ASSUME source \in Sources, NEW c \in 1 .. Len(source), source[c].is \in Opening \ {"group"},
         NEW s, IsStack(s), StackTracked(s, c), NEW block, BlockTracked(block, c, c + 1)
  PROVE  StackTracked(Append(s, block), c + 1)
<1> DEFINE n == c + 1
           t == Append(s, block)
<1>1. /\ Len(s) = Level(c - 1)
      /\ \A i \in Around(c) : source[i].is # "group" /\ BlockTracked(s[Level(i)], i, c)
      /\ \A k \in 1 .. Len(s) : \E i \in Around(c) : Level(i) = k
  BY DEF StackTracked
<1>2. c \in 1 .. Len(source) + 1 /\ n - 1 = c /\ Len(s) \in Nat
  BY SourceIs, LengthOfStack
<1>3. Around(n) = Around(c) \cup {c} /\ Level(c) = Level(c - 1) + 1
  BY AroundOpened, LevelStep
<1>4. Len(t) = Len(s) + 1 /\ t[Len(s) + 1] = block /\ \A k \in 1 .. Len(s) : t[k] = s[k]
  BY PushedElements
<1> HIDE DEF t
<1>5. ASSUME NEW i \in Around(c) PROVE BlockTracked(t[Level(i)], i, n)
  <2>1. Level(i) \in 1 .. Len(s)
    BY <1>1, <1>2, AroundHas
  <2>2. BlockTracked(s[Level(i)], i, c)
    BY <1>1
  <2>3. SameContents(i, c, n)
    BY ContentsOpened
  <2>4. BlockTracked(s[Level(i)], i, n)
    BY <2>2, <2>3, BlockKept
  <2> QED BY <1>4, <2>1, <2>4
<1>6. BlockTracked(t[Level(c)], c, n)
  BY <1>1, <1>3, <1>4
<1>7. \A i \in Around(n) : source[i].is # "group" /\ BlockTracked(t[Level(i)], i, n)
  BY <1>1, <1>3, <1>5, <1>6
<1>8. ASSUME NEW k \in 1 .. Len(t) PROVE \E i \in Around(n) : Level(i) = k
  <2>1. k \in 1 .. Len(s) \/ k = Level(c)
    BY <1>1, <1>2, <1>3, <1>4
  <2> QED BY <1>1, <1>3, <2>1
<1>9. Len(t) = Level(n - 1)
  BY <1>1, <1>2, <1>3, <1>4
<1> QED BY <1>7, <1>8, <1>9 DEF StackTracked, t

\* A block that ends.
LEMMA StackPopped ==
  ASSUME source \in Sources, NEW c \in 1 .. Len(source), source[c].is = "end",
         NEW s, IsStack(s), StackTracked(s, c), s # <<>>, NEW t, Len(t) = Len(s) - 1,
         \A i \in Around(c) : i # Owner(c) => BlockTracked(t[Level(i)], i, c + 1)
  PROVE  StackTracked(t, c + 1)
<1> DEFINE n == c + 1
           p == Owner(c)
<1>1. /\ Len(s) = Level(c - 1)
      /\ \A i \in Around(c) : source[i].is # "group" /\ BlockTracked(s[Level(i)], i, c)
      /\ \A k \in 1 .. Len(s) : \E i \in Around(c) : Level(i) = k
  BY DEF StackTracked
<1>2. c \in 1 .. Len(source) + 1 /\ n - 1 = c /\ Len(s) \in Nat /\ c \in Nat
  BY SourceIs, LengthOfStack
<1>3. Owner(c) \in Around(c) /\ Level(Owner(c)) = Len(s)
  BY <1>2, TopTracked
<1>4. Owner(c) # 0 /\ Level(Owner(c)) = Level(c - 1)
  BY <1>1, <1>2, <1>3, AroundHas
<1>5. Around(n) = Around(c) \ {p} /\ Level(c) = Level(c - 1) - 1
  BY <1>4, AroundClosed, LevelStep
<1>6. Len(t) = Level(n - 1)
  BY <1>1, <1>2, <1>5
<1>7. \A i \in Around(n) : source[i].is # "group" /\ BlockTracked(t[Level(i)], i, n)
  BY <1>1, <1>5
<1>8. ASSUME NEW k \in 1 .. Len(t) PROVE \E i \in Around(n) : Level(i) = k
  <2>1. k \in 1 .. Len(s) /\ k # Len(s)
    BY <1>2
  <2>2. PICK i \in Around(c) : Level(i) = k
    BY <1>1, <2>1
  <2>3. i # p
    BY <1>3, <2>1, <2>2
  <2> QED BY <1>5, <2>2, <2>3
<1> QED BY <1>6, <1>7, <1>8 DEF StackTracked

\* Nothing is in a block that has just been opened.
LEMMA NothingInside ==
  ASSUME source \in Sources, NEW c \in 1 .. Len(source)
  PROVE  /\ \A is : Before(Inside(is, c), c + 1) = {}
         /\ Before(FieldsIn(c), c + 1) = {}
<1>1. ASSUME NEW j \in DOMAIN source, NEW K, Innermost(j, K) = c PROVE ~(j < c + 1)
  <2>1. j \in 1 .. Len(source) + 1 /\ j \in Nat /\ c \in Nat /\ c # 0
    BY SourceIs
  <2>2. c \in Around(j)
    BY <1>1, <2>1, InnermostIs
  <2>3. c < j
    BY <2>1, <2>2, AroundHas
  <2> QED BY <2>1, <2>3
<1>2. ASSUME NEW is PROVE Before(Inside(is, c), c + 1) = {}
  BY <1>1 DEF Before, Inside, All, Owner
<1>3. Before(FieldsIn(c), c + 1) = {}
  BY <1>1 DEF Before, FieldsIn, All
<1> QED BY <1>2, <1>3

\* A block that has just been opened is what it says.
LEMMA OpenedTracked ==
  ASSUME source \in Sources, NEW c \in 1 .. Len(source), source[c].is \in Opening \ {"group"},
         NEW name,
         source[c].is \in {"message", "enum", "service"} => name = FullName(c),
         source[c].is = "oneof" => name = source[c].name,
         source[c].is # "extend"
  PROVE  BlockTracked(Opened(source[c].is, name), c, c + 1)
<1> DEFINE b == Opened(source[c].is, name)
<1>1. /\ b.kind = source[c].is /\ b.name = name /\ b.fields = <<>> /\ b.oneofs = {} /\ b.names = <<>>
      /\ b.ranges = <<>> /\ b.extension_ranges = {} /\ b.options = Nothing /\ b.values = <<>>
      /\ b.allow_alias = FALSE /\ b.methods = <<>>
  BY DEF Opened
<1> HIDE DEF b
<1>2. /\ \A is : Before(Inside(is, c), c + 1) = {}
      /\ Before(FieldsIn(c), c + 1) = {}
  BY NothingInside
<1>3. MessageTracked(b, c, c + 1)
  <2>1. Lists(b.fields, Before(FieldsIn(c), c + 1), Descriptions)
    BY <1>1, <1>2, ListsNone
  <2>2. /\ Joins(b.names, Before(Inside("reserved", c), c + 1), NamesAt)
        /\ Joins(b.ranges, Before(Inside("reserved", c), c + 1), RangesAt)
    BY <1>1, <1>2, JoinsNone
  <2>3. LastSet(b.options, Before(Inside("option", c), c + 1))
    BY <1>1, <1>2, LastSetNone
  <2>4. b.oneofs = {source[o].name : o \in Before(Inside("oneof", c), c + 1) \ Around(c + 1)}
    BY <1>1, <1>2
  <2>5. b.extension_ranges = UNION {ExtensionRangesAt(j) : j \in Before(Inside("extensions", c), c + 1)}
    BY <1>1, <1>2
  <2> QED BY <2>1, <2>2, <2>3, <2>4, <2>5 DEF MessageTracked
<1>4. EnumTracked(b, c, c + 1)
  <2>1. Lists(b.values, Before(Inside("value", c), c + 1), ValuesAt)
    BY <1>1, <1>2, ListsNone
  <2>2. /\ Joins(b.names, Before(Inside("reserved", c), c + 1), NamesAt)
        /\ Joins(b.ranges, Before(Inside("reserved", c), c + 1), RangesAt)
    BY <1>1, <1>2, JoinsNone
  <2>3. LastSet(b.options, Before(Inside("option", c), c + 1))
    BY <1>1, <1>2, LastSetNone
  <2>4. AliasSaid(b.allow_alias, Before(Inside("allow_alias", c), c + 1))
    BY <1>1, <1>2, AliasNone
  <2> QED BY <2>1, <2>2, <2>3, <2>4 DEF EnumTracked
<1>5. Lists(b.methods, Before(Inside("rpc", c), c + 1), source)
  BY <1>1, <1>2, ListsNone
<1> QED BY <1>1, <1>3, <1>4, <1>5 DEF BlockTracked, b

\* An extend block that has just been opened knows its scope and its message.
LEMMA ExtendTracked ==
  ASSUME source \in Sources, NEW c \in 1 .. Len(source), source[c].is = "extend"
  PROVE  BlockTracked([Opened("extend", ScopeAround(c)) EXCEPT !.of = [source[c].of EXCEPT !.absolute = FALSE]],
                      c, c + 1)
BY DEF BlockTracked, Opened

-----------------------------------------------------------------------------
(* What has been read is in order.                                         *)

\* Up to the next statement there is one more that is not in a group.
LEMMA ReadGrows ==
  ASSUME source \in Sources, NEW c \in 1 .. Len(source), NEW n, Follows(c, n),
         NEW j \in DOMAIN source, j < n, Innermost(j, {"group"}) = 0
  PROVE  j < c \/ j = c
<1>1. n \in Nat /\ c \in Nat /\ c < n /\ j \in Nat /\ j \in 1 .. Len(source)
  BY FollowsIs, SourceIs
<1>2. SUFFICES ASSUME ~(j < c), j # c PROVE FALSE
  OBVIOUS
<1>3. c + 1 <= j /\ j <= n - 1
  BY <1>1, <1>2
<1>4. source[c].is = "group"
  BY <1>1, <1>3 DEF Follows
<1>5. j \in c + 1 .. n - 1
  BY <1>1, <1>3
<1> QED BY <1>4, <1>5, GroupAround

\* A statement that is in order is read.
LEMMA FitMore ==
  ASSUME source \in Sources, NEW c \in 1 .. Len(source), NEW n, Follows(c, n), FitBefore(c),
         ~Misfit(c), InPlace(c)
  PROVE  FitBefore(n)
<1> SUFFICES ASSUME NEW j \in DOMAIN source, j < n, Innermost(j, {"group"}) = 0
             PROVE  ~Misfit(j) /\ InPlace(j)
  BY DEF FitBefore
<1>1. j < c \/ j = c
  BY ReadGrows
<1> QED BY <1>1 DEF FitBefore

\* What is in order is where the builder looks for it.
LEMMA FitPlaced == ASSUME NEW c, FitBefore(c) PROVE PlacedBefore(c)
BY DEF FitBefore, PlacedBefore

\* Another statement does not declare a package.
LEMMA OnePackageKept ==
  ASSUME source \in Sources, NEW c \in 1 .. Len(source), NEW n, Follows(c, n), OnePackage(c),
         source[c].is # "package"
  PROVE  OnePackage(n)
BY PackageKept DEF OnePackage

\* A statement with a name of its own joins those of its sort.
LEMMA NamedMore ==
  ASSUME source \in Sources, NEW c \in 1 .. Len(source), NEW n, Follows(c, n), NEW is, is # "group",
         NamedApart(is, c),
         \A j \in Before(All(is), c) :
           source[c].is = is => ~(Owner(j) = Owner(c) /\ source[j].name = source[c].name)
  PROVE  NamedApart(is, n)
<1>1. Before(All(is), n) = Before(All(is), c) \cup ({c} \cap All(is))
  BY BeforeGrows
<1>2. c \in All(is) => source[c].is = is
  BY DEF All
<1> SUFFICES ASSUME NEW i \in Before(All(is), n), NEW j \in Before(All(is), n),
                    Owner(i) = Owner(j), source[i].name = source[j].name
             PROVE  i = j
  BY DEF NamedApart
<1>3. CASE i \in Before(All(is), c) /\ j \in Before(All(is), c)
  BY <1>3 DEF NamedApart
<1>4. CASE i \in Before(All(is), c) /\ j = c
  BY <1>2, <1>4 DEF Before
<1>5. CASE i = c /\ j \in Before(All(is), c)
  BY <1>2, <1>5 DEF Before
<1> QED BY <1>1, <1>3, <1>4, <1>5

\* A statement of another sort does not.
LEMMA NamedKept ==
  ASSUME source \in Sources, NEW c \in 1 .. Len(source), NEW n, Follows(c, n), NEW is, is # "group",
         NamedApart(is, c), source[c].is # is
  PROVE  NamedApart(is, n)
BY NamedMore

\* The extensions grow by one that is read.
LEMMA ExtensionsGrow ==
  ASSUME source \in Sources, NEW c \in 1 .. Len(source), NEW n, Follows(c, n)
  PROVE  Before(ExtensionsAt, n) = Before(ExtensionsAt, c) \cup ({c} \cap ExtensionsAt)
<1>1. "field" # "group" /\ ExtensionsAt \subseteq All("field")
  BY DEF ExtensionsAt
<1> QED BY <1>1, BeforeGrows

\* An extension that is not at odds with those before joins them.
LEMMA ExtendedMore ==
  ASSUME source \in Sources, NEW c \in 1 .. Len(source), NEW n, Follows(c, n), ExtendedApart(c),
         \A j \in Before(ExtensionsAt, c) : c \in ExtensionsAt => ~ExtendAlike(j, c)
  PROVE  ExtendedApart(n)
<1>1. Before(ExtensionsAt, n) = Before(ExtensionsAt, c) \cup ({c} \cap ExtensionsAt)
  BY ExtensionsGrow
<1>2. \A i, j : ExtendAlike(i, j) => ExtendAlike(j, i)
  BY DEF ExtendAlike
<1> SUFFICES ASSUME NEW i \in Before(ExtensionsAt, n), NEW j \in Before(ExtensionsAt, n), i # j
             PROVE  ~ExtendAlike(i, j)
  BY DEF ExtendedApart
<1>3. CASE i \in Before(ExtensionsAt, c) /\ j \in Before(ExtensionsAt, c)
  BY <1>3 DEF ExtendedApart
<1>4. CASE i \in Before(ExtensionsAt, c) /\ j = c
  BY <1>4 DEF Before
<1>5. CASE i = c /\ j \in Before(ExtensionsAt, c)
  BY <1>2, <1>5 DEF Before
<1> QED BY <1>1, <1>3, <1>4, <1>5

\* A statement that is no extension leaves them.
LEMMA ExtendedKept ==
  ASSUME source \in Sources, NEW c \in 1 .. Len(source), NEW n, Follows(c, n), ExtendedApart(c),
         c \notin ExtensionsAt
  PROVE  ExtendedApart(n)
BY ExtendedMore

\* A statement that ends no block leaves those that have ended in order.
LEMMA EndedOrderKept ==
  ASSUME source \in Sources, NEW c \in 1 .. Len(source), NEW n, Follows(c, n), EndedInOrder(c),
         source[c].is # "end"
  PROVE  EndedInOrder(n)
<1>1. "message" \in Described3 /\ "enum" \in Described3 /\ "service" \in Described3
  BY DEF Described3
<1>2. /\ Ended("message", n) = Ended("message", c) /\ Ended("enum", n) = Ended("enum", c)
      /\ Ended("service", n) = Ended("service", c)
  BY <1>1, EndedKept
<1> QED BY <1>2 DEF EndedInOrder, TypesEnded

\* What is in order before a statement is so after it.
LEMMA OrderRead ==
  ASSUME source \in Sources, NEW c \in 1 .. Len(source), NEW n, Follows(c, n), InOrderBefore(c),
         ~Misfit(c), InPlace(c), OnePackage(n), NamedApart("rpc", n), NamedApart("oneof", n),
         ExtendedApart(n), EndedInOrder(n)
  PROVE  InOrderBefore(n)
BY FitMore DEF InOrderBefore

\* A statement that is at odds with no other is read.
LEMMA OrderPlain ==
  ASSUME source \in Sources, NEW c \in 1 .. Len(source), NEW n, Follows(c, n), InOrderBefore(c),
         ~Misfit(c), InPlace(c), source[c].is \notin {"end", "package", "rpc", "oneof"},
         c \notin ExtensionsAt
  PROVE  InOrderBefore(n)
<1>1. /\ OnePackage(c) /\ NamedApart("rpc", c) /\ NamedApart("oneof", c) /\ ExtendedApart(c)
      /\ EndedInOrder(c)
  BY DEF InOrderBefore
<1>2. /\ source[c].is # "package" /\ source[c].is # "rpc" /\ source[c].is # "oneof" /\ source[c].is # "end"
      /\ "rpc" # "group" /\ "oneof" # "group"
  OBVIOUS
<1>3. OnePackage(n) /\ ExtendedApart(n) /\ EndedInOrder(n)
  BY <1>1, <1>2, OnePackageKept, ExtendedKept, EndedOrderKept
<1>4. NamedApart("rpc", n) /\ NamedApart("oneof", n)
  BY <1>1, <1>2, NamedKept
<1> QED BY <1>3, <1>4, OrderRead

\* The end of a block changes nothing but which blocks have ended.
LEMMA OrderEnds ==
  ASSUME source \in Sources, NEW c \in 1 .. Len(source), InOrderBefore(c),
         source[c].is = "end", EndedInOrder(c + 1)
  PROVE  InOrderBefore(c + 1)
<1> DEFINE n == c + 1
<1>1. Follows(c, n) /\ ~Misfit(c) /\ InPlace(c) /\ c \notin ExtensionsAt
  BY DEF Follows, Misfit, InPlace, ExtensionsAt, All
<1> HIDE DEF n
<1>2. /\ OnePackage(c) /\ NamedApart("rpc", c) /\ NamedApart("oneof", c) /\ ExtendedApart(c)
  BY DEF InOrderBefore
<1>3. /\ source[c].is # "package" /\ source[c].is # "rpc" /\ source[c].is # "oneof"
      /\ "rpc" # "group" /\ "oneof" # "group"
  OBVIOUS
<1>4. OnePackage(n) /\ ExtendedApart(n)
  BY <1>1, <1>2, <1>3, OnePackageKept, ExtendedKept
<1>5. NamedApart("rpc", n) /\ NamedApart("oneof", n)
  BY <1>1, <1>2, <1>3, NamedKept
<1>6. EndedInOrder(n)
  BY DEF n
<1>7. InOrderBefore(n)
  BY <1>1, <1>4, <1>5, <1>6, OrderRead
<1> QED BY <1>7 DEF n

\* One more block has a full name of its own.
LEMMA FullyNamedMore ==
  ASSUME NEW S, FullyNamedApart(S), NEW p, \A m \in S : FullName(m) # FullName(p)
  PROVE  FullyNamedApart(S \cup {p})
<1> SUFFICES ASSUME NEW i \in S \cup {p}, NEW j \in S \cup {p}, FullName(i) = FullName(j)
             PROVE  i = j
  BY DEF FullyNamedApart
<1>1. CASE i \in S /\ j \in S
  BY <1>1 DEF FullyNamedApart
<1>2. CASE i \in S /\ j = p
  BY <1>2
<1>3. CASE i = p /\ j \in S
  BY <1>3
<1> QED BY <1>1, <1>2, <1>3

\* What ends is in one of the sets of those that have ended, by its sort.
LEMMA EndedOf ==
  ASSUME source \in Sources, NEW c \in 1 .. Len(source), source[c].is = "end",
         Owner(c) # 0, Level(Owner(c)) = Level(c - 1), Innermost(c, {"group"}) = 0
  PROVE  /\ source[Owner(c)].is = "message" => Ended("message", c + 1) = Ended("message", c) \cup {Owner(c)}
         /\ source[Owner(c)].is = "enum" => Ended("enum", c + 1) = Ended("enum", c) \cup {Owner(c)}
         /\ source[Owner(c)].is = "service" => Ended("service", c + 1) = Ended("service", c) \cup {Owner(c)}
         /\ source[Owner(c)].is # "message" => Ended("message", c + 1) = Ended("message", c)
         /\ source[Owner(c)].is # "enum" => Ended("enum", c + 1) = Ended("enum", c)
         /\ source[Owner(c)].is # "service" => Ended("service", c + 1) = Ended("service", c)
<1> DEFINE p == Owner(c)
<1>1. "message" \in Described3 /\ "enum" \in Described3 /\ "service" \in Described3
  BY DEF Described3
<1>2. /\ Ended("message", c + 1) = Ended("message", c) \cup ({p} \cap All("message"))
      /\ Ended("enum", c + 1) = Ended("enum", c) \cup ({p} \cap All("enum"))
      /\ Ended("service", c + 1) = Ended("service", c) \cup ({p} \cap All("service"))
  BY <1>1, EndedMore
<1>3. c \in 1 .. Len(source) + 1
  BY SourceIs
<1>4. p \in Around(c)
  BY <1>3, OwnerIs
<1>5. p \in All(source[p].is)
  BY <1>3, <1>4, OutsideGroups
<1> HIDE DEF p
<1>6. \A is : source[p].is # is => p \notin All(is)
  BY DEF All
<1>7. /\ source[p].is = "message" => p \in All("message")
      /\ source[p].is = "enum" => p \in All("enum")
      /\ source[p].is = "service" => p \in All("service")
  BY <1>5
<1>8. /\ source[p].is # "message" => p \notin All("message")
      /\ source[p].is # "enum" => p \notin All("enum")
      /\ source[p].is # "service" => p \notin All("service")
  BY <1>6
<1> QED BY <1>2, <1>7, <1>8 DEF p

\* The block that ends is not among those that have ended.
LEMMA NotEnded ==
  ASSUME NEW c, NEW is, NEW m \in Ended(is, c), NEW p \in Around(c)
  PROVE  m # p
BY DEF Ended

\* A message without clashes ends.
LEMMA MessageEnds ==
  ASSUME source \in Sources, NEW c \in 1 .. Len(source), source[c].is = "end",
         Owner(c) # 0, Level(Owner(c)) = Level(c - 1), Innermost(c, {"group"}) = 0,
         EndedInOrder(c), source[Owner(c)].is = "message",
         ~MessageClashes(Owner(c)), ReservedApart(Owner(c)),
         \A m \in TypesEnded(c) : FullName(m) # FullName(Owner(c))
  PROVE  EndedInOrder(c + 1)
<1>1. source[Owner(c)].is # "enum" /\ source[Owner(c)].is # "service"
  OBVIOUS
<1>2. /\ Ended("message", c + 1) = Ended("message", c) \cup {Owner(c)}
      /\ Ended("enum", c + 1) = Ended("enum", c) /\ Ended("service", c + 1) = Ended("service", c)
  BY <1>1, EndedOf
<1>3. TypesEnded(c + 1) = TypesEnded(c) \cup {Owner(c)}
  BY <1>2 DEF TypesEnded
<1>4. FullyNamedApart(TypesEnded(c) \cup {Owner(c)})
  BY FullyNamedMore DEF EndedInOrder
<1> QED BY <1>2, <1>3, <1>4 DEF EndedInOrder

\* An enum without clashes ends.
LEMMA EnumEnds ==
  ASSUME source \in Sources, NEW c \in 1 .. Len(source), source[c].is = "end",
         Owner(c) # 0, Level(Owner(c)) = Level(c - 1), Innermost(c, {"group"}) = 0,
         EndedInOrder(c), source[Owner(c)].is = "enum",
         ~EnumClashes(Owner(c)), ReservedApart(Owner(c)),
         \A m \in TypesEnded(c) : FullName(m) # FullName(Owner(c))
  PROVE  EndedInOrder(c + 1)
<1>1. source[Owner(c)].is # "message" /\ source[Owner(c)].is # "service"
  OBVIOUS
<1>2. /\ Ended("enum", c + 1) = Ended("enum", c) \cup {Owner(c)}
      /\ Ended("message", c + 1) = Ended("message", c) /\ Ended("service", c + 1) = Ended("service", c)
  BY <1>1, EndedOf
<1>3. TypesEnded(c + 1) = TypesEnded(c) \cup {Owner(c)}
  BY <1>2 DEF TypesEnded
<1>4. FullyNamedApart(TypesEnded(c) \cup {Owner(c)})
  BY FullyNamedMore DEF EndedInOrder
<1> QED BY <1>2, <1>3, <1>4 DEF EndedInOrder

\* A service with a name of its own ends.
LEMMA ServiceEnds ==
  ASSUME source \in Sources, NEW c \in 1 .. Len(source), source[c].is = "end",
         Owner(c) # 0, Level(Owner(c)) = Level(c - 1), Innermost(c, {"group"}) = 0,
         EndedInOrder(c), source[Owner(c)].is = "service",
         \A m \in Ended("service", c) : FullName(m) # FullName(Owner(c))
  PROVE  EndedInOrder(c + 1)
<1>1. source[Owner(c)].is # "message" /\ source[Owner(c)].is # "enum"
  OBVIOUS
<1>2. /\ Ended("service", c + 1) = Ended("service", c) \cup {Owner(c)}
      /\ Ended("message", c + 1) = Ended("message", c) /\ Ended("enum", c + 1) = Ended("enum", c)
  BY <1>1, EndedOf
<1>3. FullyNamedApart(Ended("service", c) \cup {Owner(c)})
  BY FullyNamedMore DEF EndedInOrder
<1> QED BY <1>2, <1>3 DEF EndedInOrder, TypesEnded

\* A block that leaves no descriptor ends.
LEMMA OtherEnds ==
  ASSUME source \in Sources, NEW c \in 1 .. Len(source), source[c].is = "end",
         Owner(c) # 0, Level(Owner(c)) = Level(c - 1), Innermost(c, {"group"}) = 0,
         EndedInOrder(c), source[Owner(c)].is \notin Described3
  PROVE  EndedInOrder(c + 1)
<1>1. source[Owner(c)].is # "message" /\ source[Owner(c)].is # "enum" /\ source[Owner(c)].is # "service"
  BY DEF Described3
<1>2. /\ Ended("service", c + 1) = Ended("service", c)
      /\ Ended("message", c + 1) = Ended("message", c) /\ Ended("enum", c + 1) = Ended("enum", c)
  BY <1>1, EndedOf
<1> QED BY <1>2 DEF EndedInOrder, TypesEnded

-----------------------------------------------------------------------------
(* The descriptors.                                                        *)

\* One descriptor more, under a name of its own.
LEMMA PutIs ==
  ASSUME NEW f, NEW x, NEW d
  PROVE  /\ DOMAIN Put(f, x, d) = DOMAIN f \cup {x} /\ Put(f, x, d)[x] = d
         /\ \A y \in DOMAIN f : y # x => Put(f, x, d)[y] = f[y]
BY DEF Put, Over

\* The descriptor of a message is added.
LEMMA MessagesMore ==
  ASSUME NEW f, NEW S, MessagesMade(f, S), NEW p, \A m \in S : FullName(m) # FullName(p),
         NEW d, MessageMade(d, p)
  PROVE  MessagesMade(Put(f, FullName(p), d), S \cup {p})
<1> DEFINE x == FullName(p)
           g == Put(f, x, d)
<1> HIDE DEF x
<1>1. /\ DOMAIN g = DOMAIN f \cup {x} /\ g[x] = d /\ \A y \in DOMAIN f : y # x => g[y] = f[y]
  BY DEF Put, Over
<1> HIDE DEF g
<1> USE DEF x
<1>2. DOMAIN f = {FullName(m) : m \in S} /\ \A m \in S : MessageMade(f[FullName(m)], m)
  BY DEF MessagesMade
<1>3. \A m \in S : g[FullName(m)] = f[FullName(m)]
  BY <1>1, <1>2
<1>4. \A m \in S \cup {p} : MessageMade(g[FullName(m)], m)
  BY <1>1, <1>2, <1>3
<1>5. DOMAIN g = {FullName(m) : m \in S \cup {p}}
  BY <1>1, <1>2
<1> QED BY <1>4, <1>5 DEF MessagesMade, g

\* The descriptor of an enum is added.
LEMMA EnumsMore ==
  ASSUME NEW f, NEW S, EnumsMade(f, S), NEW p, \A m \in S : FullName(m) # FullName(p),
         NEW d, EnumMade(d, p)
  PROVE  EnumsMade(Put(f, FullName(p), d), S \cup {p})
<1> DEFINE x == FullName(p)
           g == Put(f, x, d)
<1> HIDE DEF x
<1>1. /\ DOMAIN g = DOMAIN f \cup {x} /\ g[x] = d /\ \A y \in DOMAIN f : y # x => g[y] = f[y]
  BY DEF Put, Over
<1> HIDE DEF g
<1> USE DEF x
<1>2. DOMAIN f = {FullName(m) : m \in S} /\ \A m \in S : EnumMade(f[FullName(m)], m)
  BY DEF EnumsMade
<1>3. \A m \in S : g[FullName(m)] = f[FullName(m)]
  BY <1>1, <1>2
<1>4. \A m \in S \cup {p} : EnumMade(g[FullName(m)], m)
  BY <1>1, <1>2, <1>3
<1>5. DOMAIN g = {FullName(m) : m \in S \cup {p}}
  BY <1>1, <1>2
<1> QED BY <1>4, <1>5 DEF EnumsMade, g

\* The types that a service uses are added.
LEMMA ServicesMore ==
  ASSUME NEW f, NEW S, ServicesMade(f, S), NEW p, \A m \in S : FullName(m) # FullName(p),
         NEW d, d = KindsIn(p)
  PROVE  ServicesMade(Put(f, FullName(p), d), S \cup {p})
<1> DEFINE x == FullName(p)
           g == Put(f, x, d)
<1> HIDE DEF x
<1>1. /\ DOMAIN g = DOMAIN f \cup {x} /\ g[x] = d /\ \A y \in DOMAIN f : y # x => g[y] = f[y]
  BY DEF Put, Over
<1> HIDE DEF g
<1> USE DEF x
<1>2. DOMAIN f = {FullName(m) : m \in S} /\ \A m \in S : f[FullName(m)] = KindsIn(m)
  BY DEF ServicesMade
<1>3. \A m \in S : g[FullName(m)] = f[FullName(m)]
  BY <1>1, <1>2
<1>4. \A m \in S \cup {p} : g[FullName(m)] = KindsIn(m)
  BY <1>1, <1>2, <1>3
<1>5. DOMAIN g = {FullName(m) : m \in S \cup {p}}
  BY <1>1, <1>2
<1> QED BY <1>4, <1>5 DEF ServicesMade, g

\* The descriptor of a custom option is added.
LEMMA OptionsMore ==
  ASSUME NEW f, NEW S, OptionsMade(f, S), NEW p, \A m \in S : FullName(m) # FullName(p),
         NEW d,
         d.extendee = Extends(p).name, d.number = source[p].number
  PROVE  OptionsMade(Put(f, FullName(p), d), S \cup {p})
<1> DEFINE x == FullName(p)
           g == Put(f, x, d)
<1> HIDE DEF x
<1>1. /\ DOMAIN g = DOMAIN f \cup {x} /\ g[x] = d /\ \A y \in DOMAIN f : y # x => g[y] = f[y]
  BY DEF Put, Over
<1> HIDE DEF g
<1> USE DEF x
<1>2. /\ DOMAIN f = {FullName(m) : m \in S}
      /\ \A m \in S : f[FullName(m)].extendee = Extends(m).name /\ f[FullName(m)].number = source[m].number
  BY DEF OptionsMade
<1>3. \A m \in S : g[FullName(m)] = f[FullName(m)]
  BY <1>1, <1>2
<1>4. \A m \in S \cup {p} : g[FullName(m)].extendee = Extends(m).name /\ g[FullName(m)].number = source[m].number
  BY <1>1, <1>2, <1>3
<1>5. DOMAIN g = {FullName(m) : m \in S \cup {p}}
  BY <1>1, <1>2
<1> QED BY <1>4, <1>5 DEF OptionsMade, g

\* The descriptor of an extension is added.
LEMMA OthersMore ==
  ASSUME NEW f, NEW S, OthersMade(f, S), NEW p, \A m \in S : FullName(m) # FullName(p),
         NEW d,
         d.extendee.name = Extends(p).name, d.field.number = source[p].number
  PROVE  OthersMade(Put(f, FullName(p), d), S \cup {p})
<1> DEFINE x == FullName(p)
           g == Put(f, x, d)
<1> HIDE DEF x
<1>1. /\ DOMAIN g = DOMAIN f \cup {x} /\ g[x] = d /\ \A y \in DOMAIN f : y # x => g[y] = f[y]
  BY DEF Put, Over
<1> HIDE DEF g
<1> USE DEF x
<1>2. /\ DOMAIN f = {FullName(m) : m \in S}
      /\ \A m \in S : f[FullName(m)].extendee.name = Extends(m).name /\ f[FullName(m)].field.number = source[m].number
  BY DEF OthersMade
<1>3. \A m \in S : g[FullName(m)] = f[FullName(m)]
  BY <1>1, <1>2
<1>4. \A m \in S \cup {p} : g[FullName(m)].extendee.name = Extends(m).name /\ g[FullName(m)].field.number = source[m].number
  BY <1>1, <1>2, <1>3
<1>5. DOMAIN g = {FullName(m) : m \in S \cup {p}}
  BY <1>1, <1>2
<1> QED BY <1>4, <1>5 DEF OthersMade, g

\* Extensions are options or others.
LEMMA ExtensionSorts == OptionsAt \cup OthersAt = ExtensionsAt /\ ExtensionsAt \subseteq All("field")
BY DEF OptionsAt, OthersAt, ExtensionsAt

\* What ends no block, declares no extension and sets no option of the file adds no descriptor.
LEMMA MadeKept ==
  ASSUME source \in Sources, NEW c \in 1 .. Len(source), NEW n, Follows(c, n), NEW file, Made(file, c),
         source[c].is # "end", c \notin ExtensionsAt, ~(source[c].is = "option" /\ Owner(c) = 0)
  PROVE  Made(file, n)
<1>1. "message" \in Described3 /\ "enum" \in Described3 /\ "service" \in Described3
      /\ "option" # "group" /\ "field" # "group"
  BY DEF Described3
<1>2. /\ Ended("message", n) = Ended("message", c) /\ Ended("enum", n) = Ended("enum", c)
      /\ Ended("service", n) = Ended("service", c)
  BY <1>1, EndedKept
<1>3. Before(Inside("option", 0), n) = Before(Inside("option", 0), c)
  BY <1>1, InsideKept
<1>4. OptionsAt \subseteq All("field") /\ OthersAt \subseteq All("field") /\ c \notin OptionsAt /\ c \notin OthersAt
  BY ExtensionSorts
<1>5. /\ Before(OptionsAt, n) = Before(OptionsAt, c) \cup ({c} \cap OptionsAt)
      /\ Before(OthersAt, n) = Before(OthersAt, c) \cup ({c} \cap OthersAt)
  BY <1>1, <1>4, BeforeGrows
<1>6. Before(OptionsAt, n) = Before(OptionsAt, c) /\ Before(OthersAt, n) = Before(OthersAt, c)
  BY <1>4, <1>5
<1> QED BY <1>2, <1>3, <1>6 DEF Made

\* The end of a block declares no extension and sets no option.
LEMMA MadeEnds ==
  ASSUME source \in Sources, NEW c \in 1 .. Len(source), source[c].is = "end"
  PROVE  /\ Before(Inside("option", 0), c + 1) = Before(Inside("option", 0), c)
         /\ Before(OptionsAt, c + 1) = Before(OptionsAt, c)
         /\ Before(OthersAt, c + 1) = Before(OthersAt, c)
<1> DEFINE n == c + 1
<1>1. Follows(c, n) /\ "option" # "group" /\ "field" # "group"
      /\ ~(source[c].is = "option" /\ Owner(c) = 0)
  BY DEF Follows
<1> HIDE DEF n
<1>2. Before(Inside("option", 0), n) = Before(Inside("option", 0), c)
  BY <1>1, InsideKept
<1>3. OptionsAt \subseteq All("field") /\ OthersAt \subseteq All("field") /\ c \notin All("field")
  BY ExtensionSorts DEF All
<1>4. /\ Before(OptionsAt, n) = Before(OptionsAt, c) \cup ({c} \cap OptionsAt)
      /\ Before(OthersAt, n) = Before(OthersAt, c) \cup ({c} \cap OthersAt)
  BY <1>1, <1>3, BeforeGrows
<1> QED BY <1>2, <1>3, <1>4 DEF n

\* Other statements import nothing.
LEMMA ImportedKept ==
  ASSUME source \in Sources, NEW c \in 1 .. Len(source), NEW n, Follows(c, n), source[c].is # "import"
  PROVE  ImportedBefore(n) = ImportedBefore(c)
<1>1. "import" # "group" /\ c \notin All("import")
  BY DEF All
<1>2. Before(All("import"), n) = Before(All("import"), c) \cup ({c} \cap All("import"))
  BY <1>1, BeforeGrows
<1>3. Before(All("import"), n) = Before(All("import"), c)
  BY <1>1, <1>2
<1> QED BY <1>3 DEF ImportedBefore

\* An import is listed after those before it.
LEMMA ImportedMore ==
  ASSUME source \in Sources, NEW c \in 1 .. Len(source), source[c].is = "import",
         Innermost(c, {"group"}) = 0
  PROVE  ImportedBefore(c + 1) = Append(ImportedBefore(c), ImportAt(c))
<1> DEFINE n == c + 1
           S == Before(All("import"), c)
           t == Sorted(S)
           u == Sorted(Before(All("import"), n))
           f == ImportedBefore(c)
           g == ImportedBefore(n)
           N == Cardinality(S)
<1>1. "import" # "group" /\ Follows(c, n) /\ c \in All("import") /\ c \in Nat
  BY SourceIs DEF Follows, All
<1> HIDE DEF n
<1>2. Before(All("import"), n) = S \cup {c}
  <2>1. Before(All("import"), n) = Before(All("import"), c) \cup ({c} \cap All("import"))
    BY <1>1, BeforeGrows
  <2> QED BY <1>1, <2>1
<1>3. S \subseteq Nat /\ \A j \in S : j < c
  BY SourceIs DEF Before, All
<1>4. IsFiniteSet(S)
  <2>1. \A j \in S : j <= c
    BY <1>1, <1>3
  <2> QED BY <1>1, <1>3, <2>1, FS_BoundedSetOfNaturals
<1> HIDE DEF S
<1>5. /\ IsStack(t) /\ DOMAIN t = 1 .. N /\ N \in Nat
      /\ Sorted(S \cup {c}) = Append(t, c)
  BY <1>1, <1>3, <1>4, SortedMore
<1>6. u = Append(t, c)
  BY <1>2, <1>5
<1>7. /\ f = [k \in DOMAIN t |-> ImportAt(t[k])]
      /\ g = [k \in DOMAIN u |-> ImportAt(u[k])]
  BY DEF ImportedBefore, S
<1> HIDE DEF t, u, f, g, N
<1>8. Len(t) = N
  BY <1>5 DEF IsStack
<1>9. DOMAIN t = 1 .. N /\ Append(t, c) = [k \in 1 .. N + 1 |-> IF k = N + 1 THEN c ELSE t[k]]
  BY <1>5, <1>8, AppendIs
<1>10. DOMAIN f = 1 .. N /\ f = [k \in 1 .. N |-> f[k]]
  BY <1>7, <1>9
<1>11. IsStack(f) /\ Len(f) = N
  BY <1>5, <1>10, SequenceOf
<1>12. Append(f, ImportAt(c)) = [k \in 1 .. N + 1 |-> IF k = N + 1 THEN ImportAt(c) ELSE f[k]]
  BY <1>11, AppendIs
<1>13. DOMAIN u = 1 .. N + 1
  BY <1>6, <1>9
<1>14. ASSUME NEW k \in 1 .. N + 1
       PROVE  ImportAt(u[k]) = IF k = N + 1 THEN ImportAt(c) ELSE f[k]
  <2>1. u[k] = IF k = N + 1 THEN c ELSE t[k]
    BY <1>6, <1>9
  <2>2. CASE k = N + 1
    BY <2>1, <2>2
  <2>3. CASE k # N + 1
    <3>1. k \in DOMAIN t
      BY <1>5, <1>9, <2>3
    <3> QED BY <1>7, <2>1, <2>3, <3>1
  <2> QED BY <2>2, <2>3
<1>15. g = [k \in 1 .. N + 1 |-> IF k = N + 1 THEN ImportAt(c) ELSE f[k]]
  BY <1>7, <1>13, <1>14
<1>16. g = Append(f, ImportAt(c))
  BY <1>12, <1>15
<1> QED BY <1>16 DEF f, g, n

-----------------------------------------------------------------------------
(* A block that is complete.                                               *)

\* What a block is when all that is in it has been read.
MessageDone(b, m) ==
  /\ Lists(b.fields, FieldsIn(m), Descriptions)
  /\ b.oneofs = {source[o].name : o \in Inside("oneof", m)}
  /\ Joins(b.names, Inside("reserved", m), NamesAt)
  /\ Joins(b.ranges, Inside("reserved", m), RangesAt)
  /\ b.extension_ranges = UNION {ExtensionRangesAt(j) : j \in Inside("extensions", m)}
  /\ LastSet(b.options, Inside("option", m))

EnumDone(b, e) ==
  /\ Lists(b.values, Inside("value", e), ValuesAt)
  /\ AliasSaid(b.allow_alias, Inside("allow_alias", e))
  /\ Joins(b.names, Inside("reserved", e), NamesAt)
  /\ Joins(b.ranges, Inside("reserved", e), RangesAt)
  /\ LastSet(b.options, Inside("option", e))

\* The block that an end closes is complete.
LEMMA BlockDone ==
  ASSUME source \in Sources, NEW c \in 1 .. Len(source), source[c].is = "end",
         Owner(c) # 0, Level(Owner(c)) = Level(c - 1), NEW b, BlockTracked(b, Owner(c), c)
  PROVE  /\ b.kind = source[Owner(c)].is
         /\ b.kind \in {"message", "enum", "service"} => b.name = FullName(Owner(c))
         /\ b.kind = "message" => MessageDone(b, Owner(c))
         /\ b.kind = "enum" => EnumDone(b, Owner(c))
         /\ b.kind = "service" => Lists(b.methods, Inside("rpc", Owner(c)), source)
         /\ b.kind = "oneof" => b.name = source[Owner(c)].name
<1> DEFINE m == Owner(c)
           n == c + 1
<1>1. c \in 1 .. Len(source) + 1 /\ n \in 1 .. Len(source) + 1 /\ c \in Nat
  BY SourceIs
<1>2. m \in Around(c) /\ m \in Nat \ {0} /\ m < c
  BY <1>1, OwnerIs, AroundHas
<1>3. Around(n) = Around(c) \ {m}
  BY AroundClosed
<1>4. m < n /\ m \notin Around(n)
  BY <1>1, <1>2, <1>3
<1>5. m \notin Inside("oneof", m)
  <2>1. SUFFICES ASSUME Owner(m) = m PROVE FALSE
    BY DEF Inside
  <2>2. m \in 1 .. Len(source) + 1
    BY <1>1, <1>2
  <2>3. m \in Around(m)
    BY <1>2, <2>1, <2>2, OwnerIs
  <2>4. m < m
    BY <2>2, <2>3, AroundHas
  <2> QED BY <1>2, <2>4
<1>6. SameContents(m, c, n)
  BY <1>5, ContentsClosed
<1>7. BlockTracked(b, m, n)
  BY <1>6, BlockKept
<1>8. Before(FieldsIn(m), n) = FieldsIn(m) /\ \A is : Before(Inside(is, m), n) = Inside(is, m)
  BY <1>1, <1>2, <1>4, WholeBlock
<1>9. Before(Inside("oneof", m), n) \ Around(n) = Inside("oneof", m)
  <2>1. ASSUME NEW o \in Inside("oneof", m), o \in Around(n) PROVE FALSE
    <3>1. o \in 1 .. Len(source) + 1 /\ Owner(o) = m
      BY SourceIs DEF Inside, All
    <3>2. m \in Around(o)
      BY <1>2, <3>1, OwnerIs
    <3>3. m \in Around(n)
      BY <1>1, <2>1, <3>2, AroundOuter
    <3> QED BY <1>4, <3>3
  <2> QED BY <1>8, <2>1
<1> HIDE DEF m, n
<1>10. MessageTracked(b, m, n) => MessageDone(b, m)
  BY <1>8, <1>9 DEF MessageTracked, MessageDone
<1>11. EnumTracked(b, m, n) => EnumDone(b, m)
  BY <1>8 DEF EnumTracked, EnumDone
<1> QED BY <1>7, <1>8, <1>10, <1>11 DEF BlockTracked, m

\* An element of s is that of a place x in what G gives for a position r.
FromParts(s, S, G, r, x) ==
  /\ \A a \in DOMAIN s : /\ r[a] \in S /\ x[a] \in Nat /\ x[a] \in DOMAIN G[r[a]]
                         /\ s[a] = G[r[a]][x[a]]
  /\ \A j \in S, y \in Nat : y \in DOMAIN G[j] => \E a \in DOMAIN s : r[a] = j /\ x[a] = y
  /\ \A a, c \in DOMAIN s : r[a] = r[c] /\ x[a] = x[c] => a = c

\* What is joined, by the positions and the places it comes from.
LEMMA JoinsEach ==
  ASSUME NEW s, NEW S, NEW G, Joins(s, S, G)
  PROVE  \E r, x : FromParts(s, S, G, r, x)
<1>1. PICK q \in [DOMAIN s -> PartsAt(S, G)] :
        /\ \A a, b \in DOMAIN s : q[a] = q[b] => a = b
        /\ \A p \in PartsAt(S, G) : \E a \in DOMAIN s : q[a] = p
        /\ \A a \in DOMAIN s : s[a] = G[q[a][1]][q[a][2]]
  BY DEF Joins
<1> DEFINE D == DOMAIN s
           P == PartsAt(S, G)
           r == [a \in D |-> q[a][1]]
           x == [a \in D |-> q[a][2]]
<1>2. \A a \in D : q[a] \in P
  OBVIOUS
<1>3. \A p \in P : p \in S \X Nat /\ p[1] \in S /\ p[2] \in Nat /\ p[2] \in DOMAIN G[p[1]] /\ p = <<p[1], p[2]>>
  BY DEF PartsAt
<1>4. \A j \in S, y \in Nat : y \in DOMAIN G[j] => <<j, y>> \in P
  <2> SUFFICES ASSUME NEW j \in S, NEW y \in Nat, y \in DOMAIN G[j] PROVE <<j, y>> \in P
    OBVIOUS
  <2>1. <<j, y>> \in S \X Nat /\ <<j, y>>[1] = j /\ <<j, y>>[2] = y
    OBVIOUS
  <2> QED BY <2>1 DEF PartsAt
<1> HIDE DEF P
<1>5. \A a \in D : r[a] = q[a][1] /\ x[a] = q[a][2]
  OBVIOUS
<1> HIDE DEF r, x
<1>7. \A a \in D : /\ r[a] \in S /\ x[a] \in Nat /\ x[a] \in DOMAIN G[r[a]]
                   /\ s[a] = G[r[a]][x[a]]
  BY <1>1, <1>2, <1>3, <1>5
<1>8. ASSUME NEW j \in S, NEW y \in Nat, y \in DOMAIN G[j] PROVE \E a \in D : r[a] = j /\ x[a] = y
  <2>1. <<j, y>> \in P
    BY <1>4, <1>8
  <2>2. PICK a \in D : q[a] = <<j, y>>
    BY <1>1, <2>1 DEF P
  <2> QED BY <1>5, <2>2
<1>9. ASSUME NEW a \in D, NEW b \in D, r[a] = r[b], x[a] = x[b] PROVE a = b
  <2>1. q[a] = <<r[a], x[a]>> /\ q[b] = <<r[b], x[b]>>
    BY <1>2, <1>3, <1>5
  <2>2. q[a] = q[b]
    BY <1>9, <2>1
  <2> QED BY <1>1, <2>2
<1>10. FromParts(s, S, G, r, x)
  BY <1>7, <1>8, <1>9 DEF FromParts
<1> QED BY <1>10

-----------------------------------------------------------------------------
(* The rules about one block, and what they say of the source.             *)

\* A reserved statement is a sequence of names and one of ranges of integers.
LEMMA ReservedIs ==
  ASSUME source \in Sources, NEW m, NEW r \in Inside("reserved", m)
  PROVE  /\ r \in DOMAIN source /\ NamesAt[r] = source[r].names /\ RangesAt[r] = source[r].ranges
         /\ source[r].names \in Seq(STRING) /\ source[r].ranges \in Seq(Int \X Int)
         /\ IsStack(NamesAt[r]) /\ IsStack(RangesAt[r])
         /\ Owner(r) = m /\ source[r].is = "reserved" /\ Innermost(r, {"group"}) = 0
<1>1. /\ r \in DOMAIN source /\ source[r].is = "reserved" /\ Owner(r) = m
      /\ Innermost(r, {"group"}) = 0
  BY DEF Inside, All
<1>2. Grammatical(source[r])
  BY <1>1, BuilderAssumption
<1>3. source[r].names \in Seq(STRING) /\ source[r].ranges \in Seq(Int \X Int)
  BY <1>1, <1>2 DEF Grammatical
<1>4. NamesAt[r] = source[r].names /\ RangesAt[r] = source[r].ranges
  BY <1>1 DEF NamesAt, RangesAt
<1> QED BY <1>1, <1>3, <1>4 DEF IsStack

\* The indices of a sequence are natural numbers.
LEMMA Indices ==
  ASSUME NEW s, IsStack(s), NEW i \in DOMAIN s
  PROVE  i \in Nat
<1>1. PICK S : s \in Seq(S)
  BY DEF IsStack
<1>2. DOMAIN s = 1 .. Len(s) /\ Len(s) \in Nat
  BY <1>1
<1> QED BY <1>2

\* A block reserves what its reserved statements do.
LEMMA ReservesIs ==
  ASSUME source \in Sources, NEW m, NEW b, Joins(b.names, Inside("reserved", m), NamesAt),
         Joins(b.ranges, Inside("reserved", m), RangesAt), NEW name, NEW number
  PROVE  Reserves(b, name, number)
           <=> \E r \in Inside("reserved", m) : Reserves(source[r], name, number)
<1> DEFINE R == Inside("reserved", m)
<1>1. \A r \in R : /\ NamesAt[r] = source[r].names /\ RangesAt[r] = source[r].ranges
                   /\ IsStack(source[r].names) /\ IsStack(source[r].ranges)
  <2> SUFFICES ASSUME NEW r \in R
               PROVE  /\ NamesAt[r] = source[r].names /\ RangesAt[r] = source[r].ranges
                      /\ IsStack(source[r].names) /\ IsStack(source[r].ranges)
    OBVIOUS
  <2> QED BY ReservedIs
<1>0. Joins(b.names, R, NamesAt) /\ Joins(b.ranges, R, RangesAt)
  OBVIOUS
<1> HIDE DEF R
<1>8. PICK r1, x1 : FromParts(b.names, R, NamesAt, r1, x1)
  BY <1>0, JoinsEach
<1>2. /\ \A a \in DOMAIN b.names : /\ r1[a] \in R /\ x1[a] \in Nat /\ x1[a] \in DOMAIN NamesAt[r1[a]]
                                   /\ b.names[a] = NamesAt[r1[a]][x1[a]]
      /\ \A j \in R, y \in Nat : y \in DOMAIN NamesAt[j]
           => \E a \in DOMAIN b.names : r1[a] = j /\ x1[a] = y
  BY <1>8 DEF FromParts
<1>9. PICK r2, x2 : FromParts(b.ranges, R, RangesAt, r2, x2)
  BY <1>0, JoinsEach
<1>3. /\ \A a \in DOMAIN b.ranges : /\ r2[a] \in R /\ x2[a] \in Nat /\ x2[a] \in DOMAIN RangesAt[r2[a]]
                                    /\ b.ranges[a] = RangesAt[r2[a]][x2[a]]
      /\ \A j \in R, y \in Nat : y \in DOMAIN RangesAt[j]
           => \E a \in DOMAIN b.ranges : r2[a] = j /\ x2[a] = y
  BY <1>9 DEF FromParts
<1>4. ASSUME Reserves(b, name, number) PROVE \E r \in R : Reserves(source[r], name, number)
  <2>1. CASE \E i \in DOMAIN b.names : b.names[i] = name
    <3>1. PICK i \in DOMAIN b.names : b.names[i] = name
      BY <2>1
    <3>2. r1[i] \in R /\ x1[i] \in DOMAIN source[r1[i]].names /\ source[r1[i]].names[x1[i]] = name
      BY <1>1, <1>2, <3>1
    <3> QED BY <3>2 DEF Reserves
  <2>2. CASE \E i \in DOMAIN b.ranges : number \in b.ranges[i][1] .. b.ranges[i][2]
    <3>1. PICK i \in DOMAIN b.ranges : number \in b.ranges[i][1] .. b.ranges[i][2]
      BY <2>2
    <3>2. /\ r2[i] \in R /\ x2[i] \in DOMAIN source[r2[i]].ranges
          /\ number \in source[r2[i]].ranges[x2[i]][1] .. source[r2[i]].ranges[x2[i]][2]
      BY <1>1, <1>3, <3>1
    <3> QED BY <3>2 DEF Reserves
  <2> QED BY <1>4, <2>1, <2>2 DEF Reserves
<1>5. ASSUME NEW r \in R, Reserves(source[r], name, number) PROVE Reserves(b, name, number)
  <2>1. IsStack(source[r].names) /\ IsStack(source[r].ranges)
    BY <1>1
  <2>2. CASE \E i \in DOMAIN source[r].names : source[r].names[i] = name
    <3>1. PICK i \in DOMAIN source[r].names : source[r].names[i] = name
      BY <2>2
    <3>2. i \in Nat /\ i \in DOMAIN NamesAt[r]
      BY <1>1, <2>1, Indices
    <3>3. PICK a \in DOMAIN b.names : r1[a] = r /\ x1[a] = i
      BY <1>2, <3>2
    <3>4. b.names[a] = name
      BY <1>1, <1>2, <3>1, <3>3
    <3> QED BY <3>4 DEF Reserves
  <2>3. CASE \E i \in DOMAIN source[r].ranges :
               number \in source[r].ranges[i][1] .. source[r].ranges[i][2]
    <3>1. PICK i \in DOMAIN source[r].ranges :
            number \in source[r].ranges[i][1] .. source[r].ranges[i][2]
      BY <2>3
    <3>2. i \in Nat /\ i \in DOMAIN RangesAt[r]
      BY <1>1, <2>1, Indices
    <3>3. PICK a \in DOMAIN b.ranges : r2[a] = r /\ x2[a] = i
      BY <1>3, <3>2
    <3>4. b.ranges[a] = source[r].ranges[i]
      BY <1>1, <1>3, <3>3
    <3> QED BY <3>1, <3>4 DEF Reserves
  <2> QED BY <1>5, <2>2, <2>3 DEF Reserves
<1> QED BY <1>4, <1>5 DEF R

\* Two ranges of integers that are not empty meet.
LEMMA RangesMeet ==
  ASSUME NEW a \in Int, NEW b \in Int, NEW c \in Int, NEW d \in Int, a <= b, c <= d
  PROVE  a .. b \cap c .. d # {} <=> a <= d /\ c <= b
<1>1. ASSUME a <= d, c <= b PROVE a .. b \cap c .. d # {}
  <2>1. CASE a <= c
    <3>1. c \in a .. b \cap c .. d
      BY <1>1, <2>1
    <3> QED BY <3>1
  <2>2. CASE ~(a <= c)
    <3>1. a \in a .. b \cap c .. d
      BY <1>1, <2>2
    <3> QED BY <3>1
  <2> QED BY <2>1, <2>2
<1>2. ASSUME a .. b \cap c .. d # {} PROVE a <= d /\ c <= b
  <2>1. PICK x : x \in a .. b /\ x \in c .. d
    BY <1>2
  <2> QED BY <2>1
<1> QED BY <1>1, <1>2

\* No range of the reserved statements of a block is empty.
NoneEmpty(m) ==
  \A r \in Inside("reserved", m) : \A i \in DOMAIN source[r].ranges :
    source[r].ranges[i][1] <= source[r].ranges[i][2]

\* A block reserves something twice when its reserved statements do.
LEMMA TwiceIs ==
  ASSUME source \in Sources, NEW m, NEW b, Joins(b.names, Inside("reserved", m), NamesAt),
         Joins(b.ranges, Inside("reserved", m), RangesAt), NoneEmpty(m)
  PROVE  ReservedTwice(b) <=> ~ReservedApart(m)
<1> DEFINE R == Inside("reserved", m)
<1>1. \A r \in R : /\ NamesAt[r] = source[r].names /\ RangesAt[r] = source[r].ranges
                   /\ IsStack(source[r].names) /\ IsStack(source[r].ranges)
  <2> SUFFICES ASSUME NEW r \in R
               PROVE  /\ NamesAt[r] = source[r].names /\ RangesAt[r] = source[r].ranges
                      /\ IsStack(source[r].names) /\ IsStack(source[r].ranges)
    OBVIOUS
  <2> QED BY ReservedIs
<1>0. Joins(b.names, R, NamesAt) /\ Joins(b.ranges, R, RangesAt)
  OBVIOUS
<1> HIDE DEF R
<1>8. PICK r1, x1 : FromParts(b.names, R, NamesAt, r1, x1)
  BY <1>0, JoinsEach
<1>2. /\ \A a \in DOMAIN b.names : /\ r1[a] \in R /\ x1[a] \in Nat /\ x1[a] \in DOMAIN NamesAt[r1[a]]
                                   /\ b.names[a] = NamesAt[r1[a]][x1[a]]
      /\ \A j \in R, y \in Nat : y \in DOMAIN NamesAt[j]
           => \E a \in DOMAIN b.names : r1[a] = j /\ x1[a] = y
      /\ \A a, c \in DOMAIN b.names : r1[a] = r1[c] /\ x1[a] = x1[c] => a = c
  BY <1>8 DEF FromParts
<1>9. PICK r2, x2 : FromParts(b.ranges, R, RangesAt, r2, x2)
  BY <1>0, JoinsEach
<1>3. /\ \A a \in DOMAIN b.ranges : /\ r2[a] \in R /\ x2[a] \in Nat /\ x2[a] \in DOMAIN RangesAt[r2[a]]
                                    /\ b.ranges[a] = RangesAt[r2[a]][x2[a]]
      /\ \A j \in R, y \in Nat : y \in DOMAIN RangesAt[j]
           => \E a \in DOMAIN b.ranges : r2[a] = j /\ x2[a] = y
      /\ \A a, c \in DOMAIN b.ranges : r2[a] = r2[c] /\ x2[a] = x2[c] => a = c
  BY <1>9 DEF FromParts
<1> USE DEF R
<1>4. ASSUME NEW i \in R, NEW x \in DOMAIN source[i].ranges
      PROVE  /\ source[i].ranges[x][1] \in Int /\ source[i].ranges[x][2] \in Int
             /\ source[i].ranges[x][1] <= source[i].ranges[x][2]
             /\ x \in Nat
  <2>1. source[i].ranges \in Seq(Int \X Int)
    BY ReservedIs
  <2> DEFINE s == source[i].ranges
  <2>2. s[x] \in Int \X Int
    <3> HIDE DEF s
    <3> QED BY <2>1 DEF s
  <2>3. x \in Nat
    BY <1>1, Indices
  <2> QED BY <2>2, <2>3 DEF NoneEmpty
<1> HIDE DEF R
<1>5. ASSUME NEW i \in R, NEW j \in R, NEW x \in DOMAIN source[i].ranges, NEW y \in DOMAIN source[j].ranges
      PROVE  source[i].ranges[x][1] .. source[i].ranges[x][2]
               \cap source[j].ranges[y][1] .. source[j].ranges[y][2] # {}
               <=> source[i].ranges[x][1] <= source[j].ranges[y][2]
                   /\ source[j].ranges[y][1] <= source[i].ranges[x][2]
  BY <1>4, RangesMeet
<1>6. ASSUME ReservedTwice(b) PROVE \E i, j \in R : Overlap(i, j)
  <2>1. CASE \E a, c \in DOMAIN b.names : a # c /\ b.names[a] = b.names[c]
    <3>1. PICK a \in DOMAIN b.names, c \in DOMAIN b.names : a # c /\ b.names[a] = b.names[c]
      BY <2>1
    <3>2. /\ r1[a] \in R /\ x1[a] \in DOMAIN source[r1[a]].names
          /\ r1[c] \in R /\ x1[c] \in DOMAIN source[r1[c]].names
          /\ source[r1[a]].names[x1[a]] = source[r1[c]].names[x1[c]]
      BY <1>1, <1>2, <3>1
    <3>3. r1[a] # r1[c] \/ x1[a] # x1[c]
      BY <1>2, <3>1
    <3>4. Overlap(r1[a], r1[c])
      BY <3>2, <3>3 DEF Overlap
    <3> QED BY <3>2, <3>4
  <2>2. CASE \E a, c \in DOMAIN b.ranges :
               a # c /\ b.ranges[a][1] <= b.ranges[c][2] /\ b.ranges[c][1] <= b.ranges[a][2]
    <3>1. PICK a \in DOMAIN b.ranges, c \in DOMAIN b.ranges :
            a # c /\ b.ranges[a][1] <= b.ranges[c][2] /\ b.ranges[c][1] <= b.ranges[a][2]
      BY <2>2
    <3>2. /\ r2[a] \in R /\ x2[a] \in DOMAIN source[r2[a]].ranges
          /\ r2[c] \in R /\ x2[c] \in DOMAIN source[r2[c]].ranges
          /\ source[r2[a]].ranges[x2[a]][1] <= source[r2[c]].ranges[x2[c]][2]
          /\ source[r2[c]].ranges[x2[c]][1] <= source[r2[a]].ranges[x2[a]][2]
      BY <1>1, <1>3, <3>1
    <3>3. r2[a] # r2[c] \/ x2[a] # x2[c]
      BY <1>3, <3>1
    <3>4. source[r2[a]].ranges[x2[a]][1] .. source[r2[a]].ranges[x2[a]][2]
            \cap source[r2[c]].ranges[x2[c]][1] .. source[r2[c]].ranges[x2[c]][2] # {}
      BY <1>5, <3>2
    <3>5. Overlap(r2[a], r2[c])
      BY <3>2, <3>3, <3>4 DEF Overlap
    <3> QED BY <3>2, <3>5
  <2> QED BY <1>6, <2>1, <2>2 DEF ReservedTwice
<1>7. ASSUME NEW i \in R, NEW j \in R, Overlap(i, j) PROVE ReservedTwice(b)
  <2>1. /\ IsStack(source[i].names) /\ IsStack(source[j].names)
        /\ IsStack(source[i].ranges) /\ IsStack(source[j].ranges)
    BY <1>1
  <2>2. CASE \E x \in DOMAIN source[i].names, y \in DOMAIN source[j].names :
               (i # j \/ x # y) /\ source[i].names[x] = source[j].names[y]
    <3>1. PICK x \in DOMAIN source[i].names, y \in DOMAIN source[j].names :
            (i # j \/ x # y) /\ source[i].names[x] = source[j].names[y]
      BY <2>2
    <3>2. x \in Nat /\ x \in DOMAIN NamesAt[i] /\ y \in Nat /\ y \in DOMAIN NamesAt[j]
      BY <1>1, <2>1, Indices
    <3>3. PICK a \in DOMAIN b.names : r1[a] = i /\ x1[a] = x
      BY <1>2, <3>2
    <3>4. PICK c \in DOMAIN b.names : r1[c] = j /\ x1[c] = y
      BY <1>2, <3>2
    <3>5. a # c /\ b.names[a] = b.names[c]
      BY <1>1, <1>2, <3>1, <3>3, <3>4
    <3> QED BY <3>5 DEF ReservedTwice
  <2>3. CASE \E x \in DOMAIN source[i].ranges, y \in DOMAIN source[j].ranges :
               /\ i # j \/ x # y
               /\ source[i].ranges[x][1] .. source[i].ranges[x][2]
                    \cap source[j].ranges[y][1] .. source[j].ranges[y][2] # {}
    <3>1. PICK x \in DOMAIN source[i].ranges, y \in DOMAIN source[j].ranges :
            /\ i # j \/ x # y
            /\ source[i].ranges[x][1] .. source[i].ranges[x][2]
                 \cap source[j].ranges[y][1] .. source[j].ranges[y][2] # {}
      BY <2>3
    <3>2. x \in Nat /\ x \in DOMAIN RangesAt[i] /\ y \in Nat /\ y \in DOMAIN RangesAt[j]
      BY <1>1, <2>1, Indices
    <3>3. PICK a \in DOMAIN b.ranges : r2[a] = i /\ x2[a] = x
      BY <1>3, <3>2
    <3>4. PICK c \in DOMAIN b.ranges : r2[c] = j /\ x2[c] = y
      BY <1>3, <3>2
    <3>5. a # c
      BY <3>1, <3>3, <3>4
    <3>6. b.ranges[a] = source[i].ranges[x] /\ b.ranges[c] = source[j].ranges[y]
      BY <1>1, <1>3, <3>3, <3>4
    <3>7. /\ source[i].ranges[x][1] <= source[j].ranges[y][2]
          /\ source[j].ranges[y][1] <= source[i].ranges[x][2]
      BY <1>5, <3>1
    <3> QED BY <3>5, <3>6, <3>7 DEF ReservedTwice
  <2> QED BY <1>7, <2>2, <2>3 DEF Overlap
<1> QED BY <1>6, <1>7 DEF ReservedApart, R

\* What the builder describes of a field.
LEMMA DescriptionIs ==
  ASSUME NEW j \in DOMAIN source
  PROVE  /\ Descriptions[j].name = source[j].name /\ Descriptions[j].json = JsonName(source[j])
         /\ Descriptions[j].field.number = source[j].number
         /\ Descriptions[j].field.kind = source[j].kind
         /\ Descriptions[j].field.oneof = OneofAround(j)
<1>1. Descriptions[j] = Described(source[j], LabelOf(j), OneofAround(j))
  BY DEF Descriptions
<1> QED BY <1>1 DEF Described, FieldOf

\* The fields of a block are those of its message, q[a] being where the a-th is declared.
FieldsFrom(f, m, q) ==
  /\ \A a \in DOMAIN f : /\ q[a] \in FieldsIn(m)
                         /\ f[a].name = source[q[a]].name /\ f[a].json = JsonName(source[q[a]])
                         /\ f[a].field.number = source[q[a]].number
                         /\ f[a].field.kind = source[q[a]].kind
                         /\ f[a].field.oneof = OneofAround(q[a])
  /\ \A j \in FieldsIn(m) : \E a \in DOMAIN f : q[a] = j
  /\ \A a, b \in DOMAIN f : a # b => q[a] # q[b]

\* There are such positions.
LEMMA FieldsAre ==
  ASSUME source \in Sources, NEW m, NEW f, Lists(f, FieldsIn(m), Descriptions)
  PROVE  \E q : FieldsFrom(f, m, q)
<1>1. FieldsIn(m) \subseteq Nat /\ FieldsIn(m) \subseteq DOMAIN source
  BY SourceIs DEF FieldsIn, All
<1>2. PICK q : FromPositions(f, FieldsIn(m), Descriptions, q)
  BY <1>1, ListsEach
<1>3. /\ \A a \in DOMAIN f : q[a] \in FieldsIn(m) /\ f[a] = Descriptions[q[a]]
      /\ \A j \in FieldsIn(m) : \E a \in DOMAIN f : q[a] = j
      /\ \A a, b \in DOMAIN f : a # b => q[a] # q[b]
  BY <1>2 DEF FromPositions
<1>4. ASSUME NEW a \in DOMAIN f
      PROVE  /\ f[a].name = source[q[a]].name /\ f[a].json = JsonName(source[q[a]])
             /\ f[a].field.number = source[q[a]].number
             /\ f[a].field.kind = source[q[a]].kind
             /\ f[a].field.oneof = OneofAround(q[a])
  <2>1. q[a] \in DOMAIN source /\ f[a] = Descriptions[q[a]]
    BY <1>1, <1>3
  <2> QED BY <2>1, DescriptionIs
<1>5. FieldsFrom(f, m, q)
  BY <1>3, <1>4 DEF FieldsFrom
<1> QED BY <1>5

\* A message is refused because two of its statements clash.
LEMMA ClashIsReal ==
  ASSUME source \in Sources, NEW m, NEW b, MessageDone(b, m), FieldsClash(b)
  PROVE  MessageClashes(m)
<1> DEFINE f == b.fields
           F == FieldsIn(m)
<1>1. /\ Lists(f, F, Descriptions) /\ b.oneofs = {source[o].name : o \in Inside("oneof", m)}
      /\ Joins(b.names, Inside("reserved", m), NamesAt) /\ Joins(b.ranges, Inside("reserved", m), RangesAt)
  BY DEF MessageDone
<1>2. PICK q : FieldsFrom(f, m, q)
  BY <1>1, FieldsAre
<1>3. /\ \A a \in DOMAIN f : /\ q[a] \in F
                             /\ f[a].name = source[q[a]].name /\ f[a].json = JsonName(source[q[a]])
                             /\ f[a].field.number = source[q[a]].number
      /\ \A a, c \in DOMAIN f : a # c => q[a] # q[c]
  BY <1>2 DEF FieldsFrom
<1>4. \/ \E i, j \in DOMAIN f :
           /\ i # j
           /\ \/ f[i].name = f[j].name
              \/ f[i].field.number = f[j].field.number
              \/ Modern(FileSyntax) /\ f[i].json = f[j].json
      \/ \E i \in DOMAIN f :
           f[i].name \in b.oneofs \/ Reserves(b, f[i].name, f[i].field.number)
  BY DEF FieldsClash
<1> HIDE DEF f, F
<1>5. CASE \E i, j \in DOMAIN f :
             /\ i # j
             /\ \/ f[i].name = f[j].name
                \/ f[i].field.number = f[j].field.number
                \/ Modern(FileSyntax) /\ f[i].json = f[j].json
  <2>1. PICK i \in DOMAIN f, j \in DOMAIN f :
             /\ i # j
             /\ \/ f[i].name = f[j].name
                \/ f[i].field.number = f[j].field.number
                \/ Modern(FileSyntax) /\ f[i].json = f[j].json
    BY <1>5
  <2>2. /\ q[i] \in F /\ q[j] \in F /\ q[i] # q[j]
        /\ \/ source[q[i]].name = source[q[j]].name
           \/ source[q[i]].number = source[q[j]].number
           \/ Modern(FileSyntax) /\ JsonName(source[q[i]]) = JsonName(source[q[j]])
    BY <1>3, <2>1
  <2> QED BY <2>2 DEF MessageClashes, F
<1>6. CASE \E i \in DOMAIN f : f[i].name \in b.oneofs
  <2>1. PICK i \in DOMAIN f : f[i].name \in b.oneofs
    BY <1>6
  <2>2. PICK o \in Inside("oneof", m) : source[o].name = f[i].name
    BY <1>1, <2>1
  <2>3. q[i] \in F /\ source[o].name = source[q[i]].name
    BY <1>3, <2>2
  <2> QED BY <2>3 DEF MessageClashes, F
<1>7. CASE \E i \in DOMAIN f : Reserves(b, f[i].name, f[i].field.number)
  <2>1. PICK i \in DOMAIN f : Reserves(b, f[i].name, f[i].field.number)
    BY <1>7
  <2>2. q[i] \in F /\ Reserves(b, source[q[i]].name, source[q[i]].number)
    BY <1>3, <2>1
  <2>3. PICK r \in Inside("reserved", m) : Reserves(source[r], source[q[i]].name, source[q[i]].number)
    BY <1>1, <2>2, ReservesIs
  <2>4. Forbids(r, q[i])
    BY <2>3 DEF Forbids
  <2> QED BY <2>2, <2>4 DEF MessageClashes, F
<1> QED BY <1>4, <1>5, <1>6, <1>7

\* The oneofs of a message have names of their own.
OneofsApart(m) == \A i, j \in Inside("oneof", m) : source[i].name = source[j].name => i = j

\* A clash in a message makes the builder refuse it.
LEMMA ClashIsFound ==
  ASSUME source \in Sources, NEW m, NEW b, MessageDone(b, m), OneofsApart(m), MessageClashes(m)
  PROVE  FieldsClash(b)
<1> DEFINE f == b.fields
           F == FieldsIn(m)
<1>1. /\ Lists(f, F, Descriptions) /\ b.oneofs = {source[o].name : o \in Inside("oneof", m)}
      /\ Joins(b.names, Inside("reserved", m), NamesAt) /\ Joins(b.ranges, Inside("reserved", m), RangesAt)
  BY DEF MessageDone
<1>2. PICK q : FieldsFrom(f, m, q)
  BY <1>1, FieldsAre
<1>3. /\ \A a \in DOMAIN f : /\ q[a] \in F
                             /\ f[a].name = source[q[a]].name /\ f[a].json = JsonName(source[q[a]])
                             /\ f[a].field.number = source[q[a]].number
      /\ \A j \in F : \E a \in DOMAIN f : q[a] = j
  BY <1>2 DEF FieldsFrom
<1>4. \/ \E i, j \in F :
           /\ i # j
           /\ \/ source[i].name = source[j].name
              \/ source[i].number = source[j].number
              \/ Modern(FileSyntax) /\ JsonName(source[i]) = JsonName(source[j])
      \/ \E o \in Inside("oneof", m) : \E j \in F \cup (Inside("oneof", m) \ {o}) :
           source[o].name = source[j].name
      \/ \E r \in Inside("reserved", m) : \E j \in F : Forbids(r, j)
  BY DEF MessageClashes
<1>5. ASSUME \/ \E i, j \in DOMAIN f :
                  /\ i # j
                  /\ \/ f[i].name = f[j].name
                     \/ f[i].field.number = f[j].field.number
                     \/ Modern(FileSyntax) /\ f[i].json = f[j].json
             \/ \E i \in DOMAIN f :
                  f[i].name \in b.oneofs \/ Reserves(b, f[i].name, f[i].field.number)
      PROVE  FieldsClash(b)
  BY <1>5 DEF FieldsClash
<1> HIDE DEF f, F
<1>6. CASE \E i, j \in F :
             /\ i # j
             /\ \/ source[i].name = source[j].name
                \/ source[i].number = source[j].number
                \/ Modern(FileSyntax) /\ JsonName(source[i]) = JsonName(source[j])
  <2>1. PICK i \in F, j \in F :
             /\ i # j
             /\ \/ source[i].name = source[j].name
                \/ source[i].number = source[j].number
                \/ Modern(FileSyntax) /\ JsonName(source[i]) = JsonName(source[j])
    BY <1>6
  <2>2. PICK a \in DOMAIN f : q[a] = i
    BY <1>3
  <2>3. PICK c \in DOMAIN f : q[c] = j
    BY <1>3
  <2>4. /\ a # c
        /\ \/ f[a].name = f[c].name
           \/ f[a].field.number = f[c].field.number
           \/ Modern(FileSyntax) /\ f[a].json = f[c].json
    BY <1>3, <2>1, <2>2, <2>3
  <2> QED BY <1>5, <2>4
<1>7. CASE \E o \in Inside("oneof", m) : \E j \in F \cup (Inside("oneof", m) \ {o}) :
             source[o].name = source[j].name
  <2>1. PICK o \in Inside("oneof", m) :
          \E j \in F \cup (Inside("oneof", m) \ {o}) : source[o].name = source[j].name
    BY <1>7
  <2> PICK j \in F \cup (Inside("oneof", m) \ {o}) : source[o].name = source[j].name
    BY <2>1
  <2>2. j \in F
    BY DEF OneofsApart
  <2>3. PICK a \in DOMAIN f : q[a] = j
    BY <1>3, <2>2
  <2>4. f[a].name \in b.oneofs
    BY <1>1, <1>3, <2>3
  <2> QED BY <1>5, <2>4
<1>8. CASE \E r \in Inside("reserved", m) : \E j \in F : Forbids(r, j)
  <2>1. PICK r \in Inside("reserved", m), j \in F : Forbids(r, j)
    BY <1>8
  <2>2. PICK a \in DOMAIN f : q[a] = j
    BY <1>3
  <2>3. Reserves(source[r], f[a].name, f[a].field.number)
    BY <1>3, <2>1, <2>2 DEF Forbids
  <2>4. Reserves(b, f[a].name, f[a].field.number)
    BY <1>1, <2>3, ReservesIs
  <2> QED BY <1>5, <2>4
<1> QED BY <1>4, <1>6, <1>7, <1>8

\* The values of a block are those of its enum, q[a] being where the a-th is declared.
ValuesFrom(v, e, q) ==
  /\ \A a \in DOMAIN v : /\ q[a] \in Inside("value", e)
                         /\ v[a].name = source[q[a]].name /\ v[a].number = source[q[a]].number
  /\ \A j \in Inside("value", e) : \E a \in DOMAIN v : q[a] = j
  /\ \A a, b \in DOMAIN v : a # b => q[a] # q[b]
  /\ v # <<>> => q[1] = Min(Inside("value", e)) /\ 1 \in DOMAIN v
  /\ v = <<>> => DOMAIN v = {}

\* There are such positions, the first being that of the first value.
LEMMA ValuesAre ==
  ASSUME source \in Sources, NEW e, NEW v, Lists(v, Inside("value", e), ValuesAt)
  PROVE  \E q : ValuesFrom(v, e, q)
<1> DEFINE S == Inside("value", e)
<1>1. S \subseteq Nat /\ S \subseteq DOMAIN source
  BY SourceIs DEF Inside, All
<1>2. IsStack(v) /\ \E q : FromPositions(v, S, ValuesAt, q)
  BY <1>1, ListsEach
<1>3. PICK q : FromPositions(v, S, ValuesAt, q)
  BY <1>2
<1>4. /\ \A a \in DOMAIN v : a \in Nat /\ q[a] \in S /\ v[a] = ValuesAt[q[a]]
      /\ \A j \in S : \E a \in DOMAIN v : q[a] = j
      /\ \A a, b \in DOMAIN v : a # b => q[a] # q[b]
      /\ \A a, b \in DOMAIN v : a < b => q[a] < q[b]
  BY <1>3 DEF FromPositions
<1> HIDE DEF S
<1>5. \A j \in S : ValuesAt[j].name = source[j].name /\ ValuesAt[j].number = source[j].number
  BY <1>1 DEF ValuesAt
<1>6. DOMAIN v = 1 .. Len(v) /\ Len(v) \in Nat /\ (v = <<>> <=> Len(v) = 0)
  BY <1>2, AppendIs, LengthOfStack
<1>7. ASSUME v # <<>> PROVE q[1] = Min(S) /\ 1 \in DOMAIN v
  <2>1. 1 \in DOMAIN v
    BY <1>6, <1>7
  <2>2. q[1] \in S
    BY <1>4, <2>1
  <2>3. Min(S) \in S /\ \A k \in S : Min(S) <= k
    BY <1>1, <2>2, Shortest
  <2>4. PICK a \in DOMAIN v : q[a] = Min(S)
    BY <1>4, <2>3
  <2>5. a = 1 \/ 1 < a
    BY <1>6, <2>4
  <2>6. a = 1 \/ q[1] < Min(S)
    BY <1>4, <2>1, <2>4, <2>5
  <2>7. q[1] \in Nat /\ Min(S) \in Nat /\ Min(S) <= q[1]
    BY <1>1, <2>2, <2>3
  <2>8. a = 1
    BY <2>6, <2>7
  <2> QED BY <2>1, <2>4, <2>8
<1>8. v = <<>> => DOMAIN v = {}
  BY <1>6
<1>9. ValuesFrom(v, e, q)
  BY <1>4, <1>5, <1>7, <1>8 DEF ValuesFrom, S
<1> QED BY <1>9

\* An enum is refused because of what it declares.
LEMMA EnumClashIsReal ==
  ASSUME source \in Sources, NEW e, NEW b, EnumDone(b, e), ValuesClash(b)
  PROVE  EnumClashes(e)
<1> DEFINE v == b.values
           V == Inside("value", e)
<1>1. /\ Lists(v, V, ValuesAt) /\ b.allow_alias = Aliases(e)
      /\ Joins(b.names, Inside("reserved", e), NamesAt) /\ Joins(b.ranges, Inside("reserved", e), RangesAt)
  BY AliasIs DEF EnumDone
<1>2. PICK q : ValuesFrom(v, e, q)
  BY <1>1, ValuesAre
<1>3. /\ \A a \in DOMAIN v : /\ q[a] \in V
                             /\ v[a].name = source[q[a]].name /\ v[a].number = source[q[a]].number
      /\ \A j \in V : \E a \in DOMAIN v : q[a] = j
      /\ \A a, c \in DOMAIN v : a # c => q[a] # q[c]
      /\ v # <<>> => q[1] = Min(V) /\ 1 \in DOMAIN v
      /\ v = <<>> => DOMAIN v = {}
  BY <1>2 DEF ValuesFrom
<1>4. \/ v = <<>>
      \/ Modern(FileSyntax) /\ v[1].number # 0
      \/ \E i, j \in DOMAIN v :
           /\ i # j
           /\ \/ v[i].name = v[j].name
              \/ v[i].number = v[j].number /\ ~b.allow_alias
      \/ \E i \in DOMAIN v : Reserves(b, v[i].name, v[i].number)
  BY DEF ValuesClash
<1> HIDE DEF v, V
<1>5. CASE v = <<>>
  <2>1. V = {}
    BY <1>3, <1>5
  <2> QED BY <2>1 DEF EnumClashes, V
<1>6. CASE v # <<>> /\ Modern(FileSyntax) /\ v[1].number # 0
  <2>1. source[Min(V)].number # 0
    BY <1>3, <1>6
  <2> QED BY <1>6, <2>1 DEF EnumClashes, V
<1>7. CASE \E i, j \in DOMAIN v :
             /\ i # j
             /\ \/ v[i].name = v[j].name
                \/ v[i].number = v[j].number /\ ~b.allow_alias
  <2>1. PICK i \in DOMAIN v, j \in DOMAIN v :
             /\ i # j
             /\ \/ v[i].name = v[j].name
                \/ v[i].number = v[j].number /\ ~b.allow_alias
    BY <1>7
  <2>2. /\ q[i] \in V /\ q[j] \in V /\ q[i] # q[j]
        /\ \/ source[q[i]].name = source[q[j]].name
           \/ source[q[i]].number = source[q[j]].number /\ ~Aliases(e)
    BY <1>1, <1>3, <2>1
  <2> QED BY <2>2 DEF EnumClashes, V
<1>8. CASE \E i \in DOMAIN v : Reserves(b, v[i].name, v[i].number)
  <2>1. PICK i \in DOMAIN v : Reserves(b, v[i].name, v[i].number)
    BY <1>8
  <2>2. q[i] \in V /\ Reserves(b, source[q[i]].name, source[q[i]].number)
    BY <1>3, <2>1
  <2>3. PICK r \in Inside("reserved", e) : Reserves(source[r], source[q[i]].name, source[q[i]].number)
    BY <1>1, <2>2, ReservesIs
  <2>4. Forbids(r, q[i])
    BY <2>3 DEF Forbids
  <2> QED BY <2>2, <2>4 DEF EnumClashes, V
<1> QED BY <1>4, <1>5, <1>6, <1>7, <1>8

\* What is wrong in an enum makes the builder refuse it.
LEMMA EnumClashIsFound ==
  ASSUME source \in Sources, NEW e, NEW b, EnumDone(b, e), EnumClashes(e)
  PROVE  ValuesClash(b)
<1> DEFINE v == b.values
           V == Inside("value", e)
<1>1. /\ Lists(v, V, ValuesAt) /\ b.allow_alias = Aliases(e)
      /\ Joins(b.names, Inside("reserved", e), NamesAt) /\ Joins(b.ranges, Inside("reserved", e), RangesAt)
  BY AliasIs DEF EnumDone
<1>2. PICK q : ValuesFrom(v, e, q)
  BY <1>1, ValuesAre
<1>3. /\ \A a \in DOMAIN v : /\ q[a] \in V
                             /\ v[a].name = source[q[a]].name /\ v[a].number = source[q[a]].number
      /\ \A j \in V : \E a \in DOMAIN v : q[a] = j
      /\ v # <<>> => q[1] = Min(V) /\ 1 \in DOMAIN v
  BY <1>2 DEF ValuesFrom
<1>4. \/ V = {}
      \/ Modern(FileSyntax) /\ source[Min(V)].number # 0
      \/ \E i, j \in V :
           /\ i # j
           /\ \/ source[i].name = source[j].name
              \/ source[i].number = source[j].number /\ ~Aliases(e)
      \/ \E r \in Inside("reserved", e) : \E j \in V : Forbids(r, j)
  BY DEF EnumClashes
<1>5. ASSUME \/ v = <<>>
             \/ Modern(FileSyntax) /\ v[1].number # 0
             \/ \E i, j \in DOMAIN v :
                  /\ i # j
                  /\ \/ v[i].name = v[j].name
                     \/ v[i].number = v[j].number /\ ~b.allow_alias
             \/ \E i \in DOMAIN v : Reserves(b, v[i].name, v[i].number)
      PROVE  ValuesClash(b)
  BY <1>5 DEF ValuesClash
<1> HIDE DEF v, V
<1>6. CASE V = {}
  <2>1. v = <<>>
    BY <1>3, <1>6
  <2> QED BY <1>5, <2>1
<1>7. CASE Modern(FileSyntax) /\ source[Min(V)].number # 0
  <2>1. v = <<>> \/ v[1].number # 0
    BY <1>3, <1>7
  <2> QED BY <1>5, <1>7, <2>1
<1>8. CASE \E i, j \in V :
             /\ i # j
             /\ \/ source[i].name = source[j].name
                \/ source[i].number = source[j].number /\ ~Aliases(e)
  <2>1. PICK i \in V, j \in V :
             /\ i # j
             /\ \/ source[i].name = source[j].name
                \/ source[i].number = source[j].number /\ ~Aliases(e)
    BY <1>8
  <2>2. PICK a \in DOMAIN v : q[a] = i
    BY <1>3
  <2>3. PICK c \in DOMAIN v : q[c] = j
    BY <1>3
  <2>4. /\ a # c
        /\ \/ v[a].name = v[c].name
           \/ v[a].number = v[c].number /\ ~b.allow_alias
    BY <1>1, <1>3, <2>1, <2>2, <2>3
  <2> QED BY <1>5, <2>4
<1>9. CASE \E r \in Inside("reserved", e) : \E j \in V : Forbids(r, j)
  <2>1. PICK r \in Inside("reserved", e), j \in V : Forbids(r, j)
    BY <1>9
  <2>2. PICK a \in DOMAIN v : q[a] = j
    BY <1>3
  <2>3. Reserves(source[r], v[a].name, v[a].number)
    BY <1>3, <2>1, <2>2 DEF Forbids
  <2>4. Reserves(b, v[a].name, v[a].number)
    BY <1>1, <2>3, ReservesIs
  <2> QED BY <1>5, <2>4
<1> QED BY <1>4, <1>6, <1>7, <1>8, <1>9

\* A message whose fields have names of their own is described by its descriptor.
LEMMA MessageIsMade ==
  ASSUME source \in Sources, NEW m, NEW b, MessageDone(b, m), ~FieldsClash(b), NEW d,
         d.fields = [n \in {b.fields[i].name : i \in DOMAIN b.fields} |->
                       b.fields[CHOOSE i \in DOMAIN b.fields : b.fields[i].name = n].field],
         d.extension_ranges = b.extension_ranges, d.options = b.options
  PROVE  MessageMade(d, m)
<1> DEFINE f == b.fields
           F == FieldsIn(m)
           g == d.fields
           At1(n) == CHOOSE i \in DOMAIN f : f[i].name = n
<1>1. Lists(f, F, Descriptions) /\ LastSet(b.options, Inside("option", m))
      /\ b.extension_ranges = UNION {ExtensionRangesAt(j) : j \in Inside("extensions", m)}
  BY DEF MessageDone
<1>2. PICK q : FieldsFrom(f, m, q)
  BY <1>1, FieldsAre
<1>3. /\ \A a \in DOMAIN f : /\ q[a] \in F /\ f[a].name = source[q[a]].name
                             /\ f[a].field.number = source[q[a]].number
                             /\ f[a].field.kind = source[q[a]].kind
                             /\ f[a].field.oneof = OneofAround(q[a])
      /\ \A j \in F : \E a \in DOMAIN f : q[a] = j
  BY <1>2 DEF FieldsFrom
<1>4. \A a, c \in DOMAIN f : f[a].name = f[c].name => a = c
  BY DEF FieldsClash
<1>5. DOMAIN g = {f[i].name : i \in DOMAIN f} /\ \A n \in {f[i].name : i \in DOMAIN f} : g[n] = f[At1(n)].field
  OBVIOUS
<1>6. ASSUME NEW a \in DOMAIN f PROVE At1(f[a].name) = a
  <2>1. At1(f[a].name) \in DOMAIN f /\ f[At1(f[a].name)].name = f[a].name
    OBVIOUS
  <2> QED BY <1>4, <2>1
<1> HIDE DEF f, F, g, At1
<1>7. \A a \in DOMAIN f : g[f[a].name] = f[a].field
  BY <1>5, <1>6
<1>8. DOMAIN g = {source[j].name : j \in F}
  BY <1>3, <1>5
<1>9. ASSUME NEW j \in F
      PROVE  /\ g[source[j].name].number = source[j].number /\ g[source[j].name].kind = source[j].kind
             /\ g[source[j].name].oneof = OneofAround(j)
  <2>1. PICK a \in DOMAIN f : q[a] = j
    BY <1>3
  <2> QED BY <1>3, <1>7, <2>1
<1>10. d.options = SettingsIn(m)
  BY <1>1, LastSetIs
<1> QED BY <1>1, <1>8, <1>9, <1>10 DEF MessageMade, F, g

\* The descriptor of an enum has its values and its options.
LEMMA EnumIsMade ==
  ASSUME source \in Sources, NEW e, NEW b, EnumDone(b, e), NEW d,
         d.values = {b.values[i].name : i \in DOMAIN b.values}, d.options = b.options
  PROVE  EnumMade(d, e)
<1> DEFINE v == b.values
           V == Inside("value", e)
<1>1. Lists(v, V, ValuesAt) /\ LastSet(b.options, Inside("option", e))
  BY DEF EnumDone
<1>2. PICK q : ValuesFrom(v, e, q)
  BY <1>1, ValuesAre
<1>3. /\ \A a \in DOMAIN v : q[a] \in V /\ v[a].name = source[q[a]].name
      /\ \A j \in V : \E a \in DOMAIN v : q[a] = j
  BY <1>2 DEF ValuesFrom
<1>4. d.values = {v[i].name : i \in DOMAIN v}
  OBVIOUS
<1> HIDE DEF v, V
<1>5. {v[i].name : i \in DOMAIN v} = {source[j].name : j \in V}
  <2>1. \A a \in DOMAIN v : q[a] \in V /\ v[a].name = source[q[a]].name
    BY <1>3
  <2>2. \A j \in V : \E a \in DOMAIN v : v[a].name = source[j].name
    BY <1>3
  <2> QED BY <2>1, <2>2
<1>6. d.options = SettingsIn(e)
  BY <1>1, LastSetIs
<1> QED BY <1>4, <1>5, <1>6 DEF EnumMade, V

\* The types that the methods of a service use are those that the source says.
LEMMA KindsAre ==
  ASSUME source \in Sources, NEW s, NEW methods, Lists(methods, Inside("rpc", s), source)
  PROVE  UNION {{methods[i].input, methods[i].output} : i \in DOMAIN methods} = KindsIn(s)
<1> DEFINE S == Inside("rpc", s)
           D == DOMAIN methods
<1>1. S \subseteq Nat
  BY SourceIs DEF Inside, All
<1>2. PICK q : FromPositions(methods, S, source, q)
  BY <1>1, ListsEach
<1>3. /\ \A a \in D : q[a] \in S /\ methods[a] = source[q[a]]
      /\ \A j \in S : \E a \in D : q[a] = j
  BY <1>2 DEF FromPositions
<1>4. KindsIn(s) = UNION {{source[j].input, source[j].output} : j \in S}
  BY DEF KindsIn
<1> HIDE DEF S, D
<1>5. {{methods[i].input, methods[i].output} : i \in D} = {{source[j].input, source[j].output} : j \in S}
  BY <1>3
<1> QED BY <1>4, <1>5 DEF D

-----------------------------------------------------------------------------
(* A statement adds to a block.                                            *)

\* A field joins those of the block whose field it is, and nothing else changes there.
LEMMA FieldJoins ==
  ASSUME source \in Sources, NEW c \in 1 .. Len(source), source[c].is = "field", NEW i, c \in FieldsIn(i)
  PROVE  /\ Before(FieldsIn(i), c + 1) = Before(FieldsIn(i), c) \cup {c}
         /\ Before(Inside("oneof", i), c + 1) \ Around(c + 1) = Before(Inside("oneof", i), c) \ Around(c)
         /\ \A is \in PartSorts : Before(Inside(is, i), c + 1) = Before(Inside(is, i), c)
<1> DEFINE n == c + 1
<1>1. Follows(c, n) /\ "oneof" # "group" /\ ~(source[c].is = "oneof" /\ Owner(c) = i)
  BY DEF Follows
<1>2. Around(n) = Around(c)
  BY AroundPlain DEF Opening
<1> HIDE DEF n
<1>3. Before(FieldsIn(i), n) = Before(FieldsIn(i), c) \cup ({c} \cap FieldsIn(i))
  BY <1>1, FieldsGrow
<1>4. Before(Inside("oneof", i), n) = Before(Inside("oneof", i), c)
  BY <1>1, InsideKept
<1>5. ASSUME NEW is \in PartSorts PROVE Before(Inside(is, i), n) = Before(Inside(is, i), c)
  <2>1. is # "group" /\ ~(source[c].is = is /\ Owner(c) = i)
    BY DEF PartSorts
  <2> QED BY <1>1, <2>1, InsideKept
<1>6. Before(FieldsIn(i), n) = Before(FieldsIn(i), c) \cup {c}
  BY <1>3
<1> QED BY <1>2, <1>4, <1>5, <1>6 DEF n

\* A part joins those of its sort in the innermost block, and nothing else changes there.
LEMMA PartJoins ==
  ASSUME source \in Sources, NEW c \in 1 .. Len(source), source[c].is \in PartSorts,
         Innermost(c, {"group"}) = 0
  PROVE  /\ Before(FieldsIn(Owner(c)), c + 1) = Before(FieldsIn(Owner(c)), c)
         /\ Before(Inside("oneof", Owner(c)), c + 1) \ Around(c + 1)
              = Before(Inside("oneof", Owner(c)), c) \ Around(c)
         /\ \A is \in PartSorts : is # source[c].is
              => Before(Inside(is, Owner(c)), c + 1) = Before(Inside(is, Owner(c)), c)
         /\ Before(Inside(source[c].is, Owner(c)), c + 1)
              = Before(Inside(source[c].is, Owner(c)), c) \cup {c}
<1> DEFINE n == c + 1
           p == Owner(c)
<1>1. Follows(c, n) /\ "oneof" # "group" /\ source[c].is # "oneof" /\ source[c].is # "group"
      /\ source[c].is # "field" /\ source[c].is \notin Opening \cup {"end"}
  BY DEF Follows, PartSorts, Opening
<1>2. Around(n) = Around(c)
  BY <1>1, AroundPlain
<1>3. Before(Inside(source[c].is, p), n) = Before(Inside(source[c].is, p), c) \cup {c}
  BY <1>1, InsideAdds
<1> HIDE DEF n, p
<1>4. Before(FieldsIn(p), n) = Before(FieldsIn(p), c)
  BY <1>1, FieldsGrow
<1>5. Before(Inside("oneof", p), n) = Before(Inside("oneof", p), c)
  <2>1. ~(source[c].is = "oneof" /\ Owner(c) = p)
    BY <1>1
  <2> QED BY <1>1, <2>1, InsideKept
<1>6. ASSUME NEW is \in PartSorts, is # source[c].is
      PROVE  Before(Inside(is, p), n) = Before(Inside(is, p), c)
  <2>1. is # "group" /\ ~(source[c].is = is /\ Owner(c) = p)
    BY <1>6 DEF PartSorts
  <2> QED BY <1>1, <2>1, InsideKept
<1> QED BY <1>2, <1>3, <1>4, <1>5, <1>6 DEF n, p

\* The parts of a block that differ by sort.
LEMMA BlockBecomes ==
  ASSUME NEW b, NEW d, NEW i, NEW c, NEW n, BlockTracked(b, i, c),
         d.kind = b.kind, d.name = b.name, d.of = b.of,
         b.kind = "message" => MessageTracked(d, i, n),
         b.kind = "enum" => EnumTracked(d, i, n),
         b.kind = "service" => Lists(d.methods, Before(Inside("rpc", i), n), source)
  PROVE  BlockTracked(d, i, n)
BY DEF BlockTracked

\* A message or an enum is a block of one sort.
LEMMA TrackedBy ==
  ASSUME NEW b, NEW i, NEW c, BlockTracked(b, i, c)
  PROVE  /\ b.kind = "message" => MessageTracked(b, i, c)
         /\ b.kind = "enum" => EnumTracked(b, i, c)
         /\ b.kind = "service" => Lists(b.methods, Before(Inside("rpc", i), c), source)
BY DEF BlockTracked

\* What is before a position is natural and less.
LEMMA BeforeIs ==
  ASSUME source \in Sources, NEW c \in 1 .. Len(source), NEW is, NEW i
  PROVE  /\ Before(Inside(is, i), c) \subseteq Nat /\ \A j \in Before(Inside(is, i), c) : j < c
         /\ Before(FieldsIn(i), c) \subseteq Nat /\ \A j \in Before(FieldsIn(i), c) : j < c
         /\ c \in Nat /\ c \notin Before(Inside(is, i), c)
<1>1. c \in Nat /\ ~(c < c) /\ DOMAIN source \subseteq Nat
  BY SourceIs
<1> QED BY <1>1 DEF Before, Inside, FieldsIn, All

\* A field is added to a message.
LEMMA FieldTracked ==
  ASSUME source \in Sources, NEW c \in 1 .. Len(source), source[c].is = "field", NEW i, c \in FieldsIn(i),
         NEW b, BlockTracked(b, i, c), DOMAIN b = BlockParts, b.kind = "message"
  PROVE  BlockTracked([b EXCEPT !.fields = Append(@, Descriptions[c])], i, c + 1)
<1> DEFINE d == [b EXCEPT !.fields = Append(@, Descriptions[c])]
           n == c + 1
<1>1. /\ d.kind = b.kind /\ d.name = b.name /\ d.of = b.of /\ d.oneofs = b.oneofs /\ d.names = b.names
      /\ d.ranges = b.ranges /\ d.extension_ranges = b.extension_ranges /\ d.options = b.options
      /\ d.fields = Append(b.fields, Descriptions[c])
  BY DEF BlockParts
<1>2. /\ Before(FieldsIn(i), n) = Before(FieldsIn(i), c) \cup {c}
      /\ Before(Inside("oneof", i), n) \ Around(n) = Before(Inside("oneof", i), c) \ Around(c)
      /\ Before(Inside("reserved", i), n) = Before(Inside("reserved", i), c)
      /\ Before(Inside("extensions", i), n) = Before(Inside("extensions", i), c)
      /\ Before(Inside("option", i), n) = Before(Inside("option", i), c)
  BY FieldJoins DEF PartSorts
<1> HIDE DEF d, n
<1>3. MessageTracked(b, i, c)
  BY TrackedBy
<1>4. Lists(b.fields, Before(FieldsIn(i), c), Descriptions)
  BY <1>3 DEF MessageTracked
<1>5. Lists(d.fields, Before(FieldsIn(i), n), Descriptions)
  <2>1. Before(FieldsIn(i), c) \subseteq Nat /\ c \in Nat /\ \A j \in Before(FieldsIn(i), c) : j < c
    BY BeforeIs
  <2>2. Lists(Append(b.fields, Descriptions[c]), Before(FieldsIn(i), c) \cup {c}, Descriptions)
    BY <1>4, <2>1, ListsMore
  <2> QED BY <1>1, <1>2, <2>2
<1>6. MessageTracked(d, i, n)
  BY <1>1, <1>2, <1>3, <1>5 DEF MessageTracked
<1>7. BlockTracked(d, i, n)
  BY <1>1, <1>6, BlockBecomes
<1> QED BY <1>7 DEF d, n

\* Names and ranges are reserved.
LEMMA ReservedTracked ==
  ASSUME source \in Sources, NEW c \in 1 .. Len(source), source[c].is = "reserved",
         Innermost(c, {"group"}) = 0, NEW b, BlockTracked(b, Owner(c), c), DOMAIN b = BlockParts,
         b.kind \in {"message", "enum"}
  PROVE  BlockTracked([b EXCEPT !.names = @ \o source[c].names, !.ranges = @ \o source[c].ranges],
                      Owner(c), c + 1)
<1> DEFINE d == [b EXCEPT !.names = @ \o source[c].names, !.ranges = @ \o source[c].ranges]
           n == c + 1
           i == Owner(c)
           S == Before(Inside("reserved", i), c)
<1>1. /\ d.kind = b.kind /\ d.name = b.name /\ d.of = b.of /\ d.oneofs = b.oneofs /\ d.fields = b.fields
      /\ d.values = b.values /\ d.allow_alias = b.allow_alias
      /\ d.extension_ranges = b.extension_ranges /\ d.options = b.options
      /\ d.names = b.names \o source[c].names /\ d.ranges = b.ranges \o source[c].ranges
  BY DEF BlockParts
<1>2. /\ Before(FieldsIn(i), n) = Before(FieldsIn(i), c)
      /\ Before(Inside("oneof", i), n) \ Around(n) = Before(Inside("oneof", i), c) \ Around(c)
      /\ Before(Inside("reserved", i), n) = S \cup {c}
      /\ Before(Inside("extensions", i), n) = Before(Inside("extensions", i), c)
      /\ Before(Inside("value", i), n) = Before(Inside("value", i), c)
      /\ Before(Inside("allow_alias", i), n) = Before(Inside("allow_alias", i), c)
      /\ Before(Inside("option", i), n) = Before(Inside("option", i), c)
  BY PartJoins DEF PartSorts
<1>3. c \in Inside("reserved", i)
  BY SourceIs DEF Inside, All
<1>4. c \notin S
  BY BeforeIs
<1> HIDE DEF d, n, i
<1>5. NamesAt[c] = source[c].names /\ RangesAt[c] = source[c].ranges /\ IsStack(NamesAt[c]) /\ IsStack(RangesAt[c])
  BY <1>3, ReservedIs
<1>6. ASSUME Joins(b.names, S, NamesAt), Joins(b.ranges, S, RangesAt)
      PROVE  Joins(d.names, S \cup {c}, NamesAt) /\ Joins(d.ranges, S \cup {c}, RangesAt)
  <2>1. Joins(b.names \o NamesAt[c], S \cup {c}, NamesAt)
    BY <1>4, <1>5, <1>6, JoinsMore
  <2>2. Joins(b.ranges \o RangesAt[c], S \cup {c}, RangesAt)
    BY <1>4, <1>5, <1>6, JoinsMore
  <2> QED BY <1>1, <1>5, <2>1, <2>2
<1>7. BlockTracked(b, i, c)
  BY DEF i
<1>8. ASSUME b.kind = "message" PROVE MessageTracked(d, i, n)
  <2>1. MessageTracked(b, i, c)
    BY <1>7, <1>8, TrackedBy
  <2>2. Joins(b.names, S, NamesAt) /\ Joins(b.ranges, S, RangesAt)
    BY <2>1 DEF MessageTracked
  <2> QED BY <1>1, <1>2, <1>6, <2>1, <2>2 DEF MessageTracked
<1>9. ASSUME b.kind = "enum" PROVE EnumTracked(d, i, n)
  <2>1. EnumTracked(b, i, c)
    BY <1>7, <1>9, TrackedBy
  <2>2. Joins(b.names, S, NamesAt) /\ Joins(b.ranges, S, RangesAt)
    BY <2>1 DEF EnumTracked
  <2> QED BY <1>1, <1>2, <1>6, <2>1, <2>2 DEF EnumTracked
<1>10. BlockTracked(d, i, n)
  BY <1>1, <1>7, <1>8, <1>9, BlockBecomes
<1> QED BY <1>10 DEF d, n, i

\* Numbers are left to extensions.
LEMMA ExtensionsTracked ==
  ASSUME source \in Sources, NEW c \in 1 .. Len(source), source[c].is = "extensions",
         Innermost(c, {"group"}) = 0, NEW b, BlockTracked(b, Owner(c), c), DOMAIN b = BlockParts,
         b.kind = "message"
  PROVE  BlockTracked([b EXCEPT !.extension_ranges = @ \cup ExtensionRangesAt(c)], Owner(c), c + 1)
<1> DEFINE d == [b EXCEPT !.extension_ranges = @ \cup ExtensionRangesAt(c)]
           n == c + 1
           i == Owner(c)
<1>1. /\ d.kind = b.kind /\ d.name = b.name /\ d.of = b.of /\ d.oneofs = b.oneofs /\ d.names = b.names
      /\ d.ranges = b.ranges /\ d.fields = b.fields /\ d.options = b.options
      /\ d.extension_ranges = b.extension_ranges \cup ExtensionRangesAt(c)
  BY DEF BlockParts
<1>2. /\ Before(FieldsIn(i), n) = Before(FieldsIn(i), c)
      /\ Before(Inside("oneof", i), n) \ Around(n) = Before(Inside("oneof", i), c) \ Around(c)
      /\ Before(Inside("reserved", i), n) = Before(Inside("reserved", i), c)
      /\ Before(Inside("extensions", i), n) = Before(Inside("extensions", i), c) \cup {c}
      /\ Before(Inside("option", i), n) = Before(Inside("option", i), c)
  BY PartJoins DEF PartSorts
<1>3. MessageTracked(b, i, c)
  BY TrackedBy
<1> HIDE DEF d, n, i
<1>4. b.extension_ranges = UNION {ExtensionRangesAt(j) : j \in Before(Inside("extensions", i), c)}
  BY <1>3 DEF MessageTracked
<1>5. d.extension_ranges = UNION {ExtensionRangesAt(j) : j \in Before(Inside("extensions", i), n)}
  <2> DEFINE S == Before(Inside("extensions", i), c)
  <2>1. UNION {ExtensionRangesAt(j) : j \in S \cup {c}}
          = (UNION {ExtensionRangesAt(j) : j \in S}) \cup ExtensionRangesAt(c)
    <3> DEFINE E(j) == ExtensionRangesAt(j)
               all == UNION {E(j) : j \in S \cup {c}}
               before == UNION {E(j) : j \in S}
    <3> HIDE DEF S, E
    <3>1. \A x : x \in all <=> \E j \in S \cup {c} : x \in E(j)
      OBVIOUS
    <3>2. \A x : x \in before <=> \E j \in S : x \in E(j)
      OBVIOUS
    <3> HIDE DEF all, before
    <3>3. \A x : x \in all <=> x \in before \/ x \in E(c)
      BY <3>1, <3>2
    <3>4. all = before \cup E(c)
      BY <3>3
    <3> QED BY <3>4 DEF all, before, E
  <2> QED BY <1>1, <1>2, <1>4, <2>1
<1>6. MessageTracked(d, i, n)
  BY <1>1, <1>2, <1>3, <1>5 DEF MessageTracked
<1>7. BlockTracked(b, i, c)
  BY DEF i
<1>8. BlockTracked(d, i, n)
  BY <1>1, <1>6, <1>7, BlockBecomes
<1> QED BY <1>8 DEF d, n, i

\* A feature of a message or of an enum is set.
LEMMA OptionTracked ==
  ASSUME source \in Sources, NEW c \in 1 .. Len(source), source[c].is = "option",
         Innermost(c, {"group"}) = 0, NEW b, BlockTracked(b, Owner(c), c), DOMAIN b = BlockParts,
         b.kind \in {"message", "enum"}
  PROVE  BlockTracked([b EXCEPT !.options = Put(@, source[c].feature, source[c].value)], Owner(c), c + 1)
<1> DEFINE d == [b EXCEPT !.options = Put(@, source[c].feature, source[c].value)]
           n == c + 1
           i == Owner(c)
           S == Before(Inside("option", i), c)
<1>1. /\ d.kind = b.kind /\ d.name = b.name /\ d.of = b.of /\ d.oneofs = b.oneofs /\ d.fields = b.fields
      /\ d.values = b.values /\ d.allow_alias = b.allow_alias
      /\ d.extension_ranges = b.extension_ranges /\ d.names = b.names /\ d.ranges = b.ranges
      /\ d.options = Put(b.options, source[c].feature, source[c].value)
  BY DEF BlockParts
<1>2. /\ Before(FieldsIn(i), n) = Before(FieldsIn(i), c)
      /\ Before(Inside("oneof", i), n) \ Around(n) = Before(Inside("oneof", i), c) \ Around(c)
      /\ Before(Inside("reserved", i), n) = Before(Inside("reserved", i), c)
      /\ Before(Inside("extensions", i), n) = Before(Inside("extensions", i), c)
      /\ Before(Inside("value", i), n) = Before(Inside("value", i), c)
      /\ Before(Inside("allow_alias", i), n) = Before(Inside("allow_alias", i), c)
      /\ Before(Inside("option", i), n) = S \cup {c}
  BY PartJoins DEF PartSorts
<1>3. S \subseteq Nat /\ c \in Nat /\ \A j \in S : j < c
  BY BeforeIs
<1>4. BlockTracked(b, i, c)
  OBVIOUS
<1> HIDE DEF d, n, i, S
<1>5. ASSUME LastSet(b.options, S) PROVE LastSet(d.options, S \cup {c})
  <2>1. LastSet(Put(b.options, source[c].feature, source[c].value), S \cup {c})
    BY <1>3, <1>5, LastSetMore
  <2> QED BY <1>1, <2>1
<1>6. ASSUME b.kind = "message" PROVE MessageTracked(d, i, n)
  <2>1. MessageTracked(b, i, c)
    BY <1>4, <1>6, TrackedBy
  <2>2. LastSet(b.options, S)
    BY <2>1 DEF MessageTracked, S
  <2> QED BY <1>1, <1>2, <1>5, <2>1, <2>2 DEF MessageTracked
<1>7. ASSUME b.kind = "enum" PROVE EnumTracked(d, i, n)
  <2>1. EnumTracked(b, i, c)
    BY <1>4, <1>7, TrackedBy
  <2>2. LastSet(b.options, S)
    BY <2>1 DEF EnumTracked, S
  <2> QED BY <1>1, <1>2, <1>5, <2>1, <2>2 DEF EnumTracked
<1>8. BlockTracked(d, i, n)
  BY <1>1, <1>4, <1>6, <1>7, BlockBecomes
<1> QED BY <1>8 DEF d, n, i

\* A value is added to an enum.
LEMMA ValueTracked ==
  ASSUME source \in Sources, NEW c \in 1 .. Len(source), source[c].is = "value",
         Innermost(c, {"group"}) = 0, NEW b, BlockTracked(b, Owner(c), c), DOMAIN b = BlockParts,
         b.kind = "enum"
  PROVE  BlockTracked([b EXCEPT !.values = Append(@, ValuesAt[c])], Owner(c), c + 1)
<1> DEFINE d == [b EXCEPT !.values = Append(@, ValuesAt[c])]
           n == c + 1
           i == Owner(c)
           S == Before(Inside("value", i), c)
<1>1. /\ d.kind = b.kind /\ d.name = b.name /\ d.of = b.of /\ d.allow_alias = b.allow_alias
      /\ d.names = b.names /\ d.ranges = b.ranges /\ d.options = b.options
      /\ d.values = Append(b.values, ValuesAt[c])
  BY DEF BlockParts
<1>2. /\ Before(Inside("reserved", i), n) = Before(Inside("reserved", i), c)
      /\ Before(Inside("value", i), n) = S \cup {c}
      /\ Before(Inside("allow_alias", i), n) = Before(Inside("allow_alias", i), c)
      /\ Before(Inside("option", i), n) = Before(Inside("option", i), c)
  BY PartJoins DEF PartSorts
<1>3. S \subseteq Nat /\ c \in Nat /\ \A j \in S : j < c
  BY BeforeIs
<1>4. BlockTracked(b, i, c)
  OBVIOUS
<1>5. EnumTracked(b, i, c)
  BY TrackedBy
<1> HIDE DEF d, n, i, S
<1>6. Lists(b.values, S, ValuesAt)
  BY <1>5 DEF EnumTracked, S
<1>7. Lists(Append(b.values, ValuesAt[c]), S \cup {c}, ValuesAt)
  BY <1>3, <1>6, ListsMore
<1>8. EnumTracked(d, i, n)
  BY <1>1, <1>2, <1>5, <1>7 DEF EnumTracked
<1>9. BlockTracked(d, i, n)
  BY <1>1, <1>4, <1>8, BlockBecomes
<1> QED BY <1>9 DEF d, n, i

\* An enum says whether it has aliases.
LEMMA AliasTracked ==
  ASSUME source \in Sources, NEW c \in 1 .. Len(source), source[c].is = "allow_alias",
         Innermost(c, {"group"}) = 0, NEW b, BlockTracked(b, Owner(c), c), DOMAIN b = BlockParts,
         b.kind = "enum"
  PROVE  BlockTracked([b EXCEPT !.allow_alias = source[c].value], Owner(c), c + 1)
<1> DEFINE d == [b EXCEPT !.allow_alias = source[c].value]
           n == c + 1
           i == Owner(c)
           S == Before(Inside("allow_alias", i), c)
<1>1. /\ d.kind = b.kind /\ d.name = b.name /\ d.of = b.of /\ d.values = b.values
      /\ d.names = b.names /\ d.ranges = b.ranges /\ d.options = b.options
      /\ d.allow_alias = source[c].value
  BY DEF BlockParts
<1>2. /\ Before(Inside("reserved", i), n) = Before(Inside("reserved", i), c)
      /\ Before(Inside("value", i), n) = Before(Inside("value", i), c)
      /\ Before(Inside("allow_alias", i), n) = S \cup {c}
      /\ Before(Inside("option", i), n) = Before(Inside("option", i), c)
  BY PartJoins DEF PartSorts
<1>3. S \subseteq Nat /\ c \in Nat /\ \A j \in S : j < c
  BY BeforeIs
<1>4. BlockTracked(b, i, c)
  OBVIOUS
<1>5. EnumTracked(b, i, c)
  BY TrackedBy
<1> HIDE DEF d, n, i, S
<1>6. AliasSaid(d.allow_alias, S \cup {c})
  BY <1>1, <1>3, AliasMore
<1>7. EnumTracked(d, i, n)
  BY <1>1, <1>2, <1>5, <1>6 DEF EnumTracked
<1>8. BlockTracked(d, i, n)
  BY <1>1, <1>4, <1>7, BlockBecomes
<1> QED BY <1>8 DEF d, n, i

\* A method is added to a service.
LEMMA MethodTracked ==
  ASSUME source \in Sources, NEW c \in 1 .. Len(source), source[c].is = "rpc",
         Innermost(c, {"group"}) = 0, NEW b, BlockTracked(b, Owner(c), c), DOMAIN b = BlockParts,
         b.kind = "service"
  PROVE  BlockTracked([b EXCEPT !.methods = Append(@, source[c])], Owner(c), c + 1)
<1> DEFINE d == [b EXCEPT !.methods = Append(@, source[c])]
           n == c + 1
           i == Owner(c)
           S == Before(Inside("rpc", i), c)
<1>1. /\ d.kind = b.kind /\ d.name = b.name /\ d.of = b.of
      /\ d.methods = Append(b.methods, source[c])
  BY DEF BlockParts
<1>2. Before(Inside("rpc", i), n) = S \cup {c}
  BY PartJoins DEF PartSorts
<1>3. S \subseteq Nat /\ c \in Nat /\ \A j \in S : j < c
  BY BeforeIs
<1>4. BlockTracked(b, i, c)
  OBVIOUS
<1>5. Lists(b.methods, S, source)
  BY TrackedBy
<1> HIDE DEF d, n, i, S
<1>6. Lists(Append(b.methods, source[c]), S \cup {c}, source)
  BY <1>3, <1>5, ListsMore
<1>7. BlockTracked(d, i, n)
  BY <1>1, <1>2, <1>4, <1>6, BlockBecomes
<1> QED BY <1>7 DEF d, n, i

-----------------------------------------------------------------------------
(* One statement after the other.                                          *)

\* The builder is about to read a statement.
Ready ==
  /\ stage = "building" /\ source \in Sources /\ cursor \in 1 .. Len(source)
  /\ Sounds(stack) /\ package \in Seq(STRING) /\ ParsedFile(built)
  /\ Tracked(cursor, stack, built, package, imports)

\* A step refuses a defective source, or tracks one statement more.
Outcome ==
  /\ source' = source /\ limit' = limit /\ FileSyntax' = FileSyntax
  /\ \/ stage' = "refused" /\ Defective
     \/ stage' = "building" /\ Tracked(cursor', stack', built', package', imports')

\* What there is to read, and where.
LEMMA ReadyIs ==
  ASSUME Ready
  PROVE  /\ source \in Sources /\ cursor \in 1 .. Len(source) /\ cursor \in 1 .. Len(source) + 1
         /\ cursor \in DOMAIN source /\ cursor \in Nat /\ Len(source) \in Nat
         /\ Grammatical(source[cursor]) /\ Follows(cursor, cursor + 1) <=> source[cursor].is # "group"
         /\ StackTracked(stack, cursor) /\ InOrderBefore(cursor) /\ Made(built, cursor)
         /\ package = PackageBefore(cursor) /\ imports = ImportedBefore(cursor)
         /\ Innermost(cursor, {"group"}) = 0 /\ IsStack(stack)
<1>1. source \in Sources /\ cursor \in 1 .. Len(source) /\ Sounds(stack)
      /\ Tracked(cursor, stack, built, package, imports)
  BY DEF Ready
<1>2. Len(source) \in Nat /\ DOMAIN source = 1 .. Len(source)
      /\ \A j \in DOMAIN source : Grammatical(source[j])
  BY <1>1, BuilderAssumption
<1>3. cursor \in 1 .. Len(source) + 1 /\ cursor \in Nat /\ cursor \in DOMAIN source
  BY <1>1, <1>2
<1>4. /\ StackTracked(stack, cursor) /\ InOrderBefore(cursor) /\ Made(built, cursor)
      /\ package = PackageBefore(cursor) /\ imports = ImportedBefore(cursor)
  BY <1>1 DEF Tracked
<1>5. IsStack(stack)
  BY <1>1 DEF Sounds
<1>6. Innermost(cursor, {"group"}) = 0
  BY <1>1, <1>3, <1>4, <1>5, TopTracked
<1>7. Follows(cursor, cursor + 1) <=> source[cursor].is # "group"
  <2>1. cursor + 1 - 1 \notin cursor + 1 .. Len(source)
    BY <1>3
  <2> QED BY <2>1 DEF Follows
<1> QED BY <1>1, <1>2, <1>3, <1>4, <1>5, <1>6, <1>7

\* The block around the statement is the innermost of the stack.
LEMMA ReadyTop ==
  ASSUME Ready
  PROVE  /\ stack = <<>> => Owner(cursor) = 0 /\ Around(cursor) = {} /\ Place = "file"
         /\ stack # <<>> => /\ Owner(cursor) # 0 /\ Owner(cursor) \in Around(cursor)
                            /\ Level(Owner(cursor)) = Len(stack) /\ Len(stack) = Level(cursor - 1)
                            /\ source[Owner(cursor)].is = Top.kind /\ Place = Top.kind
                            /\ BlockTracked(Top, Owner(cursor), cursor)
                            /\ Sound(Top) /\ Sounds(Outer) /\ DOMAIN Top = BlockParts
                            /\ Place \in {"message", "enum", "service", "oneof", "extend"}
<1>1. /\ source \in Sources /\ cursor \in 1 .. Len(source) + 1
      /\ IsStack(stack) /\ StackTracked(stack, cursor)
  BY ReadyIs
<1>2. /\ stack = <<>> <=> Owner(cursor) = 0
      /\ stack = <<>> => Around(cursor) = {}
      /\ stack # <<>> => /\ Owner(cursor) \in Around(cursor) /\ Level(Owner(cursor)) = Len(stack)
                         /\ Len(stack) = Level(cursor - 1)
                         /\ source[Owner(cursor)].is = stack[Len(stack)].kind
                         /\ BlockTracked(stack[Len(stack)], Owner(cursor), cursor)
  BY <1>1, TopTracked
<1>3. Sounds(stack)
  BY DEF Ready
<1>4. stack # <<>> => Sound(Top) /\ Sounds(Outer)
  BY <1>3, PoppedSound DEF Top, Outer
<1>5. stack # <<>> => DOMAIN Top = BlockParts /\ Top.kind \in {"message", "enum", "service", "oneof", "extend"}
  BY <1>4 DEF Sound
<1> QED BY <1>2, <1>4, <1>5 DEF Top, Place

\* The scope of a declaration is that of the messages and the package around it.
LEMMA ScopeHere ==
  ASSUME Ready, Place \in {"file", "message", "extend"}
  PROVE  Scope = ScopeAround(cursor)
<1>1. /\ source \in Sources /\ cursor \in 1 .. Len(source) + 1 /\ package = PackageBefore(cursor)
      /\ PlacedBefore(cursor) /\ OnePackage(cursor)
  BY ReadyIs, FitPlaced DEF InOrderBefore
<1>2. /\ Owner(cursor) = 0 => ScopeAround(cursor) = PackageBefore(cursor)
      /\ Owner(cursor) # 0 /\ source[Owner(cursor)].is = "message"
           => ScopeAround(cursor) = FullName(Owner(cursor))
      /\ Owner(cursor) # 0 /\ source[Owner(cursor)].is # "message"
           => ScopeAround(cursor) = ScopeAround(Owner(cursor))
  BY <1>1, ScopeWithin
<1>3. CASE stack = <<>>
  BY <1>1, <1>2, <1>3, ReadyTop DEF Scope
<1>4. CASE stack # <<>>
  <2>1. /\ Owner(cursor) # 0 /\ source[Owner(cursor)].is = Top.kind /\ Place = Top.kind
        /\ BlockTracked(Top, Owner(cursor), cursor)
        /\ Place \in {"message", "enum", "service", "oneof", "extend"}
    BY <1>4, ReadyTop
  <2>2. /\ Top.kind = "message" => Top.name = FullName(Owner(cursor))
        /\ Top.kind = "extend" => Top.name = ScopeAround(Owner(cursor))
    BY <2>1 DEF BlockTracked
  <2>3. Top.kind = "message" \/ Top.kind = "extend"
    BY <2>1
  <2>4. Scope = Top.name
    BY <1>4 DEF Scope
  <2> QED BY <1>2, <2>1, <2>2, <2>3, <2>4
<1> QED BY <1>3, <1>4

\* What the builder refuses on account of one statement is defective.
LEMMA RefusesMisfit ==
  ASSUME Ready, Misfit(cursor)
  PROVE  Defective
BY ReadyIs DEF Defective

\* A refusal of what is defective is an outcome.
LEMMA RefuseOutcome ==
  ASSUME Refuse, Defective
  PROVE  Outcome
BY DEF Refuse, Outcome, FileSyntax

\* What is read is tracked; neither package nor imports change.
LEMMA ReadOutcome ==
  ASSUME Ready, NEW n, Follows(cursor, n), source[cursor].is \notin {"package", "import"},
         stage' = "building", cursor' = n, source' = source, limit' = limit, FileSyntax' = FileSyntax,
         package' = package, imports' = imports,
         StackTracked(stack', n), InOrderBefore(n), Made(built', n)
  PROVE  Outcome
<1>1. PackageBefore(n) = PackageBefore(cursor) /\ ImportedBefore(n) = ImportedBefore(cursor)
  BY ReadyIs, PackageKept, ImportedKept
<1>2. package' = PackageBefore(n) /\ imports' = ImportedBefore(n)
  BY <1>1, ReadyIs
<1>3. Tracked(cursor', stack', built', package', imports')
  BY <1>2 DEF Tracked
<1> QED BY <1>3 DEF Outcome

\* The blocks stay as they are.
LEMMA BlocksStay ==
  ASSUME Ready, NEW n, Follows(cursor, n), source[cursor].is \notin (Opening \ {"group"}) \cup {"end"},
         \A i \in Around(cursor) : cursor \notin FieldsIn(i),
         source[cursor].is \in PartSorts => Owner(cursor) = 0
  PROVE  StackTracked(stack, n)
<1>1. /\ source \in Sources /\ cursor \in 1 .. Len(source) /\ cursor \in Nat
      /\ StackTracked(stack, cursor) /\ cursor \in 1 .. Len(source) + 1
  BY ReadyIs
<1>2. Around(n) = Around(cursor) /\ Level(n - 1) = Level(cursor - 1)
  <2>1. CASE source[cursor].is = "group"
    BY <1>1, <2>1, AroundSkipped DEF Follows
  <2>2. CASE source[cursor].is # "group"
    <3>1. n = cursor + 1 /\ n - 1 = cursor
      BY <1>1, <2>2 DEF Follows
    <3>2. source[cursor].is \notin Opening \cup {"end"}
      BY <2>2
    <3> QED BY <1>1, <3>1, <3>2, AroundPlain, LevelStep
  <2> QED BY <2>1, <2>2
<1>3. ASSUME NEW i \in Around(cursor) PROVE SameContents(i, cursor, n)
  <2>1. i # 0
    BY <1>1, <1>3, AroundHas
  <2>2. source[cursor].is \in PartSorts => Owner(cursor) # i
    BY <2>1
  <2>3. source[cursor].is \notin Opening \ {"group"} /\ cursor \notin FieldsIn(i)
    BY <1>3
  <2> QED BY <1>1, <1>2, <2>2, <2>3, ContentsKept
<1> QED BY <1>1, <1>2, <1>3, StackSame

\* The innermost block is replaced by the same one with what was read.
LEMMA BlockReplaced ==
  ASSUME Ready, stack # <<>>, source[cursor].is \notin Opening \cup {"end"},
         NEW block, BlockTracked(block, Owner(cursor), cursor + 1),
         \A i \in Around(cursor) : i # Owner(cursor) => cursor \notin FieldsIn(i)
  PROVE  StackTracked(Append(Outer, block), cursor + 1)
<1> DEFINE t == Append(Outer, block)
<1>1. /\ source \in Sources /\ cursor \in 1 .. Len(source) /\ cursor \in Nat
      /\ StackTracked(stack, cursor) /\ cursor \in 1 .. Len(source) + 1 /\ IsStack(stack)
      /\ source[cursor].is # "group"
  BY ReadyIs DEF Opening
<1>2. Owner(cursor) \in Around(cursor) /\ Level(Owner(cursor)) = Len(stack)
  BY ReadyTop
<1>3. Around(cursor + 1) = Around(cursor) /\ Level(cursor) = Level(cursor - 1)
      /\ cursor + 1 - 1 = cursor /\ Follows(cursor, cursor + 1)
  BY <1>1, AroundPlain, LevelStep, ReadyIs
<1>4. /\ IsStack(Outer) /\ Len(Outer) = Len(stack) - 1 /\ Len(stack) \in Nat \ {0}
      /\ DOMAIN Outer = 1 .. Len(Outer)
  <2>1. IsStack(Outer) /\ Len(Outer) = Len(stack) - 1 /\ Len(stack) \in Nat \ {0}
    BY <1>1, PoppedStack DEF Outer
  <2> QED BY <2>1, AppendIs
<1>5. /\ Len(t) = Len(stack) /\ t[Len(stack)] = block
      /\ \A k \in 1 .. Len(stack) : k # Len(stack) => t[k] = stack[k]
  <2>1. Len(t) = Len(Outer) + 1
    BY <1>4, PushedStack
  <2>2. t = [n \in 1 .. Len(Outer) + 1 |-> IF n = Len(Outer) + 1 THEN block ELSE Outer[n]]
    BY <1>4, AppendIs
  <2>3. Len(Outer) + 1 = Len(stack) /\ Len(stack) \in 1 .. Len(stack)
    BY <1>4
  <2>4. \A k \in DOMAIN Outer : Outer[k] = stack[k]
    BY <1>1, PoppedElements DEF Outer
  <2>5. \A k \in 1 .. Len(stack) : k # Len(stack) => k \in 1 .. Len(Outer)
    BY <1>4
  <2> HIDE DEF t
  <2> QED BY <1>4, <2>1, <2>2, <2>3, <2>4, <2>5
<1>6. ASSUME NEW i \in Around(cursor), i # Owner(cursor) PROVE SameContents(i, cursor, cursor + 1)
  <2>1. source[cursor].is \notin Opening \ {"group"} /\ cursor \notin FieldsIn(i)
    BY <1>6
  <2> QED BY <1>1, <1>3, <1>6, <2>1, ContentsKept
<1> HIDE DEF t
<1>7. BlockTracked(t[Level(Owner(cursor))], Owner(cursor), cursor + 1)
  BY <1>2, <1>5
<1>8. PICK n : n = cursor + 1
  OBVIOUS
<1>9. Around(n) = Around(cursor) /\ Level(n - 1) = Level(cursor - 1)
      /\ BlockTracked(t[Level(Owner(cursor))], Owner(cursor), n)
      /\ \A i \in Around(cursor) : i # Owner(cursor) => SameContents(i, cursor, n)
  <2>1. n - 1 = cursor
    BY <1>1, <1>8
  <2> QED BY <1>3, <1>6, <1>7, <1>8, <2>1
<1>10. \A k \in 1 .. Len(stack) : k # Level(Owner(cursor)) => t[k] = stack[k]
  BY <1>2, <1>5
<1>11. PICK p : p = Owner(cursor)
  OBVIOUS
<1>12. StackTracked(t, n)
  BY <1>1, <1>2, <1>5, <1>9, <1>10, <1>11, StackChanged
<1> QED BY <1>8, <1>12 DEF t

\* Only fields are in messages or declare extensions.
LEMMA NoField ==
  ASSUME NEW c, source[c].is # "field"
  PROVE  c \notin ExtensionsAt /\ \A i : c \notin FieldsIn(i)
BY DEF ExtensionsAt, FieldsIn, All

\* What stays in order when a statement is read that nothing is compared with.
LEMMA OrderStays ==
  ASSUME Ready, NEW n, Follows(cursor, n), source[cursor].is # "field",
         source[cursor].is \notin {"end", "package", "rpc", "oneof"},
         ~Misfit(cursor), InPlace(cursor)
  PROVE  InOrderBefore(n)
BY ReadyIs, NoField, OrderPlain

\* A statement is where the builder looks for it, and in order but for what it says itself.
LEMMA PlacedHere ==
  ASSUME Ready,
         source[cursor].is = "package" => Place = "file",
         source[cursor].is = "reserved" => Place \in {"message", "enum"},
         source[cursor].is = "oneof" => Place = "message"
  PROVE  InPlace(cursor)
<1>1. CASE stack = <<>>
  BY <1>1, ReadyTop DEF InPlace
<1>2. CASE stack # <<>>
  BY <1>2, ReadyTop DEF InPlace
<1> QED BY <1>1, <1>2

\* Statements that are never out of order by themselves.
LEMMA AlwaysFit ==
  ASSUME NEW c, source[c].is \notin {"language", "field", "reserved", "extensions", "value", "extend", "group"}
  PROVE  ~Misfit(c)
BY DEF Misfit

\* A second package is refused, and the package of what follows is the first.
LEMMA PackageExact ==
  ASSUME Ready, Package
  PROVE  Outcome
<1>1. /\ source \in Sources /\ cursor \in 1 .. Len(source) /\ cursor \in Nat /\ cursor \in DOMAIN source
      /\ cursor \in 1 .. Len(source) + 1 /\ DOMAIN source = 1 .. Len(source) /\ Len(source) \in Nat
      /\ package = PackageBefore(cursor) /\ InOrderBefore(cursor) /\ Made(built, cursor)
      /\ imports = ImportedBefore(cursor) /\ Innermost(cursor, {"group"}) = 0
  BY ReadyIs, SourceIs
<1>2. source[cursor].is = "package" /\ Place = "file"
  BY DEF Package, At, Current
<1>3. Follows(cursor, cursor + 1) /\ cursor + 1 \in 1 .. Len(source) + 1 /\ cursor + 1 \in Nat
  BY <1>1, <1>2, ReadyIs
<1>4. cursor \in All("package")
  BY <1>1, <1>2 DEF All
<1>5. OnePackage(cursor)
  BY <1>1 DEF InOrderBefore
<1>6. CASE package # <<>>
  <2>1. Before(All("package"), cursor) # {}
    BY <1>1, <1>5, <1>6, PackageIs
  <2>2. PICK i \in All("package") : i < cursor
    BY <2>1 DEF Before
  <2>3. i # cursor
    BY <1>1, <2>2
  <2>4. IsFiniteSet({i, cursor}) /\ Cardinality({i, cursor}) = 2
    <3>1. IsFiniteSet({i}) /\ Cardinality({i}) = 1 /\ cursor \notin {i}
      BY <2>3, FS_Singleton
    <3>2. {i, cursor} = {i} \cup {cursor}
      OBVIOUS
    <3> QED BY <3>1, <3>2, FS_AddElement
  <2>5. All("package") \subseteq 1 .. Len(source) /\ IsFiniteSet(1 .. Len(source))
    BY <1>1, FS_Interval DEF All
  <2>6. IsFiniteSet(All("package"))
    BY <2>5, FS_Subset
  <2>7. {i, cursor} \subseteq All("package")
    BY <1>4, <2>2
  <2>8. Cardinality(All("package")) >= 2 /\ Cardinality(All("package")) \in Nat
    BY <2>4, <2>6, <2>7, FS_Subset, FS_CardinalityType
  <2>9. Defective
    BY <2>8 DEF Defective, Clashes
  <2> QED BY <1>6, <2>9, RefuseOutcome DEF Package
<1>7. CASE package = <<>>
  <2>1. /\ package' = source[cursor].name /\ cursor' = cursor + 1 /\ stage' = "building"
        /\ UNCHANGED <<source, limit, stack, imports, built>>
    BY <1>7 DEF Package, Advance, At, Current
  <2>2. Before(All("package"), cursor) = {}
    <3> SUFFICES ASSUME NEW j \in Before(All("package"), cursor) PROVE FALSE
      OBVIOUS
    <3> QED BY <1>1, <1>5, <1>7, PackageIs DEF Name
  <2>3. Before(All("package"), cursor + 1) = {cursor}
    <3>1. "package" # "group" /\ All("package") \subseteq All("package")
      OBVIOUS
    <3>2. Before(All("package"), cursor + 1) = Before(All("package"), cursor) \cup ({cursor} \cap All("package"))
      BY <1>1, <1>3, <3>1, BeforeGrows
    <3> QED BY <1>4, <2>2, <3>2
  <2>4. OnePackage(cursor + 1)
    BY <2>3 DEF OnePackage
  <2>5. package' = PackageBefore(cursor + 1)
    BY <1>1, <1>3, <2>1, <2>3, <2>4, PackageIs
  <2>6. imports' = ImportedBefore(cursor + 1)
    BY <1>1, <1>2, <1>3, <2>1, ImportedKept
  <2>7. source[cursor].is \notin (Opening \ {"group"}) \cup {"end"} /\ source[cursor].is \notin PartSorts
    BY <1>2 DEF Opening, PartSorts
  <2>8. StackTracked(stack', cursor + 1)
    BY <1>2, <1>3, <2>1, <2>7, NoField, BlocksStay
  <2>9. InOrderBefore(cursor + 1)
    <3>1. InPlace(cursor) /\ ~Misfit(cursor)
      BY <1>2, PlacedHere, AlwaysFit
    <3>2. /\ NamedApart("rpc", cursor) /\ NamedApart("oneof", cursor) /\ ExtendedApart(cursor)
          /\ EndedInOrder(cursor) /\ cursor \notin ExtensionsAt
          /\ "rpc" # "group" /\ "oneof" # "group" /\ source[cursor].is # "rpc" /\ source[cursor].is # "oneof"
          /\ source[cursor].is # "end"
      BY <1>1, <1>2, NoField DEF InOrderBefore
    <3>3. NamedApart("rpc", cursor + 1) /\ NamedApart("oneof", cursor + 1)
      BY <1>1, <1>3, <3>2, NamedKept
    <3>4. ExtendedApart(cursor + 1) /\ EndedInOrder(cursor + 1)
      BY <1>1, <1>3, <3>2, ExtendedKept, EndedOrderKept
    <3> QED BY <1>1, <1>3, <2>4, <3>1, <3>3, <3>4, OrderRead
  <2>10. Made(built', cursor + 1)
    BY <1>1, <1>2, <1>3, <2>1, NoField, MadeKept
  <2>11. Tracked(cursor', stack', built', package', imports')
    BY <2>1, <2>5, <2>6, <2>8, <2>9, <2>10 DEF Tracked
  <2> QED BY <2>1, <2>11 DEF Outcome, FileSyntax
<1> QED BY <1>6, <1>7

\* Imports are listed as they come.
LEMMA ImportExact ==
  ASSUME Ready, Import
  PROVE  Outcome
<1>1. /\ source \in Sources /\ cursor \in 1 .. Len(source)
      /\ package = PackageBefore(cursor) /\ Made(built, cursor)
      /\ imports = ImportedBefore(cursor) /\ Innermost(cursor, {"group"}) = 0
  BY ReadyIs
<1>2. /\ source[cursor].is = "import" /\ Follows(cursor, cursor + 1)
      /\ imports' = Append(imports, ImportAt(cursor)) /\ cursor' = cursor + 1 /\ stage' = "building"
      /\ UNCHANGED <<source, limit, stack, package, built>>
  BY ReadyIs DEF Import, At, Current, Advance, ImportAt
<1>3. source[cursor].is \notin (Opening \ {"group"}) \cup {"end"} /\ source[cursor].is \notin PartSorts
  BY <1>2 DEF Opening, PartSorts
<1>4. StackTracked(stack', cursor + 1)
  BY <1>2, <1>3, NoField, BlocksStay
<1>5. InPlace(cursor) /\ ~Misfit(cursor)
  BY <1>2, PlacedHere, AlwaysFit
<1>6. InOrderBefore(cursor + 1)
  BY <1>2, <1>5, OrderStays
<1>7. Made(built', cursor + 1)
  BY <1>1, <1>2, NoField, MadeKept
<1>8. package' = PackageBefore(cursor + 1) /\ imports' = ImportedBefore(cursor + 1)
  BY <1>1, <1>2, PackageKept, ImportedMore
<1>9. Tracked(cursor', stack', built', package', imports')
  BY <1>2, <1>4, <1>6, <1>7, <1>8 DEF Tracked
<1> QED BY <1>2, <1>9 DEF Outcome, FileSyntax

\* A part joins the innermost block.
LEMMA PartOutcome ==
  ASSUME Ready, stack # <<>>, source[cursor].is \in PartSorts,
         ~Misfit(cursor), InPlace(cursor), InOrderBefore(cursor + 1),
         NEW block, BlockTracked(block, Owner(cursor), cursor + 1), Within(block)
  PROVE  Outcome
<1>1. /\ source \in Sources /\ cursor \in 1 .. Len(source) /\ Made(built, cursor) /\ Owner(cursor) # 0
      /\ source[cursor].is # "group" /\ source[cursor].is # "field" /\ source[cursor].is # "end"
      /\ source[cursor].is \notin {"package", "import"}
      /\ source[cursor].is \notin Opening \cup {"end"}
  BY ReadyIs, ReadyTop DEF PartSorts, Opening
<1>2. /\ Follows(cursor, cursor + 1) /\ cursor' = cursor + 1 /\ stage' = "building"
      /\ stack' = Append(Outer, block)
      /\ UNCHANGED <<source, limit, package, imports, built>>
  BY <1>1, ReadyIs DEF Within, Advance, Ready
<1>3. StackTracked(stack', cursor + 1)
  BY <1>1, <1>2, NoField, BlockReplaced
<1>4. Made(built', cursor + 1)
  BY <1>1, <1>2, NoField, MadeKept
<1>5. FileSyntax' = FileSyntax
  BY <1>2 DEF FileSyntax
<1> QED BY <1>1, <1>2, <1>3, <1>4, <1>5, ReadOutcome

\* A feature is set, of the file or of the block around.
LEMMA FeatureExact ==
  ASSUME Ready, SetFeature
  PROVE  Outcome
<1>1. /\ source \in Sources /\ cursor \in 1 .. Len(source) /\ Made(built, cursor)
      /\ Innermost(cursor, {"group"}) = 0 /\ cursor \in Nat
  BY ReadyIs
<1>2. /\ source[cursor].is = "option" /\ Follows(cursor, cursor + 1) /\ source[cursor].is # "group"
      /\ Place \in {"file", "message", "enum"}
  BY ReadyIs DEF SetFeature, At, Current
<1>3. InPlace(cursor) /\ ~Misfit(cursor)
  BY <1>2, PlacedHere, AlwaysFit
<1>4. InOrderBefore(cursor + 1)
  BY <1>2, <1>3, OrderStays
<1>5. CASE Place = "file"
  <2> DEFINE options == Put(built.options, source[cursor].feature, source[cursor].value)
  <2>1. /\ built' = [built EXCEPT !.options = options] /\ cursor' = cursor + 1 /\ stage' = "building"
        /\ UNCHANGED <<source, limit, stack, package, imports>>
    BY <1>5 DEF SetFeature, At, Current, Advance
  <2>2. Owner(cursor) = 0
    BY <1>5, ReadyTop
  <2>3. source[cursor].is \notin (Opening \ {"group"}) \cup {"end"} /\ source[cursor].is # "end"
    BY <1>2 DEF Opening
  <2>4. StackTracked(stack', cursor + 1)
    BY <1>2, <2>1, <2>2, <2>3, NoField, BlocksStay
  <2>5. Before(Inside("option", 0), cursor + 1) = Before(Inside("option", 0), cursor) \cup {cursor}
    BY <1>1, <1>2, <2>2, InsideAdds
  <2>6. /\ Before(Inside("option", 0), cursor) \subseteq Nat
        /\ \A j \in Before(Inside("option", 0), cursor) : j < cursor
    BY <1>1, BeforeIs
  <2>7. LastSet(built.options, Before(Inside("option", 0), cursor))
    BY <1>1 DEF Made
  <2>8. LastSet(options, Before(Inside("option", 0), cursor + 1))
    <3>1. PICK S : S = Before(Inside("option", 0), cursor)
      OBVIOUS
    <3>2. S \subseteq Nat /\ LastSet(built.options, S) /\ \A j \in S : j < cursor
      BY <2>6, <2>7, <3>1
    <3>3. LastSet(options, S \cup {cursor})
      BY <1>1, <3>2, LastSetMore
    <3> QED BY <2>5, <3>1, <3>3
  <2>9. /\ Ended("message", cursor + 1) = Ended("message", cursor)
        /\ Ended("enum", cursor + 1) = Ended("enum", cursor)
        /\ Ended("service", cursor + 1) = Ended("service", cursor)
    BY <1>1, <1>2, <2>3, EndedKept DEF Described3
  <2>10. Before(OptionsAt, cursor + 1) = Before(OptionsAt, cursor)
         /\ Before(OthersAt, cursor + 1) = Before(OthersAt, cursor)
    <3>1. /\ OptionsAt \subseteq All("field") /\ OthersAt \subseteq All("field")
          /\ cursor \notin OptionsAt /\ cursor \notin OthersAt /\ "field" # "group"
      BY <1>2, NoField, ExtensionSorts
    <3>2. /\ Before(OptionsAt, cursor + 1) = Before(OptionsAt, cursor) \cup ({cursor} \cap OptionsAt)
          /\ Before(OthersAt, cursor + 1) = Before(OthersAt, cursor) \cup ({cursor} \cap OthersAt)
      BY <1>1, <1>2, <3>1, BeforeGrows
    <3> QED BY <3>1, <3>2
  <2>11. DOMAIN built = FileParts
    BY FileHas DEF Ready
  <2> HIDE DEF options
  <2>12. /\ built'.options = options /\ built'.syntax = built.syntax
         /\ built'.messages = built.messages /\ built'.enums = built.enums
         /\ built'.services = built.services /\ built'.custom_options = built.custom_options
         /\ built'.extensions = built.extensions
    BY <2>1, <2>11 DEF FileParts
  <2>13. Made(built', cursor + 1)
    BY <1>1, <2>8, <2>9, <2>10, <2>12 DEF Made
  <2>14. FileSyntax' = FileSyntax
    BY <2>12 DEF FileSyntax
  <2>15. source[cursor].is \notin {"package", "import"}
    BY <1>2
  <2> QED BY <1>2, <1>4, <2>1, <2>4, <2>13, <2>14, <2>15, ReadOutcome
<1>6. CASE Place # "file"
  <2> DEFINE block == [Top EXCEPT !.options = Put(@, source[cursor].feature, source[cursor].value)]
  <2>1. Within(block)
    BY <1>6 DEF SetFeature, At, Current
  <2>2. stack # <<>>
    BY <1>6, ReadyTop
  <2>3. /\ BlockTracked(Top, Owner(cursor), cursor) /\ DOMAIN Top = BlockParts
        /\ Top.kind \in {"message", "enum"} /\ source[cursor].is \in PartSorts
    BY <1>2, <1>6, <2>2, ReadyTop DEF PartSorts
  <2>4. BlockTracked(block, Owner(cursor), cursor + 1)
    BY <1>1, <1>2, <2>3, OptionTracked
  <2> HIDE DEF block
  <2> QED BY <1>3, <1>4, <2>1, <2>2, <2>3, <2>4, PartOutcome
<1> QED BY <1>5, <1>6

\* A block is opened.
LEMMA OpenOutcome ==
  ASSUME Ready, source[cursor].is \in Opening \ {"group"}, InOrderBefore(cursor + 1),
         NEW block, BlockTracked(block, cursor, cursor + 1), Open(block)
  PROVE  Outcome
<1>1. /\ source \in Sources /\ cursor \in 1 .. Len(source) /\ Made(built, cursor)
      /\ IsStack(stack) /\ StackTracked(stack, cursor)
      /\ source[cursor].is # "end" /\ source[cursor].is # "field" /\ source[cursor].is # "option"
      /\ source[cursor].is \notin {"package", "import"} /\ source[cursor].is # "group"
  BY ReadyIs DEF Opening
<1>2. /\ Follows(cursor, cursor + 1) /\ cursor' = cursor + 1 /\ stage' = "building"
      /\ stack' = Append(stack, block)
      /\ UNCHANGED <<source, limit, package, imports, built>>
  BY <1>1, ReadyIs DEF Open, Advance, Ready
<1>3. StackTracked(stack', cursor + 1)
  BY <1>1, <1>2, StackPushed
<1>4. Made(built', cursor + 1)
  BY <1>1, <1>2, NoField, MadeKept
<1>5. FileSyntax' = FileSyntax
  BY <1>2 DEF FileSyntax
<1> QED BY <1>1, <1>2, <1>3, <1>4, <1>5, ReadOutcome

\* Messages, enums and services open under their full names.
LEMMA DeclarationOpens ==
  ASSUME Ready, OpenMessage \/ OpenEnum \/ OpenService
  PROVE  Outcome
<1>1. /\ source[cursor].is \in {"message", "enum", "service"} /\ Place \in {"file", "message", "extend"}
      /\ Open(Opened(source[cursor].is, Append(Scope, source[cursor].name)))
  BY DEF OpenMessage, OpenEnum, OpenService, At, Current
<1>2. Append(Scope, source[cursor].name) = FullName(cursor)
  BY <1>1, ScopeHere DEF FullName
<1>3. /\ source \in Sources /\ cursor \in 1 .. Len(source)
      /\ source[cursor].is \in Opening \ {"group"} /\ source[cursor].is # "oneof"
      /\ source[cursor].is # "extend"
  BY <1>1, ReadyIs DEF Opening
<1> DEFINE block == Opened(source[cursor].is, FullName(cursor))
<1>4. BlockTracked(block, cursor, cursor + 1)
  BY <1>3, OpenedTracked
<1>5. InPlace(cursor) /\ ~Misfit(cursor)
  BY <1>1, PlacedHere, AlwaysFit
<1>6. InOrderBefore(cursor + 1)
  BY <1>1, <1>5, ReadyIs, OrderStays
<1>7. Open(block)
  BY <1>1, <1>2
<1> HIDE DEF block
<1> QED BY <1>3, <1>4, <1>6, <1>7, OpenOutcome

\* An extension of a message opens.
LEMMA ExtensionOpens ==
  ASSUME Ready, OpenExtend
  PROVE  Outcome
<1>1. source[cursor].is = "extend" /\ Place \in {"file", "message", "extend"}
  BY DEF OpenExtend, At, Current
<1>2. CASE Refuse
  <2>1. FileSyntax = "proto3" /\ ~IsOptionMessage(source[cursor].of)
    BY <1>2 DEF OpenExtend, Refuse, Open, Advance, Current, Ready
  <2>2. Misfit(cursor)
    BY <1>1, <2>1 DEF Misfit
  <2> QED BY <1>2, <2>2, RefusesMisfit, RefuseOutcome
<1>3. CASE ~Refuse
  <2> DEFINE block == [Opened("extend", ScopeAround(cursor)) EXCEPT
                         !.of = [source[cursor].of EXCEPT !.absolute = FALSE]]
  <2>1. ~(~IsOptionMessage(source[cursor].of) /\ FileSyntax = "proto3")
    BY <1>3 DEF OpenExtend, Current
  <2>2. ~Misfit(cursor)
    BY <1>1, <2>1 DEF Misfit
  <2>3. Scope = ScopeAround(cursor)
    BY <1>1, ScopeHere
  <2>4. Open(block)
    BY <1>3, <2>3 DEF OpenExtend, Current
  <2>5. source \in Sources /\ cursor \in 1 .. Len(source) /\ source[cursor].is \in Opening \ {"group"}
    BY <1>1, ReadyIs DEF Opening
  <2>6. BlockTracked(block, cursor, cursor + 1)
    BY <1>1, <2>5, ExtendTracked
  <2>7. InPlace(cursor)
    BY <1>1, PlacedHere
  <2>8. InOrderBefore(cursor + 1)
    BY <1>1, <2>2, <2>7, ReadyIs, OrderStays
  <2> HIDE DEF block
  <2> QED BY <2>4, <2>5, <2>6, <2>8, OpenOutcome
<1> QED BY <1>2, <1>3

\* A block that is around another has begun before what it contains.
LEMMA InsideEndsFirst ==
  ASSUME Ready, stack # <<>>, NEW j \in DOMAIN source, Owner(j) = Owner(cursor)
  PROVE  j \notin Around(cursor)
<1>1. /\ source \in Sources /\ cursor \in 1 .. Len(source) + 1 /\ Owner(cursor) # 0
      /\ Owner(cursor) \in Around(cursor)
  BY ReadyIs, ReadyTop
<1>2. SUFFICES ASSUME j \in Around(cursor) PROVE FALSE
  OBVIOUS
<1>3. Len(source) \in Nat /\ DOMAIN source = 1 .. Len(source)
  BY <1>1, SourceIs
<1>4. j \in 1 .. Len(source) /\ j \in 1 .. Len(source) + 1
  BY <1>3
<1>5. Owner(j) \in Around(j)
  BY <1>1, <1>4, OwnerIs
<1>6. Owner(cursor) < j /\ Owner(cursor) \in Nat
  BY <1>1, <1>4, <1>5, AroundHas
<1>7. j <= Owner(cursor)
  BY <1>1, <1>2, OwnerIs
<1> QED BY <1>3, <1>4, <1>6, <1>7

\* Oneofs of a message have names of their own.
LEMMA OneofOpens ==
  ASSUME Ready, OpenOneof
  PROVE  Outcome
<1>1. source[cursor].is = "oneof" /\ Place = "message"
  BY DEF OpenOneof, At, Current
<1>2. stack # <<>>
  BY <1>1, ReadyTop
<1>3. PICK m : m = Owner(cursor)
  OBVIOUS
<1>4. /\ source \in Sources /\ cursor \in 1 .. Len(source) /\ cursor \in Nat /\ cursor \in DOMAIN source
      /\ cursor \in 1 .. Len(source) + 1 /\ Innermost(cursor, {"group"}) = 0 /\ InOrderBefore(cursor)
  BY ReadyIs
<1>5. /\ m \in Around(cursor) /\ source[m].is = "message" /\ Top.kind = "message"
      /\ BlockTracked(Top, m, cursor)
  BY <1>1, <1>2, <1>3, ReadyTop
<1>6. m \in All("message")
  BY <1>4, <1>5, OutsideGroups
<1>7. Top.oneofs = {source[o].name : o \in Before(Inside("oneof", m), cursor) \ Around(cursor)}
  BY <1>5 DEF BlockTracked, MessageTracked
<1>8. cursor \in Inside("oneof", m)
  BY <1>1, <1>3, <1>4 DEF Inside, All
<1>9. CASE source[cursor].name \in Top.oneofs
  <2>1. PICK o \in Before(Inside("oneof", m), cursor) : source[o].name = source[cursor].name
    BY <1>7, <1>9
  <2>2. o \in Inside("oneof", m) /\ o # cursor
    BY <1>4, <2>1 DEF Before
  <2>3. MessageClashes(m)
    <3>1. cursor \in Inside("oneof", m) \ {o}
      BY <1>8, <2>2
    <3> QED BY <2>1, <2>2, <3>1 DEF MessageClashes
  <2>4. Defective
    BY <1>6, <2>3 DEF Defective, Clashes
  <2> QED BY <1>9, <2>4, RefuseOutcome DEF OpenOneof, Current
<1>10. CASE source[cursor].name \notin Top.oneofs
  <2> DEFINE block == Opened(source[cursor].is, source[cursor].name)
  <2>1. Open(block)
    BY <1>1, <1>10 DEF OpenOneof, Current
  <2>2. /\ source[cursor].is \in Opening \ {"group"} /\ source[cursor].is # "extend"
        /\ source[cursor].is \notin {"message", "enum", "service"}
    BY <1>1 DEF Opening
  <2>3. BlockTracked(block, cursor, cursor + 1)
    BY <1>4, <2>2, OpenedTracked
  <2>4. InPlace(cursor) /\ ~Misfit(cursor)
    BY <1>1, PlacedHere, AlwaysFit
  <2>5. Follows(cursor, cursor + 1) /\ cursor \notin ExtensionsAt
    BY <1>1, ReadyIs, NoField
  <2>6. /\ NamedApart("oneof", cursor) /\ NamedApart("rpc", cursor) /\ OnePackage(cursor)
        /\ ExtendedApart(cursor) /\ EndedInOrder(cursor)
    BY <1>4 DEF InOrderBefore
  <2>7. NamedApart("oneof", cursor + 1)
    <3>1. ASSUME NEW j \in Before(All("oneof"), cursor)
          PROVE  ~(Owner(j) = Owner(cursor) /\ source[j].name = source[cursor].name)
      <4>1. SUFFICES ASSUME Owner(j) = Owner(cursor) PROVE source[j].name # source[cursor].name
        OBVIOUS
      <4>2. j \in DOMAIN source /\ j \in Before(Inside("oneof", m), cursor)
        BY <1>3, <3>1, <4>1 DEF Before, Inside, All
      <4>3. j \notin Around(cursor)
        BY <1>2, <4>1, <4>2, InsideEndsFirst
      <4>4. source[j].name \in Top.oneofs
        BY <1>7, <4>2, <4>3
      <4> QED BY <1>10, <4>4
    <3>2. "oneof" # "group"
      OBVIOUS
    <3> QED BY <1>4, <2>5, <2>6, <3>1, <3>2, NamedMore
  <2>8. NamedApart("rpc", cursor + 1) /\ OnePackage(cursor + 1)
    BY <1>1, <1>4, <2>5, <2>6, NamedKept, OnePackageKept
  <2>9. ExtendedApart(cursor + 1) /\ EndedInOrder(cursor + 1)
    BY <1>1, <1>4, <2>5, <2>6, ExtendedKept, EndedOrderKept
  <2>10. InOrderBefore(cursor + 1)
    BY <1>4, <2>4, <2>5, <2>7, <2>8, <2>9, OrderRead
  <2> HIDE DEF block
  <2> QED BY <2>1, <2>2, <2>3, <2>10, OpenOutcome
<1> QED BY <1>9, <1>10

\* A group is passed over.
LEMMA GroupExact ==
  ASSUME Ready, SkipGroup
  PROVE  Outcome
<1>1. source[cursor].is = "group" /\ Place \in {"message", "extend"}
  BY DEF SkipGroup, At, Current
<1>2. stack # <<>>
  BY <1>1, ReadyTop
<1>3. /\ source \in Sources /\ cursor \in 1 .. Len(source) /\ cursor \in Nat /\ Len(source) \in Nat
      /\ Made(built, cursor) /\ source[Owner(cursor)].is = Place
  BY <1>2, ReadyIs, ReadyTop
<1>4. CASE GroupRefused(source[cursor].label, Place)
  <2>1. Misfit(cursor)
    BY <1>1, <1>3, <1>4 DEF Misfit
  <2> QED BY <1>4, <2>1, RefusesMisfit, RefuseOutcome DEF SkipGroup, Current
<1>5. CASE ~GroupRefused(source[cursor].label, Place)
  <2>1. ~Misfit(cursor) /\ InPlace(cursor)
    BY <1>1, <1>3, <1>5, PlacedHere DEF Misfit
  <2>2. PICK end \in cursor + 1 .. Len(source) :
          /\ Level(end) = Level(cursor - 1)
          /\ \A i \in cursor .. end - 1 : Level(i) > Level(cursor - 1)
          /\ cursor' = end + 1
    BY <1>5 DEF SkipGroup, Current, Level
  <2>3. PICK n : n = end + 1
    OBVIOUS
  <2>4. n \in Nat /\ n - 1 = end /\ n - 2 = end - 1
    BY <1>3, <2>2, <2>3
  <2>5. Follows(cursor, n)
    BY <1>1, <2>2, <2>4 DEF Follows
  <2>6. stage' = "building" /\ cursor' = n /\ UNCHANGED <<source, limit, stack, package, imports, built>>
    BY <1>5, <2>2, <2>3 DEF SkipGroup, Current, Ready
  <2>7. source[cursor].is \notin (Opening \ {"group"}) \cup {"end"} /\ source[cursor].is \notin PartSorts
    BY <1>1 DEF Opening, PartSorts
  <2>8. StackTracked(stack', n)
    BY <1>1, <2>5, <2>6, <2>7, NoField, BlocksStay
  <2>9. InOrderBefore(n)
    BY <1>1, <2>1, <2>5, OrderStays
  <2>10. Made(built', n)
    BY <1>1, <1>3, <2>5, <2>6, NoField, MadeKept
  <2>11. FileSyntax' = FileSyntax
    BY <2>6 DEF FileSyntax
  <2> QED BY <1>1, <2>5, <2>6, <2>8, <2>9, <2>10, <2>11, ReadOutcome
<1> QED BY <1>4, <1>5

\* What is read in a block and compared with nothing else.
LEMMA PlainPart ==
  ASSUME Ready, stack # <<>>, source[cursor].is \in PartSorts \ {"rpc"}, ~Misfit(cursor), InPlace(cursor),
         NEW block, BlockTracked(block, Owner(cursor), cursor + 1), Within(block)
  PROVE  Outcome
<1>1. source[cursor].is # "field" /\ source[cursor].is \notin {"end", "package", "rpc", "oneof"}
      /\ source[cursor].is # "group" /\ source[cursor].is \in PartSorts
  BY DEF PartSorts
<1>2. InOrderBefore(cursor + 1)
  BY <1>1, ReadyIs, OrderStays
<1> QED BY <1>1, <1>2, PartOutcome

\* Names and ranges are reserved.
LEMMA ReservedExact ==
  ASSUME Ready, Reserve
  PROVE  Outcome
<1>1. source[cursor].is = "reserved" /\ Place \in {"message", "enum"}
  BY DEF Reserve, At, Current
<1>2. stack # <<>>
  BY <1>1, ReadyTop
<1>3. /\ source \in Sources /\ cursor \in 1 .. Len(source) /\ Innermost(cursor, {"group"}) = 0
      /\ source[Owner(cursor)].is = Place /\ BlockTracked(Top, Owner(cursor), cursor)
      /\ DOMAIN Top = BlockParts /\ Top.kind = Place
  BY <1>2, ReadyIs, ReadyTop
<1>4. CASE RangesRefused(source[cursor].ranges, Reservable(Place))
  <2>1. Misfit(cursor)
    BY <1>1, <1>3, <1>4 DEF Misfit
  <2> QED BY <1>4, <2>1, RefusesMisfit, RefuseOutcome DEF Reserve, Current
<1>5. CASE ~RangesRefused(source[cursor].ranges, Reservable(Place))
  <2> DEFINE block == [Top EXCEPT !.names = @ \o source[cursor].names, !.ranges = @ \o source[cursor].ranges]
  <2>1. ~Misfit(cursor) /\ InPlace(cursor)
    BY <1>1, <1>3, <1>5, PlacedHere DEF Misfit
  <2>2. Within(block)
    BY <1>5 DEF Reserve, Current
  <2>3. BlockTracked(block, Owner(cursor), cursor + 1)
    BY <1>1, <1>3, ReservedTracked
  <2>4. source[cursor].is \in PartSorts \ {"rpc"}
    BY <1>1 DEF PartSorts
  <2> HIDE DEF block
  <2> QED BY <1>2, <2>1, <2>2, <2>3, <2>4, PlainPart
<1> QED BY <1>4, <1>5

\* Numbers are given to extensions.
LEMMA ExtensionRangesExact ==
  ASSUME Ready, ReserveExtensions
  PROVE  Outcome
<1>1. source[cursor].is = "extensions" /\ Place = "message"
  BY DEF ReserveExtensions, At, Current
<1>2. stack # <<>>
  BY <1>1, ReadyTop
<1>3. /\ source \in Sources /\ cursor \in 1 .. Len(source) /\ Innermost(cursor, {"group"}) = 0
      /\ source[Owner(cursor)].is = Place /\ BlockTracked(Top, Owner(cursor), cursor)
      /\ DOMAIN Top = BlockParts /\ Top.kind = "message"
  BY <1>1, <1>2, ReadyIs, ReadyTop
<1>4. Reservable(Place) = 1 .. MaxNumber
  BY <1>1 DEF Reservable
<1>5. Misfit(cursor) <=> FileSyntax = "proto3" \/ RangesRefused(source[cursor].ranges, Reservable(Place))
  BY <1>1, <1>4 DEF Misfit
<1>6. CASE Misfit(cursor)
  BY <1>5, <1>6, RefusesMisfit, RefuseOutcome DEF ReserveExtensions, Current
<1>7. CASE ~Misfit(cursor)
  <2> DEFINE block == [Top EXCEPT !.extension_ranges = @ \cup ExtensionRangesAt(cursor)]
  <2>1. Within(block)
    BY <1>5, <1>7 DEF ReserveExtensions, Current, ExtensionRangesAt
  <2>2. BlockTracked(block, Owner(cursor), cursor + 1)
    BY <1>1, <1>3, ExtensionsTracked
  <2>3. source[cursor].is \in PartSorts \ {"rpc"} /\ InPlace(cursor)
    BY <1>1, PlacedHere DEF PartSorts
  <2> HIDE DEF block
  <2> QED BY <1>2, <1>7, <2>1, <2>2, <2>3, PlainPart
<1> QED BY <1>6, <1>7

\* Values are listed as they come.
LEMMA ValueExact ==
  ASSUME Ready, DeclareValue
  PROVE  Outcome
<1>1. source[cursor].is = "value" /\ Place = "enum"
  BY DEF DeclareValue, At, Current
<1>2. stack # <<>>
  BY <1>1, ReadyTop
<1>3. /\ source \in Sources /\ cursor \in 1 .. Len(source) /\ Innermost(cursor, {"group"}) = 0
      /\ BlockTracked(Top, Owner(cursor), cursor) /\ DOMAIN Top = BlockParts /\ Top.kind = "enum"
      /\ cursor \in DOMAIN source
  BY <1>1, <1>2, ReadyIs, ReadyTop
<1>4. Misfit(cursor) <=> source[cursor].number \notin EnumNumbers
  BY <1>1 DEF Misfit
<1>5. CASE Misfit(cursor)
  BY <1>4, <1>5, RefusesMisfit, RefuseOutcome DEF DeclareValue, Current
<1>6. CASE ~Misfit(cursor)
  <2> DEFINE block == [Top EXCEPT !.values = Append(@, ValuesAt[cursor])]
  <2>1. ValuesAt[cursor] = [name |-> source[cursor].name, number |-> source[cursor].number]
    BY <1>3 DEF ValuesAt
  <2>2. Within(block)
    BY <1>4, <1>6, <2>1 DEF DeclareValue, Current
  <2>3. BlockTracked(block, Owner(cursor), cursor + 1)
    BY <1>1, <1>3, ValueTracked
  <2>4. source[cursor].is \in PartSorts \ {"rpc"} /\ InPlace(cursor)
    BY <1>1, PlacedHere DEF PartSorts
  <2> HIDE DEF block
  <2> QED BY <1>2, <1>6, <2>2, <2>3, <2>4, PlainPart
<1> QED BY <1>5, <1>6

\* The last setting of allow_alias counts.
LEMMA AliasExact ==
  ASSUME Ready, AllowAlias
  PROVE  Outcome
<1>1. source[cursor].is = "allow_alias" /\ Place = "enum"
  BY DEF AllowAlias, At, Current
<1>2. stack # <<>>
  BY <1>1, ReadyTop
<1>3. /\ source \in Sources /\ cursor \in 1 .. Len(source) /\ Innermost(cursor, {"group"}) = 0
      /\ BlockTracked(Top, Owner(cursor), cursor) /\ DOMAIN Top = BlockParts /\ Top.kind = "enum"
  BY <1>1, <1>2, ReadyIs, ReadyTop
<1> DEFINE block == [Top EXCEPT !.allow_alias = source[cursor].value]
<1>4. Within(block)
  BY DEF AllowAlias, Current
<1>5. BlockTracked(block, Owner(cursor), cursor + 1)
  BY <1>1, <1>3, AliasTracked
<1>6. source[cursor].is \in PartSorts \ {"rpc"} /\ InPlace(cursor) /\ ~Misfit(cursor)
  BY <1>1, PlacedHere, AlwaysFit DEF PartSorts
<1> HIDE DEF block
<1> QED BY <1>2, <1>4, <1>5, <1>6, PlainPart

\* Methods of a service have names of their own.
LEMMA MethodExact ==
  ASSUME Ready, DeclareMethod
  PROVE  Outcome
<1>1. source[cursor].is = "rpc" /\ Place = "service"
  BY DEF DeclareMethod, At, Current
<1>2. stack # <<>>
  BY <1>1, ReadyTop
<1>3. /\ source \in Sources /\ cursor \in 1 .. Len(source) /\ Innermost(cursor, {"group"}) = 0
      /\ BlockTracked(Top, Owner(cursor), cursor) /\ DOMAIN Top = BlockParts /\ Top.kind = "service"
      /\ cursor \in DOMAIN source /\ cursor \in Nat /\ InOrderBefore(cursor)
  BY <1>1, <1>2, ReadyIs, ReadyTop
<1>4. PICK S : S = Before(Inside("rpc", Owner(cursor)), cursor)
  OBVIOUS
<1>5. Lists(Top.methods, S, source) /\ S \subseteq Nat
  BY <1>3, <1>4, TrackedBy, BeforeIs
<1>6. PICK q : FromPositions(Top.methods, S, source, q)
  BY <1>5, ListsEach
<1>7. /\ \A a \in DOMAIN Top.methods : q[a] \in S /\ Top.methods[a] = source[q[a]]
      /\ \A j \in S : \E a \in DOMAIN Top.methods : q[a] = j
  BY <1>6 DEF FromPositions
<1>8. cursor \in All("rpc")
  BY <1>1, <1>3 DEF All
<1>9. CASE \E i \in DOMAIN Top.methods : Top.methods[i].name = source[cursor].name
  <2>1. PICK i \in DOMAIN Top.methods : Top.methods[i].name = source[cursor].name
    BY <1>9
  <2>2. q[i] \in S /\ source[q[i]].name = source[cursor].name
    BY <1>7, <2>1
  <2>3. q[i] \in All("rpc") /\ Owner(q[i]) = Owner(cursor) /\ q[i] # cursor
    BY <1>3, <1>4, <2>2 DEF Before, Inside
  <2>4. Defective
    BY <1>8, <2>2, <2>3 DEF Defective, Clashes
  <2> QED BY <1>9, <2>4, RefuseOutcome DEF DeclareMethod, Current
<1>10. CASE ~\E i \in DOMAIN Top.methods : Top.methods[i].name = source[cursor].name
  <2> DEFINE block == [Top EXCEPT !.methods = Append(@, source[cursor])]
  <2>1. Within(block)
    BY <1>10 DEF DeclareMethod, Current
  <2>2. BlockTracked(block, Owner(cursor), cursor + 1)
    BY <1>1, <1>3, MethodTracked
  <2>3. source[cursor].is \in PartSorts /\ InPlace(cursor) /\ ~Misfit(cursor)
    BY <1>1, PlacedHere, AlwaysFit DEF PartSorts
  <2>4. Follows(cursor, cursor + 1) /\ cursor \notin ExtensionsAt
    BY <1>1, ReadyIs, NoField
  <2>5. /\ NamedApart("oneof", cursor) /\ NamedApart("rpc", cursor) /\ OnePackage(cursor)
        /\ ExtendedApart(cursor) /\ EndedInOrder(cursor)
    BY <1>3 DEF InOrderBefore
  <2>6. NamedApart("rpc", cursor + 1)
    <3>1. ASSUME NEW j \in Before(All("rpc"), cursor)
          PROVE  ~(Owner(j) = Owner(cursor) /\ source[j].name = source[cursor].name)
      <4>1. SUFFICES ASSUME Owner(j) = Owner(cursor) PROVE source[j].name # source[cursor].name
        OBVIOUS
      <4>2. j \in S
        BY <1>4, <3>1, <4>1 DEF Before, Inside
      <4> QED BY <1>7, <1>10, <4>2
    <3>2. "rpc" # "group"
      OBVIOUS
    <3> QED BY <1>3, <2>4, <2>5, <3>1, <3>2, NamedMore
  <2>7. NamedApart("oneof", cursor + 1) /\ OnePackage(cursor + 1)
    BY <1>1, <1>3, <2>4, <2>5, NamedKept, OnePackageKept
  <2>8. ExtendedApart(cursor + 1) /\ EndedInOrder(cursor + 1)
    BY <1>1, <1>3, <2>4, <2>5, ExtendedKept, EndedOrderKept
  <2>9. InOrderBefore(cursor + 1)
    BY <1>3, <2>3, <2>4, <2>6, <2>7, <2>8, OrderRead
  <2> HIDE DEF block
  <2> QED BY <1>2, <2>1, <2>2, <2>3, <2>9, PartOutcome
<1> QED BY <1>9, <1>10

-----------------------------------------------------------------------------
(* Fields.                                                                 *)

\* The message around a oneof is the block below it.
LEMMA OneofAt ==
  ASSUME Ready, Place = "oneof"
  PROVE  LET o == Owner(cursor)
             m == Owner(o)
         IN  /\ stack # <<>> /\ o \in Inside("oneof", m) /\ m \in Around(cursor) /\ m # o /\ m \in Around(o)
             /\ source[m].is = "message" /\ source[o].is = "oneof"
             /\ Level(m) = Len(stack) - 1 /\ Len(stack) - 1 \in 1 .. Len(stack) - 1
             /\ BlockTracked(stack[Len(stack) - 1], m, cursor)
             /\ Around(cursor) = Around(o) \cup {o} /\ \A i \in Around(o) : i <= m
<1>1. stack # <<>>
  BY ReadyTop
<1>2. PICK o : o = Owner(cursor)
  OBVIOUS
<1>3. PICK m : m = Owner(o)
  OBVIOUS
<1>4. /\ source \in Sources /\ cursor \in 1 .. Len(source) + 1 /\ cursor \in Nat
      /\ Innermost(cursor, {"group"}) = 0 /\ InOrderBefore(cursor)
      /\ StackTracked(stack, cursor) /\ IsStack(stack) /\ Len(source) \in Nat
  BY ReadyIs
<1>5. o \in Around(cursor) /\ o # 0 /\ source[o].is = "oneof" /\ Level(o) = Len(stack)
  BY <1>1, <1>2, ReadyTop
<1>6. Len(stack) \in Nat
  BY <1>4, LengthOfStack
<1>7. o \in DOMAIN source /\ Innermost(o, {"group"}) = 0 /\ o \in All("oneof") /\ o < cursor
      /\ o \in 1 .. Len(source) + 1 /\ o \in Nat /\ o \in 1 .. cursor
  <2>1. o \in DOMAIN source /\ Innermost(o, {"group"}) = 0 /\ o \in All("oneof")
    BY <1>4, <1>5, OutsideGroups
  <2>2. o < cursor /\ o \in Nat /\ o \in 1 .. Len(source)
    BY <1>4, <1>5, AroundHas
  <2> QED BY <1>4, <2>1, <2>2
<1>8. m # 0 /\ source[m].is = "message"
  <2>1. InPlace(o)
    BY <1>4, <1>7 DEF InOrderBefore, FitBefore
  <2> QED BY <1>3, <1>5, <2>1 DEF InPlace
<1>9. m \in Around(o) /\ \A i \in Around(o) : i <= m
  BY <1>3, <1>7, <1>8, <1>4, OwnerIs
<1>10. m \in Around(cursor)
  BY <1>4, <1>5, <1>9, AroundOuter
<1>11. m \in Nat /\ m < o /\ Level(m) \in Nat
  BY <1>4, <1>7, <1>9, AroundHas
<1>12. Level(m) < Level(o) /\ Level(m) \in 1 .. Level(cursor - 1)
  BY <1>4, <1>5, <1>10, <1>11, AroundLevels, AroundHas
<1>13. Len(stack) - 1 \in 1 .. Len(stack) - 1 /\ Len(stack) - 1 \in 1 .. Len(stack) /\ Len(stack) - 1 \in Nat
  BY <1>5, <1>6, <1>11, <1>12
<1>14. Level(m) = Len(stack) - 1
  <2>1. PICK i \in Around(cursor) : Level(i) = Len(stack) - 1
    BY <1>4, <1>13 DEF StackTracked
  <2>2. i <= o /\ i # o /\ i \in Nat
    <3>1. Level(i) <= Level(o) /\ Level(i) # Level(o)
      BY <1>5, <1>6, <2>1
    <3>2. i \in Nat
      BY <1>4, <2>1, AroundHas
    <3> QED BY <1>4, <1>5, <2>1, <3>1, <3>2, AroundLevels
  <2>3. i \in Around(o)
    BY <1>4, <1>7, <2>1, <2>2, AroundEarlier
  <2>4. i <= m
    BY <1>9, <2>3
  <2>5. i < m \/ i = m
    BY <1>11, <2>2, <2>4
  <2>6. Level(i) <= Level(m)
    BY <1>4, <1>10, <1>11, <2>1, <2>5, AroundLevels
  <2> QED BY <1>5, <1>6, <1>11, <1>12, <2>1, <2>6
<1>15. BlockTracked(stack[Len(stack) - 1], m, cursor)
  BY <1>4, <1>10, <1>14 DEF StackTracked
<1>16. Around(cursor) = Around(o) \cup {o}
  BY <1>2, <1>4, <1>5, AroundOwner
<1>17. o \in Inside("oneof", m)
  BY <1>3, <1>7 DEF Inside
<1>18. m # o
  BY <1>7, <1>11
<1> QED BY <1>1, <1>2, <1>3, <1>5, <1>8, <1>9, <1>10, <1>13, <1>14, <1>15, <1>16, <1>17, <1>18

\* The message that a field is in.
LEMMA FieldOwner ==
  ASSUME Ready, source[cursor].is = "field"
  PROVE  /\ Place = "message" => /\ cursor \in FieldsIn(Owner(cursor))
                                 /\ \A i : i # Owner(cursor) => cursor \notin FieldsIn(i)
         /\ Place = "oneof" => /\ cursor \in FieldsIn(Owner(Owner(cursor)))
                               /\ \A i : i # Owner(Owner(cursor)) => cursor \notin FieldsIn(i)
         /\ Place = "extend" => \A i : cursor \notin FieldsIn(i)
         /\ Place \in {"message", "oneof"} => cursor \notin ExtensionsAt
         /\ Place = "extend" => cursor \in ExtensionsAt
<1>1. /\ source \in Sources /\ cursor \in 1 .. Len(source) + 1 /\ cursor \in DOMAIN source
      /\ Innermost(cursor, {"group"}) = 0
  BY ReadyIs
<1>2. cursor \in All("field")
  BY <1>1 DEF All
<1>3. \A i : cursor \in FieldsIn(i) <=> Innermost(cursor, {"message", "extend"}) = i /\ source[i].is = "message"
  BY <1>2 DEF FieldsIn
<1>4. Place # "file" => Owner(cursor) \in Around(cursor) /\ source[Owner(cursor)].is = Place
                        /\ \A i \in Around(cursor) : i <= Owner(cursor)
  BY <1>1, ReadyTop, OwnerIs
<1>5. Place \in {"message", "extend"} => Innermost(cursor, {"message", "extend"}) = Owner(cursor)
  BY <1>1, <1>4, InnermostUnique
<1>6. ASSUME Place = "oneof" PROVE Innermost(cursor, {"message", "extend"}) = Owner(Owner(cursor))
                                   /\ source[Owner(Owner(cursor))].is = "message"
  <2>1. PICK o, m : o = Owner(cursor) /\ m = Owner(o)
    OBVIOUS
  <2>2. /\ m \in Around(cursor) /\ source[m].is = "message" /\ source[o].is = "oneof"
        /\ Around(cursor) = Around(o) \cup {o} /\ \A i \in Around(o) : i <= m
    BY <1>6, <2>1, OneofAt
  <2>3. \A i \in Around(cursor) : source[i].is \in {"message", "extend"} => i <= m
    BY <2>2
  <2>4. Innermost(cursor, {"message", "extend"}) = m
    BY <1>1, <2>2, <2>3, InnermostUnique
  <2> QED BY <2>1, <2>2, <2>4
<1>7. Place # "file" => (cursor \in ExtensionsAt <=> Place = "extend")
  BY <1>2, <1>4 DEF ExtensionsAt
<1> QED BY <1>3, <1>4, <1>5, <1>6, <1>7

\* A field has been read into a message.
LEMMA FieldOutcome ==
  ASSUME Ready, source[cursor].is = "field", cursor \notin ExtensionsAt, ~Misfit(cursor),
         StackTracked(stack', cursor + 1), Advance, UNCHANGED <<package, imports, built>>
  PROVE  Outcome
<1>1. /\ source \in Sources /\ cursor \in 1 .. Len(source) /\ Made(built, cursor)
      /\ InOrderBefore(cursor) /\ Follows(cursor, cursor + 1) /\ stage = "building"
      /\ source[cursor].is \notin {"end", "package", "rpc", "oneof"}
      /\ source[cursor].is \notin {"package", "import"} /\ source[cursor].is # "option"
      /\ source[cursor].is # "end"
  BY ReadyIs DEF Ready
<1>2. InPlace(cursor)
  BY PlacedHere
<1>3. InOrderBefore(cursor + 1)
  BY <1>1, <1>2, OrderPlain
<1>4. Made(built', cursor + 1)
  BY <1>1, MadeKept
<1>5. FileSyntax' = FileSyntax
  BY DEF FileSyntax
<1> QED BY <1>1, <1>3, <1>4, <1>5, ReadOutcome DEF Advance

\* A field of a message.
LEMMA FieldExact ==
  ASSUME Ready, DeclareField
  PROVE  Outcome
<1>1. source[cursor].is = "field" /\ Place = "message"
  BY DEF DeclareField, At, Current
<1>2. stack # <<>>
  BY <1>1, ReadyTop
<1>3. PICK m : m = Owner(cursor)
  OBVIOUS
<1>4. /\ source \in Sources /\ cursor \in 1 .. Len(source) /\ cursor \in DOMAIN source
      /\ source[m].is = "message" /\ BlockTracked(Top, m, cursor)
      /\ DOMAIN Top = BlockParts /\ Top.kind = "message"
  BY <1>1, <1>2, <1>3, ReadyIs, ReadyTop
<1>5. LabelOf(cursor) = source[cursor].label /\ OneofAround(cursor) = None
  BY <1>3, <1>4 DEF LabelOf, OneofAround
<1>6. Misfit(cursor) <=> Mislabelled(source[cursor].label) \/ FieldRefused(source[cursor], source[cursor].label, None)
  BY <1>1, <1>3, <1>4, <1>5 DEF Misfit, FieldMisfit
<1>7. CASE Misfit(cursor)
  BY <1>6, <1>7, RefusesMisfit, RefuseOutcome DEF DeclareField, Current
<1>8. CASE ~Misfit(cursor)
  <2> DEFINE block == [Top EXCEPT !.fields = Append(@, Descriptions[cursor])]
  <2>1. Descriptions[cursor] = Described(source[cursor], source[cursor].label, None)
    BY <1>4, <1>5 DEF Descriptions
  <2>2. Within(block)
    BY <1>6, <1>8, <2>1 DEF DeclareField, Current
  <2>3. cursor \in FieldsIn(m) /\ \A i : i # m => cursor \notin FieldsIn(i)
    BY <1>1, <1>3, FieldOwner
  <2>4. BlockTracked(block, Owner(cursor), cursor + 1)
    BY <1>1, <1>3, <1>4, <2>3, FieldTracked
  <2> HIDE DEF block
  <2>5. source[cursor].is \notin Opening \cup {"end"}
    BY <1>1 DEF Opening
  <2>6. StackTracked(stack', cursor + 1)
    BY <1>2, <1>3, <2>2, <2>3, <2>4, <2>5, BlockReplaced DEF Within
  <2>7. cursor \notin ExtensionsAt
    BY <1>1, FieldOwner
  <2> QED BY <1>1, <1>8, <2>2, <2>6, <2>7, FieldOutcome DEF Within
<1> QED BY <1>7, <1>8

\* A member of a oneof joins the fields of the message around it.
LEMMA MemberExact ==
  ASSUME Ready, DeclareMember
  PROVE  Outcome
<1>1. source[cursor].is = "field" /\ Place = "oneof"
  BY DEF DeclareMember, At, Current
<1>2. PICK o : o = Owner(cursor)
  OBVIOUS
<1>3. PICK m : m = Owner(o)
  OBVIOUS
<1>4. PICK k : k = Len(stack) - 1
  OBVIOUS
<1>5. /\ stack # <<>> /\ m \in Around(cursor) /\ source[m].is = "message" /\ source[o].is = "oneof"
      /\ Level(m) = k /\ BlockTracked(stack[k], m, cursor) /\ k \in 1 .. k
  BY <1>1, <1>2, <1>3, <1>4, OneofAt
<1>6. /\ source \in Sources /\ cursor \in 1 .. Len(source) /\ cursor \in DOMAIN source /\ cursor \in Nat
      /\ StackTracked(stack, cursor) /\ IsStack(stack) /\ cursor \in 1 .. Len(source) + 1
      /\ source[cursor].is # "group"
  BY <1>1, ReadyIs
<1>7. Top.name = source[o].name
  <2>1. BlockTracked(Top, o, cursor) /\ Top.kind = "oneof"
    BY <1>1, <1>2, <1>5, ReadyTop
  <2> QED BY <2>1 DEF BlockTracked
<1>8. LabelOf(cursor) = None /\ OneofAround(cursor) = Top.name
  BY <1>2, <1>5, <1>7 DEF LabelOf, OneofAround
<1>9. Misfit(cursor) <=> FieldRefused(source[cursor], None, Top.name)
  BY <1>1, <1>2, <1>5, <1>8 DEF Misfit, FieldMisfit
<1>10. CASE Misfit(cursor)
  BY <1>9, <1>10, RefusesMisfit, RefuseOutcome DEF DeclareMember, Current
<1>11. CASE ~Misfit(cursor)
  <2> DEFINE block == [stack[k] EXCEPT !.fields = Append(@, Descriptions[cursor])]
             t == [stack EXCEPT ![k] = block]
  <2>1. Descriptions[cursor] = Described(source[cursor], None, Top.name)
    BY <1>6, <1>8 DEF Descriptions
  <2>2. stack' = t /\ Advance /\ UNCHANGED <<package, imports, built>>
    BY <1>4, <1>9, <1>11, <2>1 DEF DeclareMember, Current
  <2>3. /\ cursor \in FieldsIn(m) /\ \A i : i # m => cursor \notin FieldsIn(i)
        /\ cursor \notin ExtensionsAt
    BY <1>1, <1>2, <1>3, FieldOwner
  <2>4. k \in DOMAIN stack /\ DOMAIN stack = 1 .. Len(stack) /\ Len(stack) \in Nat
    BY <1>4, <1>5, <1>6, AppendIs
  <2>5. DOMAIN stack[k] = BlockParts
    BY <2>4 DEF Ready, Sounds, Sound
  <2>6. stack[k].kind = "message"
    BY <1>5 DEF BlockTracked
  <2>7. BlockTracked(block, m, cursor + 1)
    BY <1>1, <1>5, <1>6, <2>3, <2>5, <2>6, FieldTracked
  <2> HIDE DEF block
  <2>8. t[k] = block /\ \A j \in 1 .. Len(stack) : j # k => t[j] = stack[j]
    BY <2>4
  <2>9. Len(t) = Len(stack)
    BY <1>6, ChangedStack
  <2> HIDE DEF t
  <2>10. PICK n : n = cursor + 1
    OBVIOUS
  <2>11. n - 1 = cursor /\ Follows(cursor, n) /\ source[cursor].is \notin Opening \cup {"end"}
         /\ source[cursor].is \notin Opening \ {"group"} /\ source[cursor].is \notin PartSorts
    BY <1>1, <1>6, <2>10, ReadyIs DEF Opening, PartSorts
  <2>12. Around(n) = Around(cursor) /\ Level(n - 1) = Level(cursor - 1)
    BY <1>6, <2>10, <2>11, AroundPlain, LevelStep
  <2>13. ASSUME NEW i \in Around(cursor), i # m PROVE SameContents(i, cursor, n)
    BY <1>6, <2>3, <2>11, <2>12, <2>13, ContentsKept
  <2>14. BlockTracked(t[Level(m)], m, n) /\ \A j \in 1 .. Len(stack) : j # Level(m) => t[j] = stack[j]
    BY <1>5, <2>7, <2>8, <2>10
  <2>15. StackTracked(t, n)
    BY <1>5, <1>6, <2>9, <2>12, <2>13, <2>14, StackChanged
  <2> QED BY <1>1, <1>11, <2>2, <2>3, <2>10, <2>15, FieldOutcome
<1> QED BY <1>10, <1>11

-----------------------------------------------------------------------------
(* Extensions.                                                             *)

\* Two extensions at odds make a source defective.
LEMMA AlikeRefused ==
  ASSUME NEW i \in ExtensionsAt, NEW j \in ExtensionsAt, i # j, ExtendAlike(i, j)
  PROVE  Defective
BY DEF ExtensionsAt, ExtendAlike, Defective, Clashes, ExtensionsClash

\* The innermost block says what is extended.
LEMMA ExtendIs ==
  ASSUME Ready, source[cursor].is = "field", Place = "extend"
  PROVE  /\ Top.of.name = Extends(cursor).name /\ IsOptionMessage(Top.of) = IsOptionMessage(Extends(cursor))
         /\ Append(Scope, source[cursor].name) = FullName(cursor)
         /\ LabelOf(cursor) = Labelled(source[cursor].label) /\ OneofAround(cursor) = None
         /\ source[Owner(cursor)].is = "extend"
<1>1. stack # <<>>
  BY ReadyTop
<1>2. PICK o : o = Owner(cursor)
  OBVIOUS
<1>3. /\ source \in Sources /\ cursor \in 1 .. Len(source) + 1 /\ Innermost(cursor, {"group"}) = 0
      /\ o \in Around(cursor) /\ source[o].is = "extend" /\ Top.kind = "extend" /\ BlockTracked(Top, o, cursor)
  BY <1>1, <1>2, ReadyIs, ReadyTop
<1>4. o \in DOMAIN source
  BY <1>3, OutsideGroups
<1>5. NamedKind(source[o].of)
  <2>1. Grammatical(source[o])
    BY <1>3, <1>4, BuilderAssumption
  <2> QED BY <1>3, <2>1 DEF Grammatical
<1>6. Top.of = [source[o].of EXCEPT !.absolute = FALSE]
  BY <1>3 DEF BlockTracked
<1>7. Top.of.name = source[o].of.name
  BY <1>5, <1>6 DEF NamedKind
<1>8. Extends(cursor) = source[o].of
  BY <1>2 DEF Extends
<1>9. Append(Scope, source[cursor].name) = FullName(cursor)
  BY ScopeHere DEF FullName
<1>10. LabelOf(cursor) = Labelled(source[cursor].label) /\ OneofAround(cursor) = None
  BY <1>2, <1>3 DEF LabelOf, OneofAround
<1> QED BY <1>2, <1>3, <1>7, <1>8, <1>9, <1>10 DEF IsOptionMessage

\* Extensions of one sort are told apart, and declared under their full names.
LEMMA ExtensionExact ==
  ASSUME Ready, DeclareExtension
  PROVE  Outcome
<1> DEFINE f == source[cursor]
           n == FullName(cursor)
           field == FieldOf(f, Labelled(f.label), None)
           option == [extendee |-> Top.of.name, number |-> f.number, kind |-> f.kind,
                      cardinality |-> field.cardinality]
           extension == [extendee |-> Top.of, field |-> field]
           more == [built EXCEPT !.custom_options = Put(@, n, option)]
           others == [built EXCEPT !.extensions = Put(@, n, extension)]
<1>1. source[cursor].is = "field" /\ Place = "extend"
  BY DEF DeclareExtension, At, Current
<1>2. /\ source \in Sources /\ cursor \in 1 .. Len(source) /\ cursor \in Nat
      /\ Made(built, cursor) /\ InOrderBefore(cursor) /\ Follows(cursor, cursor + 1)
      /\ source[cursor].is \notin {"package", "import"}
  BY <1>1, ReadyIs
<1>3. /\ Top.of.name = Extends(cursor).name /\ IsOptionMessage(Top.of) = IsOptionMessage(Extends(cursor))
      /\ Append(Scope, source[cursor].name) = n
      /\ LabelOf(cursor) = Labelled(source[cursor].label) /\ OneofAround(cursor) = None
      /\ source[Owner(cursor)].is = "extend"
  BY <1>1, ExtendIs
<1>4. cursor \in ExtensionsAt /\ \A i : cursor \notin FieldsIn(i)
  BY <1>1, FieldOwner
<1>5. Misfit(cursor) <=> \/ Mislabelled(f.label) \/ FieldRefused(f, Labelled(f.label), None)
                         \/ IsOptionMessage(Top.of) /\ f.number < FirstOption
  BY <1>1, <1>3 DEF Misfit, FieldMisfit
<1>6. \/ Refuse /\ Misfit(cursor)
      \/ Refuse /\ IsOptionMessage(Top.of) /\ OptionTaken(n, option)
      \/ Refuse /\ ~IsOptionMessage(Top.of) /\ n \in DOMAIN built.extensions
      \/ /\ ~Misfit(cursor) /\ IsOptionMessage(Top.of) /\ ~OptionTaken(n, option)
         /\ built' = more /\ Advance /\ UNCHANGED <<stack, package, imports>>
      \/ /\ ~Misfit(cursor) /\ ~IsOptionMessage(Top.of) /\ n \notin DOMAIN built.extensions
         /\ built' = others /\ Advance /\ UNCHANGED <<stack, package, imports>>
  BY <1>3, <1>5 DEF DeclareExtension, Current
<1>7. DOMAIN built = FileParts
  BY FileHas DEF Ready
<1>8. /\ OptionsMade(built.custom_options, Before(OptionsAt, cursor))
      /\ OthersMade(built.extensions, Before(OthersAt, cursor))
      /\ MessagesMade(built.messages, Ended("message", cursor)) /\ EnumsMade(built.enums, Ended("enum", cursor))
      /\ ServicesMade(built.services, Ended("service", cursor))
      /\ LastSet(built.options, Before(Inside("option", 0), cursor))
  BY <1>2 DEF Made
<1>9. /\ cursor \in OptionsAt <=> IsOptionMessage(Top.of)
      /\ cursor \in OthersAt <=> ~IsOptionMessage(Top.of)
  BY <1>3, <1>4 DEF OptionsAt, OthersAt
<1>10. /\ Ended("message", cursor + 1) = Ended("message", cursor)
       /\ Ended("enum", cursor + 1) = Ended("enum", cursor)
       /\ Ended("service", cursor + 1) = Ended("service", cursor)
       /\ Before(Inside("option", 0), cursor + 1) = Before(Inside("option", 0), cursor)
  <2>1. /\ "message" \in Described3 /\ "enum" \in Described3 /\ "service" \in Described3
        /\ source[cursor].is # "end" /\ "option" # "group" /\ ~(source[cursor].is = "option" /\ Owner(cursor) = 0)
    BY <1>1 DEF Described3
  <2> QED BY <1>2, <2>1, EndedKept, InsideKept
<1>11. /\ Before(OptionsAt, cursor + 1) = Before(OptionsAt, cursor) \cup ({cursor} \cap OptionsAt)
       /\ Before(OthersAt, cursor + 1) = Before(OthersAt, cursor) \cup ({cursor} \cap OthersAt)
  <2>1. OptionsAt \subseteq All("field") /\ OthersAt \subseteq All("field") /\ "field" # "group"
    BY ExtensionSorts
  <2> QED BY <1>2, <2>1, BeforeGrows
<1>12. source[cursor].is \notin (Opening \ {"group"}) \cup {"end"} /\ source[cursor].is \notin PartSorts
  BY <1>1 DEF Opening, PartSorts
<1>13. StackTracked(stack, cursor + 1)
  BY <1>2, <1>4, <1>12, BlocksStay
<1>14. ASSUME ~Misfit(cursor), \A j \in Before(ExtensionsAt, cursor) : ~ExtendAlike(j, cursor)
       PROVE  InOrderBefore(cursor + 1)
  <2>1. /\ NamedApart("oneof", cursor) /\ NamedApart("rpc", cursor) /\ OnePackage(cursor)
        /\ ExtendedApart(cursor) /\ EndedInOrder(cursor)
        /\ "rpc" # "group" /\ "oneof" # "group" /\ source[cursor].is # "rpc" /\ source[cursor].is # "oneof"
        /\ source[cursor].is # "package" /\ source[cursor].is # "end"
    BY <1>1, <1>2 DEF InOrderBefore
  <2>2. NamedApart("oneof", cursor + 1) /\ NamedApart("rpc", cursor + 1)
    BY <1>2, <2>1, NamedKept
  <2>3. OnePackage(cursor + 1) /\ EndedInOrder(cursor + 1)
    BY <1>2, <2>1, OnePackageKept, EndedOrderKept
  <2>4. ExtendedApart(cursor + 1)
    BY <1>2, <1>14, <2>1, ExtendedMore
  <2>5. InPlace(cursor)
    BY <1>1, PlacedHere
  <2> QED BY <1>2, <1>14, <2>2, <2>3, <2>4, <2>5, OrderRead
<1>15. \A j \in Before(ExtensionsAt, cursor) : j \in ExtensionsAt /\ j # cursor
  BY <1>2 DEF Before
<1>16. /\ \A j \in Before(OptionsAt, cursor) : j \in Before(ExtensionsAt, cursor) /\ IsOptionMessage(Extends(j))
       /\ \A j \in Before(OthersAt, cursor) : j \in Before(ExtensionsAt, cursor) /\ ~IsOptionMessage(Extends(j))
       /\ \A j \in Before(ExtensionsAt, cursor) :
            IF IsOptionMessage(Extends(j)) THEN j \in Before(OptionsAt, cursor) ELSE j \in Before(OthersAt, cursor)
  BY DEF Before, OptionsAt, OthersAt
<1>17. /\ option.extendee = Extends(cursor).name /\ option.number = f.number
       /\ extension.extendee.name = Extends(cursor).name /\ extension.field.number = f.number
  BY <1>3 DEF FieldOf
<1> HIDE DEF field, option, extension
<1>18. ASSUME Refuse, IsOptionMessage(Top.of), OptionTaken(n, option) PROVE Outcome
  <2>1. PICK j \in Before(OptionsAt, cursor) :
          \/ FullName(j) = n
          \/ Extends(j).name = Extends(cursor).name /\ source[j].number = f.number
    BY <1>8, <1>17, <1>18 DEF OptionTaken, OptionsMade
  <2>2. IsOptionMessage(Extends(j)) = IsOptionMessage(Extends(cursor))
    BY <1>3, <1>16, <1>18, <2>1
  <2>3. ExtendAlike(j, cursor)
    BY <1>3, <1>18, <2>1, <2>2 DEF ExtendAlike
  <2>4. j \in ExtensionsAt /\ j # cursor
    BY <1>15, <1>16, <2>1
  <2> QED BY <1>4, <1>18, <2>3, <2>4, AlikeRefused, RefuseOutcome
<1>19. ASSUME Refuse, ~IsOptionMessage(Top.of), n \in DOMAIN built.extensions PROVE Outcome
  <2>1. PICK j \in Before(OthersAt, cursor) : FullName(j) = n
    BY <1>8, <1>19 DEF OthersMade
  <2>2. IsOptionMessage(Extends(j)) = IsOptionMessage(Extends(cursor))
    BY <1>3, <1>16, <1>19, <2>1 DEF IsOptionMessage
  <2>3. ExtendAlike(j, cursor)
    BY <2>1, <2>2 DEF ExtendAlike
  <2>4. j \in ExtensionsAt /\ j # cursor
    BY <1>15, <1>16, <2>1
  <2> QED BY <1>4, <1>19, <2>3, <2>4, AlikeRefused, RefuseOutcome
<1>20. ASSUME ~Misfit(cursor), IsOptionMessage(Top.of), ~OptionTaken(n, option),
              built' = more, Advance, UNCHANGED <<stack, package, imports>>
       PROVE  Outcome
  <2>1. \A j \in Before(OptionsAt, cursor) :
          /\ FullName(j) # n
          /\ ~(Extends(j).name = Extends(cursor).name /\ source[j].number = f.number)
    BY <1>8, <1>17, <1>20 DEF OptionTaken, OptionsMade
  <2>2. ASSUME NEW j \in Before(ExtensionsAt, cursor) PROVE ~ExtendAlike(j, cursor)
    BY <1>3, <1>16, <1>20, <2>1, <2>2 DEF ExtendAlike
  <2>3. InOrderBefore(cursor + 1)
    BY <1>14, <1>20, <2>2
  <2>4. OptionsMade(Put(built.custom_options, n, option), Before(OptionsAt, cursor) \cup {cursor})
    BY <1>8, <1>17, <2>1, OptionsMore
  <2>5. Before(OptionsAt, cursor + 1) = Before(OptionsAt, cursor) \cup {cursor}
        /\ Before(OthersAt, cursor + 1) = Before(OthersAt, cursor)
    BY <1>9, <1>11, <1>20
  <2>6. /\ built'.custom_options = Put(built.custom_options, n, option)
        /\ built'.options = built.options /\ built'.syntax = built.syntax
        /\ built'.messages = built.messages /\ built'.enums = built.enums
        /\ built'.services = built.services /\ built'.extensions = built.extensions
    <3> HIDE DEF n
    <3> QED BY <1>7, <1>20 DEF FileParts
  <2>7. Made(built', cursor + 1)
    BY <1>8, <1>10, <2>4, <2>5, <2>6 DEF Made
  <2>8. StackTracked(stack', cursor + 1) /\ FileSyntax' = FileSyntax
    BY <1>13, <1>20, <2>6 DEF FileSyntax
  <2> QED BY <1>2, <1>20, <2>3, <2>7, <2>8, ReadOutcome DEF Advance, Ready
<1>21. ASSUME ~Misfit(cursor), ~IsOptionMessage(Top.of), n \notin DOMAIN built.extensions,
              built' = others, Advance, UNCHANGED <<stack, package, imports>>
       PROVE  Outcome
  <2>1. \A j \in Before(OthersAt, cursor) : FullName(j) # n
    BY <1>8, <1>21 DEF OthersMade
  <2>2. ASSUME NEW j \in Before(ExtensionsAt, cursor) PROVE ~ExtendAlike(j, cursor)
    BY <1>3, <1>16, <1>21, <2>1, <2>2 DEF ExtendAlike
  <2>3. InOrderBefore(cursor + 1)
    BY <1>14, <1>21, <2>2
  <2>4. OthersMade(Put(built.extensions, n, extension), Before(OthersAt, cursor) \cup {cursor})
    BY <1>8, <1>17, <2>1, OthersMore
  <2>5. Before(OthersAt, cursor + 1) = Before(OthersAt, cursor) \cup {cursor}
        /\ Before(OptionsAt, cursor + 1) = Before(OptionsAt, cursor)
    BY <1>9, <1>11, <1>21
  <2>6. /\ built'.extensions = Put(built.extensions, n, extension)
        /\ built'.options = built.options /\ built'.syntax = built.syntax
        /\ built'.messages = built.messages /\ built'.enums = built.enums
        /\ built'.services = built.services /\ built'.custom_options = built.custom_options
    <3> HIDE DEF n
    <3> QED BY <1>7, <1>21 DEF FileParts
  <2>7. Made(built', cursor + 1)
    BY <1>8, <1>10, <2>4, <2>5, <2>6 DEF Made
  <2>8. StackTracked(stack', cursor + 1) /\ FileSyntax' = FileSyntax
    BY <1>13, <1>21, <2>6 DEF FileSyntax
  <2> QED BY <1>2, <1>21, <2>3, <2>7, <2>8, ReadOutcome DEF Advance, Ready
<1> QED BY <1>6, <1>18, <1>19, <1>20, <1>21, RefusesMisfit, RefuseOutcome

-----------------------------------------------------------------------------
(* Blocks that end.                                                        *)

\* The block that ends.
LEMMA Ending ==
  ASSUME Ready, stack # <<>>, source[cursor].is = "end"
  PROVE  /\ source \in Sources /\ cursor \in 1 .. Len(source) /\ cursor \in Nat
         /\ Owner(cursor) # 0 /\ Owner(cursor) \in Nat \ {0} /\ Level(Owner(cursor)) = Level(cursor - 1)
         /\ Innermost(cursor, {"group"}) = 0
         /\ EndedInOrder(cursor) /\ InOrderBefore(cursor) /\ Made(built, cursor)
         /\ Owner(cursor) \in Around(cursor) /\ source[Owner(cursor)].is = Place /\ Top.kind = Place
         /\ Owner(cursor) \in All(Place) /\ BlockTracked(Top, Owner(cursor), cursor)
         /\ Follows(cursor, cursor + 1) /\ Owner(cursor) < cursor /\ DOMAIN built = FileParts
         /\ Owner(cursor) \notin Around(cursor + 1) /\ cursor + 1 \in 1 .. Len(source) + 1
<1>1. /\ source \in Sources /\ cursor \in 1 .. Len(source) /\ cursor \in Nat /\ Len(source) \in Nat
      /\ cursor \in 1 .. Len(source) + 1 /\ Innermost(cursor, {"group"}) = 0
      /\ InOrderBefore(cursor) /\ Made(built, cursor) /\ Follows(cursor, cursor + 1)
  BY ReadyIs
<1>2. /\ Owner(cursor) # 0 /\ Owner(cursor) \in Around(cursor) /\ Level(Owner(cursor)) = Len(stack)
      /\ Len(stack) = Level(cursor - 1) /\ source[Owner(cursor)].is = Top.kind /\ Place = Top.kind
      /\ BlockTracked(Top, Owner(cursor), cursor)
  BY ReadyTop
<1>3. Owner(cursor) \in All(source[Owner(cursor)].is)
  BY <1>1, <1>2, OutsideGroups
<1>4. Owner(cursor) < cursor /\ Owner(cursor) \in Nat
  BY <1>1, <1>2, AroundHas
<1>5. EndedInOrder(cursor)
  BY <1>1 DEF InOrderBefore
<1>6. DOMAIN built = FileParts
  BY FileHas DEF Ready
<1>7. Owner(cursor) \notin Around(cursor + 1)
  BY <1>1, <1>2, AroundClosed
<1> QED BY <1>1, <1>2, <1>3, <1>4, <1>5, <1>6, <1>7

\* The blocks around one that ends, when it is no oneof.
LEMMA BlocksPop ==
  ASSUME Ready, stack # <<>>, source[cursor].is = "end", Place # "oneof"
  PROVE  StackTracked(Outer, cursor + 1)
<1>1. /\ source \in Sources /\ cursor \in 1 .. Len(source) /\ cursor \in Nat
      /\ cursor \in 1 .. Len(source) + 1 /\ IsStack(stack) /\ StackTracked(stack, cursor)
  BY ReadyIs
<1>2. /\ Owner(cursor) # 0 /\ Level(Owner(cursor)) = Level(cursor - 1)
      /\ source[Owner(cursor)].is # "oneof" /\ Owner(cursor) \in Around(cursor)
      /\ Level(Owner(cursor)) = Len(stack)
  BY Ending, ReadyTop
<1>3. /\ IsStack(Outer) /\ Len(Outer) = Len(stack) - 1 /\ Len(stack) \in Nat \ {0}
      /\ DOMAIN Outer = 1 .. Len(Outer) /\ \A k \in DOMAIN Outer : Outer[k] = stack[k]
  <2>1. IsStack(Outer) /\ Len(Outer) = Len(stack) - 1 /\ Len(stack) \in Nat \ {0}
    BY <1>1, PoppedStack DEF Outer
  <2>2. \A k \in DOMAIN Outer : Outer[k] = stack[k]
    BY <1>1, PoppedElements DEF Outer
  <2> QED BY <2>1, <2>2, AppendIs
<1>4. ASSUME NEW i \in Around(cursor), i # Owner(cursor) PROVE BlockTracked(Outer[Level(i)], i, cursor + 1)
  <2>1. Level(i) \in 1 .. Level(cursor - 1) /\ Level(i) \in Nat
    BY <1>1, <1>4, AroundHas
  <2>2. Level(i) # Level(Owner(cursor))
    BY <1>1, <1>2, <1>4, AroundLevels
  <2>3. Level(i) \in DOMAIN Outer
    BY <1>2, <1>3, <2>1, <2>2
  <2>4. Outer[Level(i)] = stack[Level(i)]
    BY <1>3, <2>3
  <2>5. BlockTracked(stack[Level(i)], i, cursor)
    BY <1>1, <1>4 DEF StackTracked
  <2>6. Owner(cursor) \notin Inside("oneof", i)
    BY <1>2 DEF Inside, All
  <2>7. SameContents(i, cursor, cursor + 1)
    BY <1>1, <1>2, <2>6, ContentsClosed
  <2> QED BY <2>4, <2>5, <2>7, BlockKept
<1> QED BY <1>1, <1>3, <1>4, StackPopped

\* A block has ended and left a declaration behind, or none.
LEMMA CloseOutcome ==
  ASSUME Ready, stack # <<>>, source[cursor].is = "end", StackTracked(stack', cursor + 1),
         EndedInOrder(cursor + 1), Advance, UNCHANGED <<package, imports>>,
         MessagesMade(built'.messages, Ended("message", cursor + 1)),
         EnumsMade(built'.enums, Ended("enum", cursor + 1)),
         ServicesMade(built'.services, Ended("service", cursor + 1)),
         built'.custom_options = built.custom_options, built'.extensions = built.extensions,
         built'.options = built.options, built'.syntax = built.syntax
  PROVE  Outcome
<1>1. /\ source \in Sources /\ cursor \in 1 .. Len(source) /\ InOrderBefore(cursor) /\ Made(built, cursor)
      /\ Follows(cursor, cursor + 1) /\ source[cursor].is \notin {"package", "import"}
  BY Ending
<1>2. InOrderBefore(cursor + 1)
  BY <1>1, OrderEnds
<1>3. /\ Before(Inside("option", 0), cursor + 1) = Before(Inside("option", 0), cursor)
      /\ Before(OptionsAt, cursor + 1) = Before(OptionsAt, cursor)
      /\ Before(OthersAt, cursor + 1) = Before(OthersAt, cursor)
  BY <1>1, MadeEnds
<1>4. Made(built', cursor + 1)
  BY <1>1, <1>3 DEF Made
<1>5. FileSyntax' = FileSyntax
  BY DEF FileSyntax
<1> QED BY <1>1, <1>2, <1>4, <1>5, ReadOutcome DEF Advance, Ready

\* A block that leaves nothing behind ends.
LEMMA SilentEnd ==
  ASSUME Ready, stack # <<>>, source[cursor].is = "end", Place \notin Described3,
         StackTracked(stack', cursor + 1), Advance, UNCHANGED <<package, imports, built>>
  PROVE  Outcome
<1>1. /\ source \in Sources /\ cursor \in 1 .. Len(source) /\ Owner(cursor) # 0
      /\ Level(Owner(cursor)) = Level(cursor - 1) /\ Innermost(cursor, {"group"}) = 0
      /\ EndedInOrder(cursor) /\ source[Owner(cursor)].is \notin Described3 /\ Made(built, cursor)
      /\ source[Owner(cursor)].is # "message" /\ source[Owner(cursor)].is # "enum"
      /\ source[Owner(cursor)].is # "service"
  BY Ending DEF Described3
<1>2. EndedInOrder(cursor + 1)
  BY <1>1, OtherEnds
<1>3. /\ Ended("message", cursor + 1) = Ended("message", cursor)
      /\ Ended("enum", cursor + 1) = Ended("enum", cursor)
      /\ Ended("service", cursor + 1) = Ended("service", cursor)
  BY <1>1, EndedOf
<1>4. /\ MessagesMade(built'.messages, Ended("message", cursor + 1))
      /\ EnumsMade(built'.enums, Ended("enum", cursor + 1))
      /\ ServicesMade(built'.services, Ended("service", cursor + 1))
  BY <1>1, <1>3 DEF Made
<1> QED BY <1>2, <1>4, CloseOutcome

\* An extension ends.
LEMMA ExtendCloses ==
  ASSUME Ready, CloseExtend
  PROVE  Outcome
<1>1. source[cursor].is = "end" /\ Place = "extend"
  BY DEF CloseExtend, At, Current
<1>2. stack # <<>> /\ Place \notin Described3 /\ Place # "oneof"
  BY <1>1, ReadyTop DEF Described3
<1>3. stack' = Outer /\ Advance /\ UNCHANGED <<package, imports, built>>
  BY DEF CloseExtend, Close
<1>4. StackTracked(stack', cursor + 1)
  BY <1>1, <1>2, <1>3, BlocksPop
<1> QED BY <1>1, <1>2, <1>3, <1>4, SilentEnd

\* A oneof that has ended is one of its message.
LEMMA OneofTracked ==
  ASSUME Ready, stack # <<>>, source[cursor].is = "end", Place = "oneof",
         NEW m, m = Owner(Owner(cursor)), NEW b, BlockTracked(b, m, cursor), DOMAIN b = BlockParts,
         b.kind = "message"
  PROVE  BlockTracked([b EXCEPT !.oneofs = @ \cup {Top.name}], m, cursor + 1)
<1> DEFINE d == [b EXCEPT !.oneofs = @ \cup {Top.name}]
<1>1. PICK o : o = Owner(cursor)
  OBVIOUS
<1>2. /\ source \in Sources /\ cursor \in 1 .. Len(source) /\ cursor \in Nat
      /\ o # 0 /\ Level(o) = Level(cursor - 1) /\ BlockTracked(Top, o, cursor) /\ Top.kind = "oneof"
  BY <1>1, Ending
<1>3. o \in Inside("oneof", m)
  BY <1>1, OneofAt
<1>4. /\ Before(FieldsIn(m), cursor + 1) = Before(FieldsIn(m), cursor)
      /\ \A is \in PartSorts : Before(Inside(is, m), cursor + 1) = Before(Inside(is, m), cursor)
      /\ Before(Inside("oneof", m), cursor + 1) \ Around(cursor + 1)
           = (Before(Inside("oneof", m), cursor) \ Around(cursor)) \cup ({o} \cap Inside("oneof", m))
  BY <1>1, <1>2, ContentsClosed
<1>5. Before(Inside("oneof", m), cursor + 1) \ Around(cursor + 1)
        = (Before(Inside("oneof", m), cursor) \ Around(cursor)) \cup {o}
  BY <1>3, <1>4
<1>6. Top.name = source[o].name
  BY <1>2 DEF BlockTracked
<1>7. MessageTracked(b, m, cursor)
  BY TrackedBy
<1>8. /\ d.fields = b.fields /\ d.oneofs = b.oneofs \cup {source[o].name} /\ d.names = b.names
      /\ d.ranges = b.ranges /\ d.extension_ranges = b.extension_ranges /\ d.options = b.options
      /\ d.kind = b.kind /\ d.name = b.name /\ d.of = b.of
  BY <1>6 DEF BlockParts
<1> HIDE DEF d
<1>9. d.oneofs = {source[i].name : i \in Before(Inside("oneof", m), cursor + 1) \ Around(cursor + 1)}
  <2>1. b.oneofs = {source[i].name : i \in Before(Inside("oneof", m), cursor) \ Around(cursor)}
    BY <1>7 DEF MessageTracked
  <2>2. PICK S : S = Before(Inside("oneof", m), cursor) \ Around(cursor)
    OBVIOUS
  <2>3. d.oneofs = {source[i].name : i \in S} \cup {source[o].name}
    BY <1>8, <2>1, <2>2
  <2>4. d.oneofs = {source[i].name : i \in S \cup {o}}
    BY <2>3
  <2> QED BY <1>5, <2>2, <2>4
<1>10. MessageTracked(d, m, cursor + 1)
  <2>1. {"reserved", "extensions", "option"} \subseteq PartSorts
    BY DEF PartSorts
  <2>2. /\ Before(Inside("reserved", m), cursor + 1) = Before(Inside("reserved", m), cursor)
        /\ Before(Inside("extensions", m), cursor + 1) = Before(Inside("extensions", m), cursor)
        /\ Before(Inside("option", m), cursor + 1) = Before(Inside("option", m), cursor)
    BY <1>4, <2>1
  <2> QED BY <1>4, <1>7, <1>8, <1>9, <2>2 DEF MessageTracked
<1>11. BlockTracked(d, m, cursor + 1)
  BY <1>8, <1>10, BlockBecomes
<1> QED BY <1>11 DEF d

\* A oneof ends, and its message has it.
LEMMA OneofCloses ==
  ASSUME Ready, CloseOneof
  PROVE  Outcome
<1>1. source[cursor].is = "end" /\ Place = "oneof"
  BY DEF CloseOneof, At, Current
<1>2. stack # <<>> /\ Place \notin Described3
  BY <1>1, ReadyTop DEF Described3
<1>3. PICK o : o = Owner(cursor)
  OBVIOUS
<1>4. PICK m : m = Owner(o)
  OBVIOUS
<1>5. PICK k : k = Len(stack) - 1
  OBVIOUS
<1>6. /\ o \in Inside("oneof", m) /\ m \in Around(cursor) /\ source[m].is = "message"
      /\ Level(m) = k /\ BlockTracked(stack[k], m, cursor) /\ k \in 1 .. k
  BY <1>1, <1>3, <1>4, <1>5, OneofAt
<1>7. /\ source \in Sources /\ cursor \in 1 .. Len(source) /\ cursor \in Nat
      /\ cursor \in 1 .. Len(source) + 1 /\ IsStack(stack) /\ StackTracked(stack, cursor)
  BY ReadyIs
<1>8. /\ o # 0 /\ Level(o) = Level(cursor - 1) /\ o \in Around(cursor) /\ Level(o) = Len(stack)
  BY <1>1, <1>2, <1>3, Ending, ReadyTop
<1>9. /\ IsStack(Outer) /\ Len(Outer) = k /\ Len(stack) \in Nat \ {0}
      /\ DOMAIN Outer = 1 .. k /\ \A j \in DOMAIN Outer : Outer[j] = stack[j]
  <2>1. IsStack(Outer) /\ Len(Outer) = Len(stack) - 1 /\ Len(stack) \in Nat \ {0}
    BY <1>2, <1>7, PoppedStack DEF Outer
  <2>2. \A j \in DOMAIN Outer : Outer[j] = stack[j]
    BY <1>2, <1>7, PoppedElements DEF Outer
  <2> QED BY <1>5, <2>1, <2>2, AppendIs
<1>10. k \in DOMAIN stack /\ k \in DOMAIN Outer /\ Outer[k] = stack[k]
  BY <1>5, <1>6, <1>7, <1>9, AppendIs
<1> DEFINE block == [stack[k] EXCEPT !.oneofs = @ \cup {Top.name}]
           t == [Outer EXCEPT ![k] = block]
<1>11. stack' = t /\ Advance /\ UNCHANGED <<package, imports, built>>
  BY <1>9, <1>10 DEF CloseOneof
<1>12. BlockTracked(block, m, cursor + 1)
  <2>1. DOMAIN stack[k] = BlockParts
    BY <1>10 DEF Ready, Sounds, Sound
  <2>2. stack[k].kind = "message"
    BY <1>6 DEF BlockTracked
  <2> QED BY <1>1, <1>2, <1>3, <1>4, <1>6, <2>1, <2>2, OneofTracked
<1> HIDE DEF block
<1>13. /\ t[k] = block /\ \A j \in 1 .. k : j # k => t[j] = stack[j]
  BY <1>9, <1>10
<1>14. Len(t) = Len(stack) - 1
  BY <1>5, <1>9, ChangedStack
<1> HIDE DEF t
<1>15. ASSUME NEW i \in Around(cursor), i # Owner(cursor) PROVE BlockTracked(t[Level(i)], i, cursor + 1)
  <2>1. CASE i = m
    BY <1>6, <1>12, <1>13, <2>1
  <2>2. CASE i # m
    <3>1. Level(i) \in 1 .. Level(cursor - 1) /\ Level(i) \in Nat
      BY <1>7, <1>15, AroundHas
    <3>2. Level(i) # Level(o) /\ Level(i) # Level(m)
      BY <1>3, <1>6, <1>7, <1>8, <1>15, <2>2, AroundLevels
    <3>3. Level(i) \in 1 .. k /\ Level(i) # k
      BY <1>5, <1>6, <1>8, <1>9, <3>1, <3>2
    <3>4. t[Level(i)] = stack[Level(i)]
      BY <1>13, <3>3
    <3>5. BlockTracked(stack[Level(i)], i, cursor)
      BY <1>7, <1>15 DEF StackTracked
    <3>6. Owner(cursor) \notin Inside("oneof", i)
      BY <1>3, <1>4, <2>2 DEF Inside
    <3>7. SameContents(i, cursor, cursor + 1)
      BY <1>1, <1>3, <1>7, <1>8, <3>6, ContentsClosed
    <3> QED BY <3>4, <3>5, <3>7, BlockKept
  <2> QED BY <2>1, <2>2
<1>16. StackTracked(t, cursor + 1)
  BY <1>1, <1>2, <1>7, <1>14, <1>15, StackPopped
<1> QED BY <1>1, <1>2, <1>11, <1>16, SilentEnd

\* What is inside a block that ends has been read.
LEMMA AllRead ==
  ASSUME Ready, stack # <<>>, source[cursor].is = "end",
         NEW is, is # "end", NEW j \in Inside(is, Owner(cursor))
  PROVE  /\ j \in Before(All(is), cursor) /\ j \in DOMAIN source /\ Innermost(j, {"group"}) = 0
         /\ source[j].is = is /\ Owner(j) = Owner(cursor) /\ j < cursor /\ ~Misfit(j)
<1>1. /\ source \in Sources /\ cursor \in 1 .. Len(source) /\ cursor \in Nat /\ Owner(cursor) \in Nat \ {0}
      /\ Owner(cursor) < cursor /\ Owner(cursor) \notin Around(cursor + 1)
      /\ cursor + 1 \in 1 .. Len(source) + 1 /\ InOrderBefore(cursor)
  BY Ending
<1>2. Owner(cursor) < cursor + 1
  BY <1>1
<1>3. Before(Inside(is, Owner(cursor)), cursor + 1) = Inside(is, Owner(cursor))
  BY <1>1, <1>2, WholeBlock
<1>4. j < cursor + 1
  BY <1>3 DEF Before
<1>5. j \in DOMAIN source /\ Innermost(j, {"group"}) = 0 /\ source[j].is = is /\ Owner(j) = Owner(cursor)
      /\ j \in All(is)
  BY DEF Inside, All
<1>6. DOMAIN source = 1 .. Len(source) /\ Len(source) \in Nat
  BY <1>1, SourceIs
<1>7. j # cursor /\ j \in Nat
  BY <1>5, <1>6
<1>8. j < cursor
  BY <1>1, <1>4, <1>7
<1>9. ~Misfit(j)
  BY <1>1, <1>5, <1>8 DEF InOrderBefore, FitBefore
<1> QED BY <1>5, <1>8, <1>9 DEF Before

\* No range that a block reserves is empty.
LEMMA RangesInOrder ==
  ASSUME Ready, stack # <<>>, source[cursor].is = "end"
  PROVE  NoneEmpty(Owner(cursor))
<1>1. source \in Sources
  BY Ending
<1> SUFFICES ASSUME NEW r \in Inside("reserved", Owner(cursor)), NEW i \in DOMAIN source[r].ranges
             PROVE  source[r].ranges[i][1] <= source[r].ranges[i][2]
  BY DEF NoneEmpty
<1>2. source[r].is = "reserved" /\ ~Misfit(r)
  BY AllRead
<1>3. ~RangesRefused(source[r].ranges, Reservable(source[Owner(r)].is))
  BY <1>2 DEF Misfit
<1>4. ~(source[r].ranges[i][1] > source[r].ranges[i][2])
  BY <1>3 DEF RangesRefused
<1>5. source[r].ranges \in Seq(Int \X Int)
  BY <1>1, ReservedIs
<1>6. source[r].ranges[i] \in Int \X Int
  BY <1>5
<1>7. source[r].ranges[i][1] \in Int /\ source[r].ranges[i][2] \in Int
  BY <1>6
<1> QED BY <1>4, <1>7

\* A block that reserves something twice makes a source defective.
LEMMA TwiceRefused ==
  ASSUME Ready, stack # <<>>, source[cursor].is = "end",
         Joins(Top.names, Inside("reserved", Owner(cursor)), NamesAt),
         Joins(Top.ranges, Inside("reserved", Owner(cursor)), RangesAt)
  PROVE  /\ ReservedTwice(Top) => Defective
         /\ ~ReservedTwice(Top) => ReservedApart(Owner(cursor))
<1>1. ReservedTwice(Top) <=> ~ReservedApart(Owner(cursor))
  BY Ending, RangesInOrder, TwiceIs
<1>2. ASSUME ~ReservedApart(Owner(cursor)) PROVE Defective
  <2>1. PICK i, j \in Inside("reserved", Owner(cursor)) : Overlap(i, j)
    BY <1>2 DEF ReservedApart
  <2>2. i \in All("reserved") /\ j \in All("reserved") /\ Owner(i) = Owner(j)
    BY DEF Inside
  <2> QED BY <2>1, <2>2 DEF Defective, Clashes
<1> QED BY <1>1, <1>2

\* Messages and enums share their names: a second declaration is refused.
LEMMA TakenRefused ==
  ASSUME Ready, stack # <<>>, source[cursor].is = "end", Place \in {"message", "enum"},
         Top.name = FullName(Owner(cursor))
  PROVE  /\ TypeTaken(Top.name) => Defective
         /\ ~TypeTaken(Top.name) => \A m \in TypesEnded(cursor) : FullName(m) # FullName(Owner(cursor))
<1>1. /\ Owner(cursor) \in Around(cursor) /\ Owner(cursor) \in All(Place) /\ Made(built, cursor)
  BY Ending
<1>2. /\ DOMAIN built.messages = {FullName(m) : m \in Ended("message", cursor)}
      /\ DOMAIN built.enums = {FullName(m) : m \in Ended("enum", cursor)}
  BY <1>1 DEF Made, MessagesMade, EnumsMade
<1>3. TypeTaken(Top.name) <=> \E m \in TypesEnded(cursor) : FullName(m) = FullName(Owner(cursor))
  BY <1>2 DEF TypeTaken, TypesEnded
<1>4. ASSUME NEW m \in TypesEnded(cursor), FullName(m) = FullName(Owner(cursor)) PROVE Defective
  <2>1. m \in All("message") \cup All("enum") /\ m # Owner(cursor)
    BY <1>1, NotEnded DEF TypesEnded, Ended, Before
  <2>2. Owner(cursor) \in All("message") \cup All("enum")
    BY <1>1
  <2> QED BY <1>4, <2>1, <2>2 DEF Defective, Clashes
<1> QED BY <1>3, <1>4

\* A message is refused when something in it is at odds, and declared as it is said.
LEMMA MessageCloses ==
  ASSUME Ready, CloseMessage
  PROVE  Outcome
<1>1. source[cursor].is = "end" /\ Place = "message"
  BY DEF CloseMessage, At, Current
<1>2. stack # <<>>
  BY <1>1, ReadyTop
<1>3. PICK m : m = Owner(cursor)
  OBVIOUS
<1>4. /\ source \in Sources /\ cursor \in 1 .. Len(source) /\ m # 0 /\ m \in All("message")
      /\ Level(m) = Level(cursor - 1) /\ Innermost(cursor, {"group"}) = 0
      /\ EndedInOrder(cursor) /\ InOrderBefore(cursor) /\ Made(built, cursor)
      /\ source[m].is = "message" /\ Top.kind = "message" /\ BlockTracked(Top, m, cursor)
      /\ DOMAIN built = FileParts
  BY <1>1, <1>2, <1>3, Ending
<1>5. Top.name = FullName(m) /\ MessageDone(Top, m)
  BY <1>1, <1>3, <1>4, BlockDone
<1>6. /\ Joins(Top.names, Inside("reserved", m), NamesAt)
      /\ Joins(Top.ranges, Inside("reserved", m), RangesAt)
  BY <1>5 DEF MessageDone
<1>7. /\ ReservedTwice(Top) => Defective
      /\ ~ReservedTwice(Top) => ReservedApart(m)
  BY <1>1, <1>2, <1>3, <1>6, TwiceRefused
<1>8. /\ TypeTaken(Top.name) => Defective
      /\ ~TypeTaken(Top.name) => \A i \in TypesEnded(cursor) : FullName(i) # FullName(m)
  BY <1>1, <1>2, <1>3, <1>5, TakenRefused
<1>9. FieldsClash(Top) => Defective
  BY <1>4, <1>5, ClashIsReal DEF Defective, Clashes
<1>10. CASE ReservedTwice(Top) \/ FieldsClash(Top) \/ TypeTaken(Top.name)
  BY <1>7, <1>8, <1>9, <1>10, RefuseOutcome DEF CloseMessage
<1>11. CASE ~(ReservedTwice(Top) \/ FieldsClash(Top) \/ TypeTaken(Top.name))
  <2> DEFINE f == Top.fields
             message == [fields |-> [n \in {f[i].name : i \in DOMAIN f} |->
                                      f[CHOOSE i \in DOMAIN f : f[i].name = n].field],
                         extension_ranges |-> Top.extension_ranges, options |-> Top.options,
                         features |-> Defaults(FileSyntax)]
  <2>1. Close([built EXCEPT !.messages = Put(@, Top.name, message)])
    BY <1>11 DEF CloseMessage
  <2>2. /\ message.fields = [n \in {f[i].name : i \in DOMAIN f} |->
                               f[CHOOSE i \in DOMAIN f : f[i].name = n].field]
        /\ message.extension_ranges = Top.extension_ranges /\ message.options = Top.options
    OBVIOUS
  <2> HIDE DEF message
  <2>3. MessageMade(message, m)
    BY <1>4, <1>5, <1>11, <2>2, MessageIsMade
  <2>4. OneofsApart(m)
    <3>1. \A j \in Inside("oneof", m) : j \in Before(All("oneof"), cursor) /\ Owner(j) = m
      BY <1>1, <1>2, <1>3, AllRead
    <3>2. NamedApart("oneof", cursor)
      BY <1>4 DEF InOrderBefore
    <3> QED BY <3>1, <3>2 DEF NamedApart, OneofsApart
  <2>5. ~MessageClashes(m)
    BY <1>4, <1>5, <1>11, <2>4, ClashIsFound
  <2>6. ReservedApart(m) /\ \A i \in TypesEnded(cursor) : FullName(i) # FullName(m)
    BY <1>7, <1>8, <1>11
  <2>7. EndedInOrder(cursor + 1)
    BY <1>1, <1>3, <1>4, <2>5, <2>6, MessageEnds
  <2>8. /\ Ended("message", cursor + 1) = Ended("message", cursor) \cup {m}
        /\ Ended("enum", cursor + 1) = Ended("enum", cursor)
        /\ Ended("service", cursor + 1) = Ended("service", cursor)
    <3>1. source[m].is # "enum" /\ source[m].is # "service"
      BY <1>4
    <3> QED BY <1>1, <1>3, <1>4, <3>1, EndedOf
  <2>9. /\ MessagesMade(built.messages, Ended("message", cursor))
        /\ EnumsMade(built.enums, Ended("enum", cursor))
        /\ ServicesMade(built.services, Ended("service", cursor))
    BY <1>4 DEF Made
  <2>10. MessagesMade(Put(built.messages, FullName(m), message), Ended("message", cursor) \cup {m})
    BY <2>3, <2>6, <2>9, MessagesMore DEF TypesEnded
  <2>11. /\ built' = [built EXCEPT !.messages = Put(@, FullName(m), message)]
         /\ stack' = Outer /\ Advance /\ UNCHANGED <<package, imports>>
    BY <1>5, <2>1 DEF Close
  <2>12. /\ built'.messages = Put(built.messages, FullName(m), message)
         /\ built'.enums = built.enums /\ built'.services = built.services
         /\ built'.custom_options = built.custom_options /\ built'.extensions = built.extensions
         /\ built'.options = built.options /\ built'.syntax = built.syntax
    BY <1>4, <2>11 DEF FileParts
  <2>13. StackTracked(stack', cursor + 1)
    BY <1>1, <1>2, <2>11, BlocksPop
  <2>14. /\ MessagesMade(built'.messages, Ended("message", cursor + 1))
         /\ EnumsMade(built'.enums, Ended("enum", cursor + 1))
         /\ ServicesMade(built'.services, Ended("service", cursor + 1))
    BY <2>8, <2>9, <2>10, <2>12
  <2> QED BY <1>1, <1>2, <2>7, <2>11, <2>12, <2>13, <2>14, CloseOutcome
<1> QED BY <1>10, <1>11

\* An enum is refused when something in it is at odds, and declared as it is said.
LEMMA EnumCloses ==
  ASSUME Ready, CloseEnum
  PROVE  Outcome
<1>1. source[cursor].is = "end" /\ Place = "enum"
  BY DEF CloseEnum, At, Current
<1>2. stack # <<>>
  BY <1>1, ReadyTop
<1>3. PICK e : e = Owner(cursor)
  OBVIOUS
<1>4. /\ source \in Sources /\ cursor \in 1 .. Len(source) /\ e # 0 /\ e \in All("enum")
      /\ Level(e) = Level(cursor - 1) /\ Innermost(cursor, {"group"}) = 0
      /\ EndedInOrder(cursor) /\ Made(built, cursor)
      /\ source[e].is = "enum" /\ Top.kind = "enum" /\ BlockTracked(Top, e, cursor)
      /\ DOMAIN built = FileParts
  BY <1>1, <1>2, <1>3, Ending
<1>5. Top.name = FullName(e) /\ EnumDone(Top, e)
  BY <1>1, <1>3, <1>4, BlockDone
<1>6. /\ Joins(Top.names, Inside("reserved", e), NamesAt)
      /\ Joins(Top.ranges, Inside("reserved", e), RangesAt)
  BY <1>5 DEF EnumDone
<1>7. /\ ReservedTwice(Top) => Defective
      /\ ~ReservedTwice(Top) => ReservedApart(e)
  BY <1>1, <1>2, <1>3, <1>6, TwiceRefused
<1>8. /\ TypeTaken(Top.name) => Defective
      /\ ~TypeTaken(Top.name) => \A i \in TypesEnded(cursor) : FullName(i) # FullName(e)
  BY <1>1, <1>2, <1>3, <1>5, TakenRefused
<1>9. ValuesClash(Top) => Defective
  BY <1>4, <1>5, EnumClashIsReal DEF Defective, Clashes
<1>10. CASE ValuesClash(Top) \/ ReservedTwice(Top) \/ TypeTaken(Top.name)
  BY <1>7, <1>8, <1>9, <1>10, RefuseOutcome DEF CloseEnum
<1>11. CASE ~(ValuesClash(Top) \/ ReservedTwice(Top) \/ TypeTaken(Top.name))
  <2> DEFINE enum == [values |-> {Top.values[i].name : i \in DOMAIN Top.values}, syntax |-> FileSyntax,
                      options |-> Top.options, features |-> Defaults(FileSyntax)]
  <2>1. Close([built EXCEPT !.enums = Put(@, Top.name, enum)])
    BY <1>11 DEF CloseEnum
  <2>2. enum.values = {Top.values[i].name : i \in DOMAIN Top.values} /\ enum.options = Top.options
    OBVIOUS
  <2> HIDE DEF enum
  <2>3. EnumMade(enum, e)
    BY <1>4, <1>5, <2>2, EnumIsMade
  <2>4. ~EnumClashes(e)
    BY <1>4, <1>5, <1>11, EnumClashIsFound
  <2>5. ReservedApart(e) /\ \A i \in TypesEnded(cursor) : FullName(i) # FullName(e)
    BY <1>7, <1>8, <1>11
  <2>6. EndedInOrder(cursor + 1)
    BY <1>1, <1>3, <1>4, <2>4, <2>5, EnumEnds
  <2>7. /\ Ended("enum", cursor + 1) = Ended("enum", cursor) \cup {e}
        /\ Ended("message", cursor + 1) = Ended("message", cursor)
        /\ Ended("service", cursor + 1) = Ended("service", cursor)
    <3>1. source[e].is # "message" /\ source[e].is # "service"
      BY <1>4
    <3> QED BY <1>1, <1>3, <1>4, <3>1, EndedOf
  <2>8. /\ MessagesMade(built.messages, Ended("message", cursor))
        /\ EnumsMade(built.enums, Ended("enum", cursor))
        /\ ServicesMade(built.services, Ended("service", cursor))
    BY <1>4 DEF Made
  <2>9. EnumsMade(Put(built.enums, FullName(e), enum), Ended("enum", cursor) \cup {e})
    BY <2>3, <2>5, <2>8, EnumsMore DEF TypesEnded
  <2>10. /\ built' = [built EXCEPT !.enums = Put(@, FullName(e), enum)]
         /\ stack' = Outer /\ Advance /\ UNCHANGED <<package, imports>>
    BY <1>5, <2>1 DEF Close
  <2>11. /\ built'.enums = Put(built.enums, FullName(e), enum)
         /\ built'.messages = built.messages /\ built'.services = built.services
         /\ built'.custom_options = built.custom_options /\ built'.extensions = built.extensions
         /\ built'.options = built.options /\ built'.syntax = built.syntax
    BY <1>4, <2>10 DEF FileParts
  <2>12. StackTracked(stack', cursor + 1)
    BY <1>1, <1>2, <2>10, BlocksPop
  <2>13. /\ MessagesMade(built'.messages, Ended("message", cursor + 1))
         /\ EnumsMade(built'.enums, Ended("enum", cursor + 1))
         /\ ServicesMade(built'.services, Ended("service", cursor + 1))
    BY <2>7, <2>8, <2>9, <2>11
  <2> QED BY <1>1, <1>2, <2>6, <2>10, <2>11, <2>12, <2>13, CloseOutcome
<1> QED BY <1>10, <1>11

\* A second service of a name is refused, and a service has the types of its methods.
LEMMA ServiceCloses ==
  ASSUME Ready, CloseService
  PROVE  Outcome
<1>1. source[cursor].is = "end" /\ Place = "service"
  BY DEF CloseService, At, Current
<1>2. stack # <<>>
  BY <1>1, ReadyTop
<1>3. PICK s : s = Owner(cursor)
  OBVIOUS
<1>4. /\ source \in Sources /\ cursor \in 1 .. Len(source) /\ s # 0 /\ s \in All("service")
      /\ Level(s) = Level(cursor - 1) /\ Innermost(cursor, {"group"}) = 0 /\ s \in Around(cursor)
      /\ EndedInOrder(cursor) /\ Made(built, cursor)
      /\ source[s].is = "service" /\ Top.kind = "service" /\ BlockTracked(Top, s, cursor)
      /\ DOMAIN built = FileParts
  BY <1>1, <1>2, <1>3, Ending
<1>5. Top.name = FullName(s) /\ Lists(Top.methods, Inside("rpc", s), source)
  BY <1>1, <1>3, <1>4, BlockDone
<1>6. /\ MessagesMade(built.messages, Ended("message", cursor))
      /\ EnumsMade(built.enums, Ended("enum", cursor))
      /\ ServicesMade(built.services, Ended("service", cursor))
  BY <1>4 DEF Made
<1>7. CASE Top.name \in DOMAIN built.services
  <2>1. PICK i \in Ended("service", cursor) : FullName(i) = FullName(s)
    BY <1>5, <1>6, <1>7 DEF ServicesMade
  <2>2. i \in All("service") /\ i # s
    BY <1>4, NotEnded DEF Ended, Before
  <2>3. Defective
    BY <1>4, <2>1, <2>2 DEF Defective, Clashes
  <2> QED BY <1>7, <2>3, RefuseOutcome DEF CloseService
<1>8. CASE Top.name \notin DOMAIN built.services
  <2> DEFINE kinds == UNION {{Top.methods[i].input, Top.methods[i].output} : i \in DOMAIN Top.methods}
  <2>1. Close([built EXCEPT !.services = Put(@, Top.name, kinds)])
    BY <1>8 DEF CloseService
  <2>2. kinds = KindsIn(s)
    BY <1>4, <1>5, KindsAre
  <2> HIDE DEF kinds
  <2>3. \A i \in Ended("service", cursor) : FullName(i) # FullName(s)
    BY <1>5, <1>6, <1>8 DEF ServicesMade
  <2>4. EndedInOrder(cursor + 1)
    BY <1>1, <1>3, <1>4, <2>3, ServiceEnds
  <2>5. /\ Ended("service", cursor + 1) = Ended("service", cursor) \cup {s}
        /\ Ended("message", cursor + 1) = Ended("message", cursor)
        /\ Ended("enum", cursor + 1) = Ended("enum", cursor)
    <3>1. source[s].is # "message" /\ source[s].is # "enum"
      BY <1>4
    <3> QED BY <1>1, <1>3, <1>4, <3>1, EndedOf
  <2>6. ServicesMade(Put(built.services, FullName(s), kinds), Ended("service", cursor) \cup {s})
    BY <1>6, <2>2, <2>3, ServicesMore
  <2>7. /\ built' = [built EXCEPT !.services = Put(@, FullName(s), kinds)]
        /\ stack' = Outer /\ Advance /\ UNCHANGED <<package, imports>>
    BY <1>5, <2>1 DEF Close
  <2>8. /\ built'.services = Put(built.services, FullName(s), kinds)
        /\ built'.messages = built.messages /\ built'.enums = built.enums
        /\ built'.custom_options = built.custom_options /\ built'.extensions = built.extensions
        /\ built'.options = built.options /\ built'.syntax = built.syntax
    BY <1>4, <2>7 DEF FileParts
  <2>9. StackTracked(stack', cursor + 1)
    BY <1>1, <1>2, <2>7, BlocksPop
  <2>10. /\ MessagesMade(built'.messages, Ended("message", cursor + 1))
         /\ EnumsMade(built'.enums, Ended("enum", cursor + 1))
         /\ ServicesMade(built'.services, Ended("service", cursor + 1))
    BY <1>6, <2>5, <2>6, <2>8
  <2> QED BY <1>1, <1>2, <2>4, <2>7, <2>8, <2>9, <2>10, CloseOutcome
<1> QED BY <1>7, <1>8

-----------------------------------------------------------------------------
(* What the source says does not change while it is read.                  *)

Unmoved == source' = source /\ limit' = limit /\ FileSyntax' = FileSyntax

\* The blocks of a source, and what is inside them.
LEMMA PlacesUnmoved ==
  ASSUME source' = source
  PROVE  /\ \A k : Level(k)' = Level(k)
         /\ \A j : Around(j)' = Around(j)
         /\ \A j, K : Innermost(j, K)' = Innermost(j, K)
         /\ \A j : Owner(j)' = Owner(j)
         /\ \A is : All(is)' = All(is)
         /\ \A is, i : Inside(is, i)' = Inside(is, i)
         /\ \A i : FieldsIn(i)' = FieldsIn(i)
<1>1. ASSUME NEW k PROVE Level(k)' = Level(k)
  BY DEF Level, Depths, Opening
<1>2. ASSUME NEW j PROVE Around(j)' = Around(j)
  BY DEF Around, Depths, Opening
<1>3. ASSUME NEW j, NEW K PROVE Innermost(j, K)' = Innermost(j, K)
  BY <1>2 DEF Innermost
<1>4. ASSUME NEW j PROVE Owner(j)' = Owner(j)
  BY <1>3 DEF Owner
<1>5. ASSUME NEW is PROVE All(is)' = All(is)
  BY <1>3 DEF All
<1>6. ASSUME NEW is, NEW i PROVE Inside(is, i)' = Inside(is, i)
  BY <1>4, <1>5 DEF Inside
<1>7. ASSUME NEW i PROVE FieldsIn(i)' = FieldsIn(i)
  BY <1>3, <1>5 DEF FieldsIn
<1> QED BY <1>1, <1>2, <1>3, <1>4, <1>5, <1>6, <1>7

\* The names of what is declared.
LEMMA NamesUnmoved ==
  ASSUME source' = source
  PROVE  /\ \A j : PackageBefore(j)' = PackageBefore(j)
         /\ \A j : ScopeAround(j)' = ScopeAround(j)
         /\ \A j : FullName(j)' = FullName(j)
         /\ \A j : Extends(j)' = Extends(j)
         /\ \A j : OneofAround(j)' = OneofAround(j)
         /\ \A j : LabelOf(j)' = LabelOf(j)
         /\ \A i : SettingsIn(i)' = SettingsIn(i)
<1>1. ASSUME NEW j PROVE PackageBefore(j)' = PackageBefore(j)
  <2>1. All("package")' = All("package")
    BY PlacesUnmoved
  <2>2. {i \in All("package")' : i < j} = {i \in All("package") : i < j}
    BY <2>1
  <2> QED BY <2>1, <2>2 DEF PackageBefore
<1>2. ASSUME NEW j PROVE ScopeAround(j)' = ScopeAround(j)
  <2>1. Around(j)' = Around(j)
    BY PlacesUnmoved
  <2>2. {i \in Around(j)' : source'[i].is = "message"} = {i \in Around(j) : source[i].is = "message"}
    BY <2>1
  <2> QED BY <1>1, <2>1, <2>2 DEF ScopeAround
<1>3. ASSUME NEW j PROVE FullName(j)' = FullName(j)
  BY <1>2 DEF FullName
<1>4. ASSUME NEW j PROVE Extends(j)' = Extends(j)
  BY PlacesUnmoved DEF Extends
<1>5. ASSUME NEW j PROVE OneofAround(j)' = OneofAround(j)
  BY PlacesUnmoved DEF OneofAround
<1>6. ASSUME NEW j PROVE LabelOf(j)' = LabelOf(j)
  BY PlacesUnmoved DEF LabelOf
<1>7. ASSUME NEW i PROVE SettingsIn(i)' = SettingsIn(i)
  BY PlacesUnmoved DEF SettingsIn
<1> QED BY <1>1, <1>2, <1>3, <1>4, <1>5, <1>6, <1>7

\* The rules about single statements.
LEMMA RulesUnmoved ==
  ASSUME Unmoved
  PROVE  /\ \A f, label, oneof : Described(f, label, oneof)' = Described(f, label, oneof)
         /\ \A j : Misfit(j)' <=> Misfit(j)
<1>1. source' = source /\ FileSyntax' = FileSyntax
  BY DEF Unmoved
<1>2. ASSUME NEW label PROVE Mislabelled(label)' <=> Mislabelled(label)
  BY <1>1 DEF Mislabelled
<1>3. ASSUME NEW f, NEW label, NEW oneof
      PROVE  FieldRefused(f, label, oneof)' <=> FieldRefused(f, label, oneof)
  BY <1>1 DEF FieldRefused
<1>4. ASSUME NEW f, NEW label PROVE PackedFirst(f, label)' = PackedFirst(f, label)
  BY <1>1 DEF PackedFirst
<1>5. ASSUME NEW f, NEW label, NEW oneof
      PROVE  FieldOf(f, label, oneof)' = FieldOf(f, label, oneof)
  BY <1>1, <1>4 DEF FieldOf
<1>6. ASSUME NEW f, NEW label, NEW oneof
      PROVE  Described(f, label, oneof)' = Described(f, label, oneof)
  BY <1>5 DEF Described
<1>7. ASSUME NEW j PROVE FieldMisfit(j)' <=> FieldMisfit(j)
  BY <1>1, <1>2, <1>3, PlacesUnmoved, NamesUnmoved DEF FieldMisfit
<1>8. ASSUME NEW label, NEW place PROVE GroupRefused(label, place)' <=> GroupRefused(label, place)
  BY <1>1, <1>2 DEF GroupRefused
<1>9. ASSUME NEW j PROVE Misfit(j)' <=> Misfit(j)
  BY <1>1, <1>7, <1>8, PlacesUnmoved DEF Misfit
<1> QED BY <1>6, <1>9

\* What is at odds.
LEMMA ClashesUnmoved ==
  ASSUME Unmoved
  PROVE  /\ \A i, j : Overlap(i, j)' <=> Overlap(i, j)
         /\ \A m : MessageClashes(m)' <=> MessageClashes(m)
         /\ \A e : EnumClashes(e)' <=> EnumClashes(e)
         /\ Defective' <=> Defective
<1>1. source' = source /\ FileSyntax' = FileSyntax /\ limit' = limit
  BY DEF Unmoved
<1>2. ASSUME NEW i, NEW j PROVE Overlap(i, j)' <=> Overlap(i, j)
  BY <1>1 DEF Overlap
<1>3. ASSUME NEW r, NEW j PROVE Forbids(r, j)' <=> Forbids(r, j)
  BY <1>1 DEF Forbids
<1>4. ASSUME NEW m PROVE MessageClashes(m)' <=> MessageClashes(m)
  BY <1>1, <1>3, PlacesUnmoved DEF MessageClashes
<1>5. ASSUME NEW e PROVE Aliases(e)' <=> Aliases(e)
  BY <1>1, PlacesUnmoved DEF Aliases
<1>6. ASSUME NEW e PROVE EnumClashes(e)' <=> EnumClashes(e)
  BY <1>1, <1>3, <1>5, PlacesUnmoved DEF EnumClashes
<1>7. ExtensionsClash' <=> ExtensionsClash
  BY <1>1, PlacesUnmoved, NamesUnmoved DEF ExtensionsClash
<1>8. Clashes' <=> Clashes
  BY <1>1, <1>2, <1>4, <1>6, <1>7, PlacesUnmoved, NamesUnmoved DEF Clashes
<1>9. Defective' <=> Defective
  <2>1. Depths(source)' = Depths(source)
    BY <1>1 DEF Depths, Opening
  <2> QED BY <1>1, <1>8, <2>1, PlacesUnmoved, RulesUnmoved DEF Defective
<1> QED BY <1>2, <1>4, <1>6, <1>9

\* The blocks that are open.
LEMMA BlocksUnmoved ==
  ASSUME Unmoved
  PROVE  \A s, c : StackTracked(s, c)' <=> StackTracked(s, c)
<1>1. source' = source
  BY DEF Unmoved
<1>2. Descriptions' = Descriptions
  BY <1>1, NamesUnmoved, RulesUnmoved DEF Descriptions
<1>3. ValuesAt' = ValuesAt /\ NamesAt' = NamesAt /\ RangesAt' = RangesAt
  BY <1>1 DEF ValuesAt, NamesAt, RangesAt
<1>4. ASSUME NEW j PROVE ExtensionRangesAt(j)' = ExtensionRangesAt(j)
  BY <1>1 DEF ExtensionRangesAt
<1>5. ASSUME NEW options, NEW S PROVE LastSet(options, S)' <=> LastSet(options, S)
  BY <1>1 DEF LastSet
<1>6. ASSUME NEW alias, NEW S PROVE AliasSaid(alias, S)' <=> AliasSaid(alias, S)
  BY <1>1 DEF AliasSaid
<1>7. ASSUME NEW b, NEW i, NEW c PROVE MessageTracked(b, i, c)' <=> MessageTracked(b, i, c)
  BY <1>1, <1>2, <1>3, <1>4, <1>5, PlacesUnmoved DEF MessageTracked
<1>8. ASSUME NEW b, NEW i, NEW c PROVE EnumTracked(b, i, c)' <=> EnumTracked(b, i, c)
  BY <1>1, <1>3, <1>5, <1>6, PlacesUnmoved DEF EnumTracked
<1>9. ASSUME NEW b, NEW i, NEW c PROVE BlockTracked(b, i, c)' <=> BlockTracked(b, i, c)
  BY <1>1, <1>7, <1>8, PlacesUnmoved, NamesUnmoved DEF BlockTracked
<1>10. ASSUME NEW s, NEW c PROVE StackTracked(s, c)' <=> StackTracked(s, c)
  BY <1>1, <1>9, PlacesUnmoved DEF StackTracked
<1> QED BY <1>10

\* The order of what has been read.
LEMMA OrderUnmoved ==
  ASSUME Unmoved
  PROVE  \A c : InOrderBefore(c)' <=> InOrderBefore(c)
<1>1. source' = source
  BY DEF Unmoved
<1>2. ASSUME NEW j PROVE InPlace(j)' <=> InPlace(j)
  BY <1>1, PlacesUnmoved DEF InPlace
<1>3. ExtensionsAt' = ExtensionsAt
  BY <1>1, PlacesUnmoved DEF ExtensionsAt
<1>4. ASSUME NEW i, NEW j PROVE ExtendAlike(i, j)' <=> ExtendAlike(i, j)
  BY <1>1, NamesUnmoved DEF ExtendAlike
<1>5. ASSUME NEW is, NEW c PROVE NamedApart(is, c)' <=> NamedApart(is, c)
  BY <1>1, PlacesUnmoved DEF NamedApart
<1>6. ASSUME NEW m PROVE ReservedApart(m)' <=> ReservedApart(m)
  BY PlacesUnmoved, <1>1, ClashesUnmoved DEF ReservedApart
<1>7. ASSUME NEW is, NEW c PROVE Ended(is, c)' = Ended(is, c)
  BY <1>1, PlacesUnmoved DEF Ended
<1>8. ASSUME NEW c PROVE TypesEnded(c)' = TypesEnded(c)
  BY <1>7 DEF TypesEnded
<1>9. ASSUME NEW S PROVE FullyNamedApart(S)' <=> FullyNamedApart(S)
  BY <1>1, NamesUnmoved DEF FullyNamedApart
<1>10. ASSUME NEW c PROVE FitBefore(c)' <=> FitBefore(c)
  BY <1>1, <1>2, PlacesUnmoved, RulesUnmoved DEF FitBefore
<1>11. ASSUME NEW c PROVE OnePackage(c)' <=> OnePackage(c)
  BY <1>1, PlacesUnmoved DEF OnePackage
<1>12. ASSUME NEW c PROVE ExtendedApart(c)' <=> ExtendedApart(c)
  BY <1>3, <1>4 DEF ExtendedApart
<1>13. ASSUME NEW c PROVE EndedInOrder(c)' <=> EndedInOrder(c)
  BY <1>6, <1>7, <1>8, <1>9, ClashesUnmoved DEF EndedInOrder
<1>14. ASSUME NEW c PROVE InOrderBefore(c)' <=> InOrderBefore(c)
  BY <1>5, <1>10, <1>11, <1>12, <1>13 DEF InOrderBefore
<1> QED BY <1>14

\* The descriptors that are due.
LEMMA MadeUnmoved ==
  ASSUME Unmoved
  PROVE  \A file, c : Made(file, c)' <=> Made(file, c)
<1>1. source' = source
  BY DEF Unmoved
<1>2. ASSUME NEW j PROVE ExtensionRangesAt(j)' = ExtensionRangesAt(j)
  BY <1>1 DEF ExtensionRangesAt
<1>3. ASSUME NEW d, NEW m PROVE MessageMade(d, m)' <=> MessageMade(d, m)
  BY <1>1, <1>2, PlacesUnmoved, NamesUnmoved DEF MessageMade
<1>4. ASSUME NEW d, NEW e PROVE EnumMade(d, e)' <=> EnumMade(d, e)
  BY <1>1, PlacesUnmoved, NamesUnmoved DEF EnumMade
<1>5. ASSUME NEW s PROVE KindsIn(s)' = KindsIn(s)
  BY <1>1, PlacesUnmoved DEF KindsIn
<1>6. ASSUME NEW f, NEW S PROVE MessagesMade(f, S)' <=> MessagesMade(f, S)
  BY <1>1, <1>3, NamesUnmoved DEF MessagesMade
<1>7. ASSUME NEW f, NEW S PROVE EnumsMade(f, S)' <=> EnumsMade(f, S)
  BY <1>1, <1>4, NamesUnmoved DEF EnumsMade
<1>8. ASSUME NEW f, NEW S PROVE ServicesMade(f, S)' <=> ServicesMade(f, S)
  BY <1>1, <1>5, NamesUnmoved DEF ServicesMade
<1>9. ASSUME NEW f, NEW S PROVE OptionsMade(f, S)' <=> OptionsMade(f, S)
  BY <1>1, NamesUnmoved DEF OptionsMade
<1>10. ASSUME NEW f, NEW S PROVE OthersMade(f, S)' <=> OthersMade(f, S)
  BY <1>1, NamesUnmoved DEF OthersMade
<1>11. ExtensionsAt' = ExtensionsAt
  BY <1>1, PlacesUnmoved DEF ExtensionsAt
<1>12. OptionsAt' = OptionsAt /\ OthersAt' = OthersAt
  BY <1>1, <1>11, NamesUnmoved DEF OptionsAt, OthersAt
<1>13. ASSUME NEW is, NEW c PROVE Ended(is, c)' = Ended(is, c)
  BY <1>1, PlacesUnmoved DEF Ended
<1>14. ASSUME NEW options, NEW S PROVE LastSet(options, S)' <=> LastSet(options, S)
  BY <1>1 DEF LastSet
<1>15. ASSUME NEW file, NEW c PROVE Made(file, c)' <=> Made(file, c)
  BY <1>6, <1>7, <1>8, <1>9, <1>10, <1>12, <1>13, <1>14, PlacesUnmoved, <1>1 DEF Made
<1> QED BY <1>15

\* All that is tracked.
LEMMA TrackingUnmoved ==
  ASSUME Unmoved
  PROVE  \A c, s, file, p, list : Tracked(c, s, file, p, list)' <=> Tracked(c, s, file, p, list)
<1>1. source' = source
  BY DEF Unmoved
<1>2. ASSUME NEW j PROVE ImportAt(j)' = ImportAt(j)
  BY <1>1 DEF ImportAt
<1>3. ASSUME NEW c PROVE ImportedBefore(c)' = ImportedBefore(c)
  BY <1>1, <1>2, PlacesUnmoved DEF ImportedBefore
<1>4. ASSUME NEW c, NEW s, NEW file, NEW p, NEW list
      PROVE  Tracked(c, s, file, p, list)' <=> Tracked(c, s, file, p, list)
  BY <1>1, <1>3, BlocksUnmoved, OrderUnmoved, MadeUnmoved, NamesUnmoved DEF Tracked
<1> QED BY <1>4

-----------------------------------------------------------------------------
(* The beginning and the end of a source.                                  *)

\* Nothing has been read, or the language.
AtStart(c) ==
  /\ c \in 1 .. Len(source) + 1
  /\ c # 1 => c = 2 /\ source[1].is = "language" /\ source[1].syntax \in Syntax

\* Nothing comes before the first statement but the language.
LEMMA NothingBefore ==
  ASSUME source \in Sources, NEW c, AtStart(c)
  PROVE  /\ \A is : is # "language" => Before(All(is), c) = {}
         /\ Around(c) = {} /\ Level(c - 1) = 0
         /\ \A is \in Described3 : Ended(is, c) = {}
         /\ \A is, i : is # "language" => Before(Inside(is, i), c) = {}
         /\ Before(ExtensionsAt, c) = {} /\ Before(OptionsAt, c) = {} /\ Before(OthersAt, c) = {}
         /\ PackageBefore(c) = <<>> /\ ImportedBefore(c) = <<>> /\ InOrderBefore(c)
<1>1. /\ c \in 1 .. Len(source) + 1 /\ Len(source) \in Nat /\ DOMAIN source = 1 .. Len(source)
      /\ Level(0) = 0 /\ c \in Nat
  BY SourceIs DEF AtStart
<1>2. ASSUME NEW j \in DOMAIN source, j < c
      PROVE  j = 1 /\ c = 2 /\ source[j].is = "language" /\ source[j].syntax \in Syntax
  BY <1>1, <1>2 DEF AtStart
<1>3. ASSUME NEW is, is # "language" PROVE Before(All(is), c) = {}
  BY <1>2, <1>3 DEF Before, All
<1>4. Level(c - 1) = 0
  <2>1. CASE c = 1
    BY <1>1, <2>1
  <2>2. CASE c # 1
    <3>1. c = 2 /\ source[1].is = "language" /\ 1 \in 1 .. Len(source)
      BY <1>1, <2>2 DEF AtStart
    <3>2. source[1].is \notin Opening \cup {"end"}
      BY <3>1 DEF Opening
    <3>3. Level(1) = Level(1 - 1)
      BY <3>1, <3>2, LevelStep
    <3> QED BY <1>1, <3>1, <3>3
  <2> QED BY <2>1, <2>2
<1>5. Around(c) = {}
  <2> SUFFICES ASSUME NEW i \in Around(c) PROVE FALSE
    OBVIOUS
  <2>1. i \in 1 .. Len(source) /\ i < c /\ source[i].is \in Opening
    BY <1>1, AroundHas
  <2> QED BY <1>1, <1>2, <2>1 DEF Opening
<1>6. ASSUME NEW is \in Described3 PROVE Ended(is, c) = {}
  BY <1>3, <1>6 DEF Ended, Described3
<1>7. ASSUME NEW is, NEW i, is # "language" PROVE Before(Inside(is, i), c) = {}
  BY <1>3, <1>7 DEF Before, Inside
<1>8. Before(ExtensionsAt, c) = {} /\ Before(OptionsAt, c) = {} /\ Before(OthersAt, c) = {}
  BY <1>3, ExtensionSorts DEF Before
<1>9. FitBefore(c)
  <2> SUFFICES ASSUME NEW j \in DOMAIN source, j < c PROVE ~Misfit(j) /\ InPlace(j)
    BY DEF FitBefore
  <2> QED BY <1>2 DEF Misfit, InPlace
<1>10. InOrderBefore(c)
  <2>1. OnePackage(c) /\ NamedApart("rpc", c) /\ NamedApart("oneof", c) /\ ExtendedApart(c)
    BY <1>3, <1>8 DEF OnePackage, NamedApart, ExtendedApart
  <2>2. Ended("message", c) = {} /\ Ended("enum", c) = {} /\ Ended("service", c) = {}
    BY <1>6 DEF Described3
  <2>3. EndedInOrder(c)
    BY <2>2 DEF EndedInOrder, TypesEnded, FullyNamedApart
  <2> QED BY <1>9, <2>1, <2>3 DEF InOrderBefore
<1>11. PackageBefore(c) = <<>>
  <2>1. OnePackage(c) /\ Before(All("package"), c) = {}
    BY <1>3, <1>10 DEF InOrderBefore
  <2> QED BY <1>1, <2>1, PackageIs
<1>12. ImportedBefore(c) = <<>>
  <2>1. Before(All("import"), c) = {}
    BY <1>3
  <2>2. DOMAIN Sorted(Before(All("import"), c)) = {}
    BY <2>1, SortedNone
  <2> QED BY <2>2 DEF ImportedBefore
<1> QED BY <1>3, <1>4, <1>5, <1>6, <1>7, <1>8, <1>10, <1>11, <1>12

\* Nothing has been made but the syntax.
Started ==
  /\ source \in Sources /\ AtStart(cursor)
  /\ stack = <<>> /\ package = <<>> /\ imports = <<>>
  /\ DOMAIN built.messages = {} /\ DOMAIN built.enums = {} /\ DOMAIN built.services = {}
  /\ DOMAIN built.custom_options = {} /\ DOMAIN built.extensions = {} /\ built.options = Nothing

\* At the start nothing is to be tracked.
LEMMA StartTracked == Started => Tracked(cursor, stack, built, package, imports)
<1> SUFFICES ASSUME Started PROVE Tracked(cursor, stack, built, package, imports)
  OBVIOUS
<1>1. /\ source \in Sources /\ AtStart(cursor) /\ stack = <<>> /\ package = <<>> /\ imports = <<>>
      /\ DOMAIN built.messages = {} /\ DOMAIN built.enums = {} /\ DOMAIN built.services = {}
      /\ DOMAIN built.custom_options = {} /\ DOMAIN built.extensions = {} /\ built.options = Nothing
  BY DEF Started
<1>2. /\ Around(cursor) = {} /\ Level(cursor - 1) = 0
      /\ Ended("message", cursor) = {} /\ Ended("enum", cursor) = {} /\ Ended("service", cursor) = {}
      /\ Before(Inside("option", 0), cursor) = {}
      /\ Before(OptionsAt, cursor) = {} /\ Before(OthersAt, cursor) = {}
      /\ PackageBefore(cursor) = <<>> /\ ImportedBefore(cursor) = <<>> /\ InOrderBefore(cursor)
  BY <1>1, NothingBefore DEF Described3
<1>3. StackTracked(stack, cursor)
  BY <1>1, <1>2, LengthOfStack DEF StackTracked
<1>4. Made(built, cursor)
  BY <1>1, <1>2, LastSetNone DEF Made, MessagesMade, EnumsMade, ServicesMade, OptionsMade, OthersMade
<1> QED BY <1>1, <1>2, <1>3, <1>4 DEF Tracked

\* The same of the state after a step.
LEMMA StartTrackedNext == Started' => Tracked(cursor, stack, built, package, imports)'
BY StartTracked, PTL

\* The language is that of all that follows.
LEMMA LanguageExact ==
  ASSUME Inv, BuiltInv, ExactInv, Language
  PROVE  ExactInv'
<1>1. /\ stage = "building" /\ cursor <= Len(source) /\ source[cursor].is = "language" /\ Place = "file"
  BY DEF Language, At, Current
<1>2. Ready
  <2>1. source \in Sources /\ cursor \in 1 .. Len(source) + 1
    BY <1>1 DEF Inv, Working
  <2>2. Len(source) \in Nat
    BY <2>1, SourceIs
  <2>3. cursor \in 1 .. Len(source)
    BY <1>1, <2>1, <2>2
  <2> QED BY <1>1, <2>1, <2>3 DEF BuiltInv, ExactInv, Ready
<1>3. source \in Sources /\ cursor \in DOMAIN source /\ DOMAIN built = FileParts
      /\ Len(source) \in Nat /\ cursor \in 1 .. Len(source)
  BY <1>2, ReadyIs, FileHas DEF Ready
<1>4. cursor = 1
  BY <1>1, <1>3, BuilderAssumption
<1>5. CASE source[cursor].syntax \notin Syntax
  <2>1. Misfit(cursor)
    BY <1>1, <1>5 DEF Misfit
  <2>2. Refuse
    BY <1>5 DEF Language, Current
  <2>3. Defective /\ Unmoved
    BY <1>2, <2>1, <2>2, RefusesMisfit DEF Refuse, Unmoved, FileSyntax
  <2> QED BY <2>2, <2>3, ClashesUnmoved DEF Refuse, ExactInv
<1>6. CASE source[cursor].syntax \in Syntax
  <2> DEFINE s == source[cursor].syntax
  <2>1. /\ built' = [built EXCEPT !.syntax = s, !.features = Defaults(s)] /\ cursor' = 2
        /\ UNCHANGED <<source, limit, stage, stack, package, imports>>
    BY <1>4, <1>6 DEF Language, Current, Advance
  <2> HIDE DEF s
  <2>2. /\ built'.messages = built.messages /\ built'.enums = built.enums
        /\ built'.services = built.services /\ built'.custom_options = built.custom_options
        /\ built'.extensions = built.extensions /\ built'.options = built.options
    BY <1>3, <2>1 DEF FileParts
  <2>3. AtStart(cursor)
    BY <1>3, <1>4 DEF AtStart
  <2>4. /\ Ended("message", cursor) = {} /\ Ended("enum", cursor) = {} /\ Ended("service", cursor) = {}
        /\ Before(Inside("option", 0), cursor) = {}
        /\ Before(OptionsAt, cursor) = {} /\ Before(OthersAt, cursor) = {}
        /\ PackageBefore(cursor) = <<>> /\ ImportedBefore(cursor) = <<>>
    BY <1>3, <2>3, NothingBefore DEF Described3
  <2>5. Made(built, cursor) /\ package = <<>> /\ imports = <<>>
    BY <1>2, <2>4, ReadyIs
  <2>6. /\ DOMAIN built.messages = {} /\ DOMAIN built.enums = {} /\ DOMAIN built.services = {}
        /\ DOMAIN built.custom_options = {} /\ DOMAIN built.extensions = {}
    BY <2>4, <2>5 DEF Made, MessagesMade, EnumsMade, ServicesMade, OptionsMade, OthersMade
  <2>7. built.options = Nothing
    <3>1. LastSet(built.options, {})
      BY <2>4, <2>5 DEF Made
    <3> QED BY <3>1 DEF LastSet, Nothing
  <2>8. stack = <<>>
    BY <1>1, <1>2, ReadyTop
  <2>9. source' \in Sources /\ AtStart(cursor)'
    BY <1>1, <1>3, <1>4, <1>6, <2>1 DEF AtStart
  <2>10. Started'
    BY <2>1, <2>2, <2>5, <2>6, <2>7, <2>8, <2>9 DEF Started
  <2> QED BY <1>1, <2>1, <2>10, StartTrackedNext DEF ExactInv
<1> QED BY <1>5, <1>6

\* A step that changes nothing that is built keeps what is known of it.
LEMMA ExactStays ==
  ASSUME ExactInv, UNCHANGED <<source, limit, cursor, stack, package, imports, built>>,
         stage' = stage
  PROVE  ExactInv'
<1>1. Unmoved
  BY DEF Unmoved, FileSyntax
<1>2. Tracked(cursor, stack, built, package, imports)' <=> Tracked(cursor, stack, built, package, imports)
  BY <1>1, TrackingUnmoved
<1>3. Defective' <=> Defective
  BY <1>1, ClashesUnmoved
<1> QED BY <1>2, <1>3 DEF ExactInv

\* The braces are counted, and the file ends.
LEMMA EndsExact ==
  ASSUME Inv, ExactInv, Scan \/ EndOfFile
  PROVE  ExactInv'
<1>1. /\ UNCHANGED <<source, limit, cursor, stack, package, imports, built>>
      /\ \/ stage = "scanning" /\ stage' = "refused" /\ \E i \in DOMAIN source : Depths(source)[i] > limit
         \/ stage = "scanning" /\ stage' = "building"
         \/ stage = "building" /\ stage' = "parsed" /\ cursor > Len(source)
  BY DEF Scan, EndOfFile, Refuse
<1>2. Unmoved
  BY <1>1 DEF Unmoved, FileSyntax
<1>3. Tracked(cursor, stack, built, package, imports)' <=> Tracked(cursor, stack, built, package, imports)
  BY <1>1, <1>2, TrackingUnmoved
<1>4. Defective' <=> Defective
  BY <1>2, ClashesUnmoved
<1>5. (\E i \in DOMAIN source : Depths(source)[i] > limit) => Defective
  BY DEF Defective
<1> QED BY <1>1, <1>3, <1>4, <1>5 DEF ExactInv

\* Every step of the builder is exact.
LEMMA BuildExact ==
  ASSUME Inv, BuiltInv, ExactInv, Build
  PROVE  ExactInv'
<1>1. CASE Scan \/ EndOfFile
  BY <1>1, EndsExact
<1>2. CASE Language
  BY <1>2, LanguageExact
<1>3. CASE ~(Scan \/ EndOfFile \/ Language)
  <2>1. stage = "building" /\ cursor <= Len(source)
    BY <1>3 DEF Build, Package, Import, SetFeature,
       OpenMessage, DeclareField, Reserve, ReserveExtensions, SkipGroup, CloseMessage, OpenOneof,
       DeclareMember, CloseOneof, OpenEnum, DeclareValue, AllowAlias, CloseEnum, OpenExtend,
       DeclareExtension, CloseExtend, OpenService, DeclareMethod, CloseService, At
  <2>2. source \in Sources /\ cursor \in 1 .. Len(source) + 1
    BY <2>1 DEF Inv, Working
  <2>3. Len(source) \in Nat
    BY <2>2, SourceIs
  <2>4. Ready
    BY <2>1, <2>2, <2>3 DEF BuiltInv, ExactInv, Ready
  <2>5. Outcome
    BY <1>3, <2>4, PackageExact, ImportExact, FeatureExact, DeclarationOpens, ExtensionOpens,
       OneofOpens, GroupExact, ReservedExact, ExtensionRangesExact, ValueExact, AliasExact,
       MethodExact, FieldExact, MemberExact, ExtensionExact, ExtendCloses, OneofCloses,
       MessageCloses, EnumCloses, ServiceCloses DEF Build
  <2>6. Unmoved
    BY <2>5 DEF Outcome, Unmoved
  <2>7. Tracked(cursor, stack, built, package, imports)' <=> Tracked(cursor', stack', built', package', imports')
    BY <2>6, TrackingUnmoved
  <2>8. Defective' <=> Defective
    BY <2>6, ClashesUnmoved
  <2> QED BY <2>5, <2>7, <2>8 DEF Outcome, ExactInv
<1> QED BY <1>1, <1>2, <1>3

\* What is parsed or loaded at first is exact.
LEMMA ExactBegins == ParsingInit => ExactInv
<1>1. ASSUME StartBuilding PROVE ExactInv
  <2>1. /\ source \in Sources /\ cursor = 1 /\ stack = <<>> /\ package = <<>> /\ imports = <<>>
        /\ built = [syntax |-> "proto2", options |-> Nothing, features |-> Defaults("proto2"),
                    messages |-> Nothing, enums |-> Nothing, services |-> Nothing,
                    custom_options |-> Nothing, extensions |-> Nothing, settings |-> {}]
        /\ stage = "scanning"
    BY <1>1 DEF StartBuilding
  <2>2. Len(source) \in Nat
    BY <2>1, SourceIs
  <2>3. AtStart(cursor)
    BY <2>1, <2>2 DEF AtStart
  <2>4. DOMAIN Nothing = {}
    BY DEF Nothing
  <2>5. Started
    BY <2>1, <2>3, <2>4 DEF Started
  <2> QED BY <2>1, <2>5, StartTracked DEF ExactInv
<1>2. ASSUME stage = "loaded" PROVE ExactInv
  BY <1>2 DEF ExactInv
<1> QED BY <1>1, <1>2 DEF ParsingInit

\* Every step of parsing is exact.
LEMMA ExactStep == ParsingInv /\ ExactInv /\ [ParsingNext]_<<building, vars>> => ExactInv'
<1> SUFFICES ASSUME ParsingInv, ExactInv, [ParsingNext]_<<building, vars>> PROVE ExactInv'
  OBVIOUS
<1>1. CASE UNCHANGED building
  BY <1>1, ExactStays DEF building
<1>2. CASE Build
  BY <1>2, BuildExact DEF ParsingInv
<1> QED BY <1>1, <1>2 DEF ParsingNext, BeginLinking, Refused

\* Behind the last statement every block has ended.
LEMMA AllEnded ==
  ASSUME source \in Sources, NEW c, c = Len(source) + 1
  PROVE  /\ Around(c) = {} /\ \A S : S \subseteq DOMAIN source => Before(S, c) = S
         /\ \A is : All(is) \subseteq DOMAIN source /\ Before(All(is), c) = All(is) /\ Ended(is, c) = All(is)
         /\ \A is, i : Before(Inside(is, i), c) = Inside(is, i)
         /\ Before(ExtensionsAt, c) = ExtensionsAt /\ Before(OptionsAt, c) = OptionsAt
         /\ Before(OthersAt, c) = OthersAt
<1>1. /\ Len(source) \in Nat /\ DOMAIN source = 1 .. Len(source) /\ Level(Len(source)) = 0
      /\ c \in 1 .. Len(source) + 1 /\ c - 1 = Len(source)
  BY SourceIs
<1>2. Around(c) = {}
  <2> SUFFICES ASSUME NEW i \in Around(c) PROVE FALSE
    OBVIOUS
  <2>1. Level(i) \in 1 .. Level(c - 1)
    BY <1>1, AroundHas
  <2> QED BY <1>1, <2>1
<1>3. ASSUME NEW S, S \subseteq DOMAIN source PROVE Before(S, c) = S
  BY <1>1, <1>3 DEF Before
<1>4. \A is : All(is) \subseteq DOMAIN source
  BY DEF All
<1>5. \A is : Before(All(is), c) = All(is)
  BY <1>3, <1>4
<1>6. \A is : Ended(is, c) = All(is)
  BY <1>2, <1>5 DEF Ended
<1>7. \A is, i : Inside(is, i) \subseteq DOMAIN source
  BY <1>4 DEF Inside
<1>8. \A is, i : Before(Inside(is, i), c) = Inside(is, i)
  BY <1>3, <1>7
<1>9. /\ ExtensionsAt \subseteq DOMAIN source /\ OptionsAt \subseteq DOMAIN source
      /\ OthersAt \subseteq DOMAIN source
  BY <1>4, ExtensionSorts
<1> QED BY <1>2, <1>3, <1>4, <1>5, <1>6, <1>8, <1>9

\* A source that has been read to its end is not defective.
LEMMA NothingDefective ==
  ASSUME Inv, ExactInv, stage = "parsed"
  PROVE  ~Defective
<1>1. /\ source \in Sources /\ cursor \in 1 .. Len(source) + 1 /\ Scanned
      /\ cursor > Len(source) /\ InOrderBefore(cursor)
  BY DEF Inv, Working, ExactInv, Tracked
<1>2. Len(source) \in Nat /\ DOMAIN source = 1 .. Len(source) /\ limit \in Nat
  BY <1>1, SourceIs, BuilderAssumption DEF Inv, Working
<1>3. cursor = Len(source) + 1
  BY <1>1, <1>2
<1>4. /\ \A is : All(is) \subseteq DOMAIN source /\ Before(All(is), cursor) = All(is)
      /\ \A is : Ended(is, cursor) = All(is)
      /\ Before(ExtensionsAt, cursor) = ExtensionsAt
  BY <1>1, <1>3, AllEnded
<1>5. /\ FitBefore(cursor) /\ OnePackage(cursor) /\ NamedApart("rpc", cursor) /\ ExtendedApart(cursor)
      /\ EndedInOrder(cursor)
  BY <1>1 DEF InOrderBefore
<1>6. ~\E i \in DOMAIN source : Depths(source)[i] > limit
  <2> SUFFICES ASSUME NEW i \in DOMAIN source PROVE ~(Depths(source)[i] > limit)
    OBVIOUS
  <2>1. Depths(source)[i] <= limit
    BY <1>1, <1>2 DEF Scanned
  <2>2. Level(i) \in Nat
    BY <1>1, <1>2, SourceIs
  <2> QED BY <1>2, <2>1, <2>2 DEF Level
<1>7. ASSUME NEW j \in DOMAIN source, Innermost(j, {"group"}) = 0 PROVE ~Misfit(j) /\ InPlace(j)
  BY <1>2, <1>3, <1>5, <1>7 DEF FitBefore
<1>8. ~(Cardinality(All("package")) > 1)
  <2>1. \A i, j \in All("package") : i = j
    BY <1>4, <1>5 DEF OnePackage
  <2>2. CASE All("package") = {}
    BY <2>2, FS_EmptySet
  <2>3. CASE All("package") # {}
    <3>1. PICK i : i \in All("package")
      BY <2>3
    <3>2. All("package") = {i}
      BY <2>1, <3>1
    <3> QED BY <3>2, FS_Singleton
  <2> QED BY <2>2, <2>3
<1>9. /\ \A m \in All("message") : ~MessageClashes(m)
      /\ \A e \in All("enum") : ~EnumClashes(e)
      /\ \A m \in All("message") \cup All("enum") : ReservedApart(m)
      /\ \A i, j \in All("message") \cup All("enum") : FullName(i) = FullName(j) => i = j
      /\ \A i, j \in All("service") : FullName(i) = FullName(j) => i = j
  BY <1>4, <1>5 DEF EndedInOrder, TypesEnded, FullyNamedApart
<1>10. ASSUME NEW i \in All("reserved"), NEW j \in All("reserved"), Owner(i) = Owner(j)
       PROVE  ~Overlap(i, j)
  <2>1. i \in DOMAIN source /\ Innermost(i, {"group"}) = 0 /\ source[i].is = "reserved"
    BY DEF All
  <2>2. Owner(i) # 0 /\ source[Owner(i)].is \in {"message", "enum"}
    BY <1>7, <2>1 DEF InPlace
  <2>3. i \in 1 .. Len(source) + 1
    BY <1>2, <2>1
  <2>4. Owner(i) \in Around(i)
    BY <1>1, <2>2, <2>3, OwnerIs
  <2>5. Owner(i) \in All(source[Owner(i)].is)
    BY <1>1, <2>1, <2>3, <2>4, OutsideGroups
  <2>6. ReservedApart(Owner(i))
    BY <1>9, <2>2, <2>5
  <2>7. i \in Inside("reserved", Owner(i)) /\ j \in Inside("reserved", Owner(i))
    BY <1>10 DEF Inside
  <2> QED BY <2>6, <2>7 DEF ReservedApart
<1>11. ASSUME NEW i \in All("rpc"), NEW j \in All("rpc"), Owner(i) = Owner(j), source[i].name = source[j].name
       PROVE  i = j
  BY <1>4, <1>5, <1>11 DEF NamedApart
<1>12. ~ExtensionsClash
  <2>1. \A i, j \in ExtensionsAt : i # j => ~ExtendAlike(i, j)
    BY <1>4, <1>5 DEF ExtendedApart
  <2> QED BY <2>1 DEF ExtensionsClash, ExtendAlike, ExtensionsAt
<1>13. ~Clashes
  BY <1>8, <1>9, <1>10, <1>11, <1>12 DEF Clashes
<1> QED BY <1>6, <1>7, <1>13 DEF Defective

\* What has been parsed is what the source declares.
LEMMA EverythingDeclared ==
  ASSUME Inv, ExactInv
  PROVE  DeclaredExactly
<1> SUFFICES ASSUME stage = "parsed" PROVE DeclaredExactly
  BY DEF DeclaredExactly
<1>1. /\ source \in Sources /\ cursor \in 1 .. Len(source) + 1 /\ cursor > Len(source)
      /\ Made(built, cursor) /\ imports = ImportedBefore(cursor)
  BY DEF Inv, Working, ExactInv, Tracked
<1>2. cursor = Len(source) + 1
  BY <1>1, SourceIs
<1>3. /\ \A is : Before(All(is), cursor) = All(is) /\ Ended(is, cursor) = All(is)
      /\ Before(Inside("option", 0), cursor) = Inside("option", 0)
      /\ Before(OptionsAt, cursor) = OptionsAt /\ Before(OthersAt, cursor) = OthersAt
  BY <1>1, <1>2, AllEnded
<1>4. /\ MessagesMade(built.messages, All("message")) /\ EnumsMade(built.enums, All("enum"))
      /\ ServicesMade(built.services, All("service"))
      /\ OptionsMade(built.custom_options, OptionsAt) /\ OthersMade(built.extensions, OthersAt)
      /\ LastSet(built.options, Inside("option", 0))
  BY <1>1, <1>3 DEF Made
<1>5. MessagesDeclared
  BY <1>4 DEF MessagesMade, MessageMade, MessagesDeclared, ExtensionRangesAt
<1>6. /\ DOMAIN built.enums = {FullName(e) : e \in All("enum")}
      /\ \A e \in All("enum") :
           /\ built.enums[FullName(e)].values = {source[j].name : j \in Inside("value", e)}
           /\ built.enums[FullName(e)].options = SettingsIn(e)
  BY <1>4 DEF EnumsMade, EnumMade
<1>7. /\ DOMAIN built.services = {FullName(s) : s \in All("service")}
      /\ \A s \in All("service") :
           built.services[FullName(s)] =
             UNION {{source[j].input, source[j].output} : j \in Inside("rpc", s)}
  BY <1>4 DEF ServicesMade, KindsIn
<1>8. /\ OptionsAt = {j \in All("field") : source[Owner(j)].is = "extend" /\ IsOptionMessage(Extends(j))}
      /\ OthersAt = {j \in All("field") : source[Owner(j)].is = "extend" /\ ~IsOptionMessage(Extends(j))}
  BY DEF OptionsAt, OthersAt, ExtensionsAt
<1>9. /\ DOMAIN built.custom_options = {FullName(j) : j \in OptionsAt}
      /\ DOMAIN built.extensions = {FullName(j) : j \in OthersAt}
      /\ \A j \in OptionsAt : built.custom_options[FullName(j)].extendee = Extends(j).name
      /\ \A j \in OthersAt : /\ built.extensions[FullName(j)].extendee.name = Extends(j).name
                             /\ built.extensions[FullName(j)].field.number = source[j].number
  BY <1>4 DEF OptionsMade, OthersMade
<1>10. built.options = SettingsIn(0)
  BY <1>1, <1>4, LastSetIs
<1>11. imports = [n \in DOMAIN Sorted(All("import")) |->
                    LET j == Sorted(All("import"))[n]
                    IN  [path |-> source[j].path, kind |-> source[j].kind]]
  BY <1>1, <1>3 DEF ImportedBefore, ImportAt
<1> QED BY <1>5, <1>6, <1>7, <1>8, <1>9, <1>10, <1>11 DEF DeclaredExactly

\* parse_file accepts a source exactly when it is not defective: whatever the order
\* of its statements and however deep they are nested, it refuses none whose
\* statements are in order and at odds with no other, and lets none pass that is not
\* (validate_message_fields, validate_reserved_declarations, parse_enum, parse_extend);
\* what it accepts is a file as linking expects it, and its recursion is bounded.
THEOREM BuildingIsExact == ParsingSpec => []ParsesExactly
<1>1. ParsingInv /\ ExactInv => ParsesExactly
  BY InvBounds, NothingDefective DEF ParsingInv, BuiltInv, ExactInv, ParsesExactly
<1> QED BY <1>1, ParsingBegins, ParsingStep, ExactBegins, ExactStep, PTL DEF ParsingSpec

\* The descriptors of parse_file are those of the declarations of the source, each
\* under its full name and with all that its block says and nothing else: no field,
\* value, number or setting of a feature is lost, or taken from another block or
\* from a group that is skipped.
THEOREM DeclaringIsExact == ParsingSpec => []DeclaredExactly
<1>1. ParsingInv /\ ExactInv => DeclaredExactly
  BY EverythingDeclared DEF ParsingInv
<1> QED BY <1>1, ParsingBegins, ParsingStep, ExactBegins, ExactStep, PTL DEF ParsingSpec

=============================================================================
