---------------------------- MODULE ContentProofs ----------------------------
(***************************************************************************)
(* For every schema, options and input: the trail of a message only grows, *)
(* one record at a time, and what it has recorded stays, except that the   *)
(* latest live record of a slot may lose its claim to be the retained one; *)
(* the trail of a message names what the message retains; what a decode    *)
(* retains is what the merge rules make of the occurrences that the trail  *)
(* records; and the shared counters pay for all of it.                     *)
(*                                                                         *)
(* A step of the decoder drops every activation, or calls, or goes on with *)
(* one activation: the one at the top or its caller.  Those below it stay  *)
(* as they are, so it is enough to compare one trail before and after.     *)
(* The activation that goes on (Turn) moves on, reads one packed element,  *)
(* or completes an occurrence, which it stores (Stores) and records.  The  *)
(* steps are read once, here; what holds of messages then follows from     *)
(* what each kind of occurrence stores.                                    *)
(*                                                                         *)
(* A trail tells what each of its records tells, one after the other       *)
(* (Told), and what two trails tell together is what each tells (Flatten   *)
(* and Told lemmas, by least counterexample).  A node follows its trail    *)
(* (CollectionsFollow, SingularFollows) when one more record is pushed     *)
(* and when two nodes are merged; a message, when each node does           *)
(* (Follows); and the stack, when each activation does (FollowInv), the    *)
(* packed loop being a message that is not yet in its caller.              *)
(*                                                                         *)
(* The counters pay (CountersInv) for the records of all the activations:  *)
(* a step that keeps no record leaves some of the places where they were   *)
(* (NothingRecorded), one that keeps a record moves those of its callee    *)
(* into the submessage and adds one place (OneRecorded), and the sum over  *)
(* the places is the one over where they came from (RecordsCarried).       *)
(***************************************************************************)
EXTENDS RetentionProofs, WellFoundedInduction, SequenceTheorems

Trail(m) == m[<<>>].audit

\* One trail and the next.
Changed(old, new) == {j \in DOMAIN old : new[j] # old[j]}
Grown(old, new) ==
  /\ Len(new) \in {Len(old), Len(old) + 1}
  /\ Cardinality(Changed(old, new)) <= Len(new) - Len(old)
  /\ \A j \in Changed(old, new) :
       Live(old[j]) /\ new[j] = [old[j] EXCEPT !.tag = "DuplicateDiscarded"]

\* The activations that two stacks share, and their trails.
GrowsTo(new) ==
  \A i \in DOMAIN stack \cap DOMAIN new : Grown(Trail(stack[i].msg), Trail(new[i].msg))

\* Before the call there is nothing to compare with.
Inv3 == status = "idle" => stack = <<>>

\* What every step does.
Step == GrowsTo(stack') /\ (status' = "idle" => stack' = <<>>)

-----------------------------------------------------------------------------
(* Trails.                                                                 *)

\* A nonempty set of positions has a last one.
LEMMA LastPosition ==
  ASSUME NEW n \in Nat, NEW S, S \subseteq 1 .. n, S # {}
  PROVE  \E i \in S : \A j \in S : j <= i
<1> DEFINE R == {ss \in Nat \X Nat : ss[1] < ss[2]}
           T == {d \in Nat : \E i \in S : d = n - i}
<1>1. IsWellFoundedOn(R, Nat)
  BY NatLessThanWellFounded DEF OpToRel
<1>2. T \subseteq Nat /\ T # {}
  <2>1. PICK i \in S : TRUE
    OBVIOUS
  <2>2. n - i \in Nat
    BY <2>1
  <2> QED BY <2>1, <2>2
<1>3. \A x, y \in Nat : y < x => <<y, x>> \in R
  OBVIOUS
<1>4. \A i \in S : i \in 1 .. n /\ n - i \in Nat
  OBVIOUS
<1>5. \A i \in S : n - i \in T
  BY <1>4
<1>6. \A x \in T : \E i \in S : x = n - i
  OBVIOUS
<1> HIDE DEF R, T
<1>7. PICK x \in T : \A y \in T : <<y, x>> \notin R
  BY <1>1, <1>2, WFMin
<1>8. \A y \in T : x <= y
  <2>1. x \in Nat /\ \A y \in T : y \in Nat /\ ~(y < x)
    BY <1>2, <1>3, <1>7
  <2> QED BY <2>1
<1>9. PICK i \in S : x = n - i
  BY <1>6, <1>7
<1>10. \A j \in S : n - i <= n - j
  BY <1>5, <1>8, <1>9
<1>11. \A j \in S : j <= i
  BY <1>4, <1>9, <1>10
<1> QED BY <1>9, <1>11

\* A trail that is not touched.
LEMMA GrownSame ==
  ASSUME NEW old \in Seq(AuditRecord)
  PROVE  Grown(old, old)
<1>1. Changed(old, old) = {}
  BY DEF Changed
<1>2. Cardinality({}) = 0 /\ Len(old) \in Nat
  BY FS_EmptySet
<1> QED BY <1>1, <1>2 DEF Grown

\* A demotion changes the record it names and no other.
LEMMA DemotedRecord ==
  ASSUME NEW old \in Seq(AuditRecord), NEW S
  PROVE  /\ Demote(old, S) \in Seq(AuditRecord) /\ Len(Demote(old, S)) = Len(old)
         /\ DOMAIN old = 1 .. Len(old)
         /\ \/ Demote(old, S) = old
            \/ \E k \in DOMAIN old :
                 /\ Live(old[k]) /\ old[k].field \in S
                 /\ Demote(old, S)[k] = [old[k] EXCEPT !.tag = "DuplicateDiscarded"]
                 /\ \A j \in DOMAIN old : j # k => Demote(old, S)[j] = old[j]
<1> DEFINE live == {i \in DOMAIN old : old[i].field \in S /\ Live(old[i])}
           last == CHOOSE i \in live : \A j \in live : j <= i
           new  == [old EXCEPT ![last].tag = "DuplicateDiscarded"]
<1>1. Demote(old, S) \in Seq(AuditRecord)
  BY DemoteTyped
<1>2. Demote(old, S) = IF live = {} THEN old ELSE new
  BY DEF Demote
<1>3. Len(old) \in Nat /\ DOMAIN old = 1 .. Len(old)
  BY LenProperties
<1>4. CASE live = {}
  BY <1>1, <1>2, <1>3, <1>4
<1>5. CASE live # {}
  <2>1. last \in live
    <3>1. live \subseteq 1 .. Len(old)
      BY <1>3
    <3> HIDE DEF live
    <3>2. \E i \in live : \A j \in live : j <= i
      BY <1>3, <1>5, <3>1, LastPosition
    <3> QED BY <3>2
  <2>2. last \in DOMAIN old /\ Live(old[last]) /\ old[last].field \in S
    BY <2>1
  <2> HIDE DEF last, live
  <2>3. /\ DOMAIN new = DOMAIN old
        /\ new[last] = [old[last] EXCEPT !.tag = "DuplicateDiscarded"]
        /\ \A j \in DOMAIN old : j # last => new[j] = old[j]
    BY <2>2
  <2>4. Demote(old, S) = new
    BY <1>2, <1>5
  <2> HIDE DEF new
  <2>5. Len(Demote(old, S)) = Len(old)
    BY <1>1, <1>3, <2>3, <2>4, LenProperties
  <2> QED BY <1>1, <1>3, <2>2, <2>3, <2>4, <2>5
<1> QED BY <1>4, <1>5

\* What becomes of a trail before a record is pushed.
Demoted(old, mid) == mid = old \/ \E S : mid = Demote(old, S)

\* A record is pushed, after a demotion or not.
LEMMA GrownPush ==
  ASSUME NEW old \in Seq(AuditRecord), NEW mid, Demoted(old, mid), NEW r
  PROVE  Grown(old, Append(mid, r))
<1> DEFINE new == Append(mid, r)
<1>1. /\ mid \in Seq(AuditRecord) /\ Len(mid) = Len(old) /\ DOMAIN old = 1 .. Len(old)
      /\ \/ mid = old
         \/ \E k \in DOMAIN old :
              /\ Live(old[k])
              /\ mid[k] = [old[k] EXCEPT !.tag = "DuplicateDiscarded"]
              /\ \A j \in DOMAIN old : j # k => mid[j] = old[j]
  <2>1. CASE mid = old
    BY <2>1, LenProperties
  <2>2. ASSUME NEW S, mid = Demote(old, S)
        PROVE  /\ mid \in Seq(AuditRecord) /\ Len(mid) = Len(old)
               /\ \/ mid = old
                  \/ \E k \in DOMAIN old :
                       /\ Live(old[k])
                       /\ mid[k] = [old[k] EXCEPT !.tag = "DuplicateDiscarded"]
                       /\ \A j \in DOMAIN old : j # k => mid[j] = old[j]
    BY <2>2, DemotedRecord
  <2> QED BY <2>1, <2>2, LenProperties DEF Demoted
<1>2. Len(old) \in Nat /\ Len(new) = Len(old) + 1 /\ \A j \in DOMAIN old : new[j] = mid[j]
  <2>1. mid \in Seq(AuditRecord \cup {r}) /\ r \in AuditRecord \cup {r}
    BY <1>1
  <2> QED BY <1>1, <2>1, AppendProperties
<1> HIDE DEF new
<1>3. Cardinality({}) = 0
  BY FS_EmptySet
<1>4. CASE mid = old
  <2>1. Changed(old, new) = {}
    BY <1>2, <1>4 DEF Changed
  <2> QED BY <1>2, <1>3, <2>1 DEF Grown, new
<1>5. ASSUME NEW k \in DOMAIN old, Live(old[k]),
             mid[k] = [old[k] EXCEPT !.tag = "DuplicateDiscarded"],
             \A j \in DOMAIN old : j # k => mid[j] = old[j]
      PROVE  Grown(old, new)
  <2>1. Changed(old, new) = {} \/ Changed(old, new) = {k}
    BY <1>2, <1>5 DEF Changed
  <2>2. Cardinality(Changed(old, new)) <= 1
    <3>1. Cardinality({k}) = 1
      BY FS_Singleton
    <3> DEFINE c == Cardinality(Changed(old, new))
    <3>2. c = 0 \/ c = 1
      BY <1>3, <2>1, <3>1
    <3> HIDE DEF c
    <3>3. c <= 1
      BY <3>2
    <3> QED BY <3>3 DEF c
  <2>3. \A j \in Changed(old, new) :
          Live(old[j]) /\ new[j] = [old[j] EXCEPT !.tag = "DuplicateDiscarded"]
    BY <1>2, <1>5, <2>1
  <2> QED BY <1>2, <2>2, <2>3 DEF Grown
<1> QED BY <1>1, <1>4, <1>5 DEF new

-----------------------------------------------------------------------------
(* Messages.                                                               *)

\* A function whose root is a node, whatever the types of the fields.
Rooted(m) ==
  /\ <<>> \in DOMAIN m /\ m = [a \in DOMAIN m |-> m[a]]
  /\ LET n == m[<<>>]
     IN  n = [scalar |-> n.scalar, rep |-> n.rep, map |-> n.map,
              unknown |-> n.unknown, audit |-> n.audit]

\* A message has a root, and the root a trail.
LEMMA MessageRooted ==
  ASSUME NEW m, IsMessage(m)
  PROVE  Rooted(m) /\ Trail(m) \in Seq(AuditRecord)
BY DEF IsMessage, Trail, Node, Rooted

\* The same trail, whatever else changes.
Keeps(new, m) == Rooted(new) /\ Trail(new) = Trail(m)

\* Storing a value leaves the trail alone.
LEMMA StoringKeeps ==
  ASSUME NEW m, Rooted(m), NEW f, NEW x
  PROVE  /\ Keeps(SetScalar(m, f, x), m)
         /\ Keeps(SetRep(m, f, x), m)
         /\ Keeps(SetMap(m, f, x), m)
         /\ Keeps(PushUnknown(m, x), m)
         /\ Keeps(KeepUnknown(m, x), m)
         /\ Keeps(Displace(m, f), m)
         /\ Keeps(MergeMessage(m, f, x), m)
<1>1. Keeps(SetScalar(m, f, x), m)
  BY DEF Trail, SetScalar, Rooted, Keeps
<1>2. Keeps(SetRep(m, f, x), m)
  BY DEF Trail, SetRep, Rooted, Keeps
<1>3. Keeps(SetMap(m, f, x), m)
  BY DEF Trail, SetMap, Rooted, Keeps
<1>4. Keeps(PushUnknown(m, x), m)
  BY DEF Trail, PushUnknown, Rooted, Keeps
<1>5. Keeps(KeepUnknown(m, x), m)
  BY <1>4 DEF KeepUnknown, Keeps
<1>6. Keeps(Displace(m, f), m)
  BY DEF Trail, Displace, RemoveFields, Under, Rooted, Keeps
<1>7. Keeps(MergeMessage(m, f, x), m)
  BY DEF Trail, MergeMessage, Under, Rooted, Keeps
<1> QED BY <1>1, <1>2, <1>3, <1>4, <1>5, <1>6, <1>7

\* Demoting keeps the root, and only demotes records of its trail.
LEMMA Demoting ==
  ASSUME NEW m, Rooted(m), NEW f, NEW duplicate, NEW merged
  PROVE  /\ Rooted(DemoteDisplaced(m, f, duplicate, merged))
         /\ Demoted(Trail(m), Trail(DemoteDisplaced(m, f, duplicate, merged)))
<1>1. ASSUME NEW S
      PROVE  Rooted(DemoteIn(m, S)) /\ Trail(DemoteIn(m, S)) = Demote(Trail(m), S)
  BY DEF Trail, DemoteIn, Rooted
<1> QED BY <1>1 DEF DemoteDisplaced, Demoted

\* A record is pushed on the trail.
LEMMA Pushing ==
  ASSUME NEW m, Rooted(m), NEW r
  PROVE  Trail(PushAudit(m, r)) = Append(Trail(m), r)
BY DEF Trail, PushAudit, Rooted

-----------------------------------------------------------------------------
(* Steps.                                                                  *)

\* The activations, and what lies under each.
LEMMA Activations ==
  ASSUME Inv
  PROVE  /\ stack \in Seq(Frame) /\ Len(stack) \in Nat /\ DOMAIN stack = 1 .. Len(stack)
         /\ \A i \in DOMAIN stack : /\ stack[i] \in Frame /\ IsMessage(stack[i].msg)
                                   /\ Rooted(stack[i].msg)
                                   /\ Trail(stack[i].msg) \in Seq(AuditRecord)
<1>1. stack \in Seq(Frame)
  BY DEF Inv, StackOK
<1>2. Len(stack) \in Nat /\ DOMAIN stack = 1 .. Len(stack)
  BY <1>1, LenProperties
<1>3. ASSUME NEW i \in DOMAIN stack
      PROVE  stack[i] \in Frame /\ IsMessage(stack[i].msg)
  <2>1. stack[i] \in Frame
    BY <1>1
  <2> QED BY <2>1, MessageSet DEF Frame
<1> QED BY <1>1, <1>2, <1>3, MessageRooted

\* An error ends the call.
LEMMA FailGrows ==
  ASSUME Inv, Fail
  PROVE  Step
<1>1. DOMAIN stack' = {}
  BY DEF Fail
<1> QED BY <1>1 DEF Step, GrowsTo, Fail

\* The activation k goes on, those under it wait, those above it are over.
LEMMA GoOnGrows ==
  ASSUME Inv, NEW k \in 1 .. Len(stack), NEW fr,
         Grown(Trail(stack[k].msg), Trail(fr.msg))
  PROVE  GrowsTo(Append(SubSeq(stack, 1, k - 1), fr))
<1> DEFINE below == SubSeq(stack, 1, k - 1)
           new   == Append(below, fr)
<1>1. /\ stack \in Seq(Frame) /\ Len(stack) \in Nat /\ DOMAIN stack = 1 .. Len(stack)
      /\ \A i \in DOMAIN stack : Grown(Trail(stack[i].msg), Trail(stack[i].msg))
  BY Activations, GrownSame
<1>2. k - 1 \in 0 .. Len(stack)
  BY <1>1
<1>3. /\ below \in Seq(Frame) /\ Len(below) = k - 1
      /\ \A i \in 1 .. k - 1 : below[i] = stack[i]
  BY <1>1, <1>2, PrefixProperties
<1> HIDE DEF below
<1>4. /\ DOMAIN new = 1 .. k /\ new[k] = fr
      /\ \A i \in 1 .. k - 1 : new[i] = stack[i]
  <2>1. below \in Seq(Frame \cup {fr}) /\ fr \in Frame \cup {fr}
    BY <1>3
  <2>2. /\ Len(new) = Len(below) + 1 /\ new \in Seq(Frame \cup {fr})
        /\ new[Len(below) + 1] = fr
        /\ \A i \in 1 .. Len(below) : new[i] = below[i]
    BY <2>1, AppendProperties
  <2>3. DOMAIN new = 1 .. Len(new)
    BY <2>2, LenProperties
  <2> HIDE DEF new
  <2> QED BY <1>1, <1>3, <2>2, <2>3
<1> HIDE DEF new
<1>5. ASSUME NEW i \in DOMAIN stack \cap DOMAIN new
      PROVE  Grown(Trail(stack[i].msg), Trail(new[i].msg))
  <2>1. CASE i = k
    BY <1>4, <2>1
  <2>2. CASE i # k
    <3>1. i \in 1 .. k - 1
      BY <1>1, <1>4, <2>2
    <3> QED BY <1>1, <1>4, <3>1
  <2> QED BY <2>1, <2>2
<1> QED BY <1>5 DEF GrowsTo, new, below

\* One more activation on top.
LEMMA CallGrows ==
  ASSUME Inv, NEW S, NEW t \in Seq(S), GrowsTo(t), Len(t) >= Len(stack), NEW callee \in S
  PROVE  GrowsTo(Append(t, callee))
<1> DEFINE new == Append(t, callee)
<1>1. Len(stack) \in Nat /\ DOMAIN stack = 1 .. Len(stack)
  BY Activations
<1>2. /\ Len(t) \in Nat /\ DOMAIN t = 1 .. Len(t)
      /\ DOMAIN new = 1 .. Len(t) + 1 /\ \A i \in 1 .. Len(t) : new[i] = t[i]
  BY AppendProperties, LenProperties
<1> HIDE DEF new
<1>3. \A i \in DOMAIN stack \cap DOMAIN new : i \in DOMAIN t /\ new[i] = t[i]
  BY <1>1, <1>2
<1> QED BY <1>3 DEF GrowsTo, new

\* The activations at the top of the stack.
LEMMA Innermost ==
  ASSUME Inv, status = "decoding"
  PROVE  /\ Len(stack) \in 1 .. Len(stack) /\ Top \in Frame /\ Rooted(Top.msg)
         /\ Trail(Top.msg) \in Seq(AuditRecord)
         /\ Len(stack) > 1 =>
              /\ Len(stack) - 1 \in 1 .. Len(stack) /\ Caller \in Frame /\ Rooted(Caller.msg)
              /\ Trail(Caller.msg) \in Seq(AuditRecord)
              /\ Below(2) = SubSeq(stack, 1, (Len(stack) - 1) - 1)
<1>1. stack # <<>>
  BY DEF Inv
<1>2. Len(stack) \in Nat /\ Len(stack) >= 1
  BY <1>1, Activations, EmptySeq
<1>3. Len(stack) \in DOMAIN stack /\ (Len(stack) > 1 => Len(stack) - 1 \in DOMAIN stack)
  BY <1>2, Activations
<1>4. Len(stack) > 1 => Below(2) = SubSeq(stack, 1, (Len(stack) - 1) - 1)
  <2>1. (Len(stack) - 1) - 1 = Len(stack) - 2
    BY <1>2
  <2> QED BY <2>1 DEF Below
<1> QED BY <1>2, <1>3, <1>4, Activations DEF Top, Caller

\* The activation at the top goes on without a record, and maybe calls.
LEMMA TopGoesOn ==
  ASSUME Inv, status = "decoding", status' = status,
         NEW fr, Keeps(fr.msg, Top.msg), stack' = Append(Below(1), fr)
  PROVE  Step
<1>1. Grown(Trail(Top.msg), Trail(fr.msg))
  BY Innermost, GrownSame DEF Keeps
<1>2. GrowsTo(Append(SubSeq(stack, 1, Len(stack) - 1), fr))
  BY <1>1, Innermost, GoOnGrows DEF Top
<1> QED BY <1>2 DEF Step, Below

\* The innermost activation begins another.
LEMMA TopCalls ==
  ASSUME Inv, status = "decoding", status' = status,
         NEW fr, Keeps(fr.msg, Top.msg), NEW callee,
         stack' = Below(1) \o <<fr, callee>>
  PROVE  Step
<1> DEFINE t == Append(Below(1), fr)
           S == Frame \cup {fr, callee}
<1>1. Grown(Trail(Top.msg), Trail(fr.msg))
  BY Innermost, GrownSame DEF Keeps
<1>2. GrowsTo(t)
  BY <1>1, Innermost, GoOnGrows DEF Top, Below
<1>3. Below(1) \in Seq(Frame) /\ Len(Below(1)) = Len(stack) - 1 /\ Len(stack) \in Nat
  BY Activations, PopOK DEF Inv, StackOK, Below
<1>4. Below(1) \in Seq(S) /\ fr \in S /\ callee \in S
  BY <1>3
<1> HIDE DEF S
<1>5. t \in Seq(S) /\ Len(t) >= Len(stack)
  BY <1>3, <1>4, AppendProperties
<1>6. stack' = Append(t, callee)
  BY <1>4
<1> HIDE DEF t
<1> QED BY <1>2, <1>4, <1>5, <1>6, CallGrows DEF Step

\* A frame whose message has the trail old, or old with a record demoted.
Amends(fr, old) == "msg" \in DOMAIN fr /\ Rooted(fr.msg) /\ Demoted(old, Trail(fr.msg))

\* A record is pushed on the trail of an activation.
LEMMA CommitGrows ==
  ASSUME Inv, status = "decoding", NEW k \in 1 .. Len(stack),
         NEW fr, Amends(fr, Trail(stack[k].msg)),
         NEW tag, NEW f, NEW payload, NEW size, NEW counted,
         Commit(SubSeq(stack, 1, k - 1), fr, tag, f, payload, size, counted)
  PROVE  Step
<1> DEFINE bytes  == IF options.audit_mode = "Full" THEN size ELSE 0
           record == [tag |-> tag, field |-> f, payload |-> payload, bytes |-> bytes]
           new    == [fr EXCEPT !.msg = PushAudit(@, record)]
<1>1. CASE Fail
  BY <1>1, FailGrows
<1>2. CASE stack' = Append(SubSeq(stack, 1, k - 1), new) /\ UNCHANGED status
  <2> HIDE DEF record
  <2>1. Trail(new.msg) = Append(Trail(fr.msg), record)
    BY Pushing DEF Amends
  <2>2. Trail(stack[k].msg) \in Seq(AuditRecord)
    BY Activations
  <2>3. Grown(Trail(stack[k].msg), Trail(new.msg))
    BY <2>1, <2>2, GrownPush DEF Amends
  <2> HIDE DEF new
  <2>4. GrowsTo(stack')
    BY <1>2, <2>3, GoOnGrows
  <2> QED BY <1>2, <2>4 DEF Step
<1> QED BY <1>1, <1>2 DEF Commit

\* The innermost activation keeps an occurrence and goes on.
LEMMA TopCommits ==
  ASSUME Inv, status = "decoding", NEW fr, Amends(fr, Trail(Top.msg)),
         NEW tag, NEW f, NEW payload, NEW size, NEW counted,
         Commit(Below(1), fr, tag, f, payload, size, counted)
  PROVE  Step
<1>1. Len(stack) \in 1 .. Len(stack)
  BY Innermost
<1> QED BY <1>1, CommitGrows DEF Top, Below

\* The caller keeps what its callee decoded and goes on.
LEMMA CallerCommits ==
  ASSUME Inv, status = "decoding", Len(stack) > 1, NEW fr, Amends(fr, Trail(Caller.msg)),
         NEW tag, NEW f, NEW payload, NEW size, NEW counted,
         Commit(Below(2), fr, tag, f, payload, size, counted)
  PROVE  Step
<1> DEFINE k == Len(stack) - 1
<1>1. k \in 1 .. Len(stack) /\ Below(2) = SubSeq(stack, 1, k - 1) /\ Caller = stack[k]
  BY Innermost DEF Caller
<1> HIDE DEF k
<1> QED BY <1>1, CommitGrows

\* The caller goes on and keeps nothing.
LEMMA CallerGoesOn ==
  ASSUME Inv, status = "decoding", status' = status, Len(stack) > 1,
         NEW fr, Keeps(fr.msg, Caller.msg), stack' = Append(Below(2), fr)
  PROVE  Step
<1> DEFINE k == Len(stack) - 1
<1>1. Grown(Trail(Caller.msg), Trail(fr.msg))
  BY Innermost, GrownSame DEF Keeps
<1>2. k \in 1 .. Len(stack) /\ Below(2) = SubSeq(stack, 1, k - 1) /\ Caller = stack[k]
  BY Innermost DEF Caller
<1> HIDE DEF k
<1> QED BY <1>1, <1>2, GoOnGrows DEF Step

\* The message of a frame after an update of the frame.
LEMMA FrameUpdate ==
  ASSUME NEW fr \in Frame, NEW m, NEW n, NEW x
  PROVE  /\ [fr EXCEPT !.msg = m].msg = m /\ "msg" \in DOMAIN [fr EXCEPT !.msg = m]
         /\ Consume([fr EXCEPT !.msg = m], n).msg = m
         /\ "msg" \in DOMAIN Consume([fr EXCEPT !.msg = m], n)
         /\ Consume([fr EXCEPT !.msg = m, !.items = x], n).msg = m
         /\ Consume(fr, n).msg = fr.msg /\ "msg" \in DOMAIN Consume(fr, n)
         /\ Consume([fr EXCEPT !.key = x], n).msg = fr.msg
         /\ Consume([fr EXCEPT !.val = x], n).msg = fr.msg
         /\ [fr EXCEPT !.val = x].msg = fr.msg
         /\ [fr EXCEPT !.left = x].msg = fr.msg /\ "msg" \in DOMAIN [fr EXCEPT !.left = x]
BY DEF Frame, Consume

\* A frame amends the trail it starts from when its message does.
LEMMA AmendingFrame ==
  ASSUME NEW g \in Frame, NEW m, Rooted(m), NEW old, Demoted(old, Trail(m)), NEW n
  PROVE  Amends([g EXCEPT !.msg = m], old) /\ Amends(Consume([g EXCEPT !.msg = m], n), old)
<1>1. /\ [g EXCEPT !.msg = m].msg = m /\ "msg" \in DOMAIN [g EXCEPT !.msg = m]
      /\ Consume([g EXCEPT !.msg = m], n).msg = m
      /\ "msg" \in DOMAIN Consume([g EXCEPT !.msg = m], n)
  BY DEF Frame, Consume
<1> QED BY <1>1 DEF Amends

\* Storing without a demotion.
LEMMA KeepsDemoted ==
  ASSUME NEW m, NEW new, Keeps(new, m)
  PROVE  Rooted(new) /\ Demoted(Trail(m), Trail(new))
BY DEF Keeps, Demoted

-----------------------------------------------------------------------------
(* Every action.                                                           *)

\* The step UnknownEnumValue only lengthens the trails under way.
LEMMA UnknownEnumValueGrows ==
  ASSUME Inv, NEW f \in Field, NEW v \in Scalar, UnknownEnumValue(f, v)
  PROVE  Step
<1> DEFINE m  == KeepUnknown(Top.msg, <<[field |-> f, payload |-> <<v>>]>>)
           fr == Consume([Top EXCEPT !.msg = m], 2)
<1>1. status = "decoding"
  BY DEF UnknownEnumValue, Starts, Reading
<1>2. Keeps(m, Top.msg)
  BY <1>1, Innermost, StoringKeeps
<1> HIDE DEF m
<1>3. Amends(fr, Trail(Top.msg))
  BY <1>1, <1>2, Innermost, KeepsDemoted, AmendingFrame
<1> HIDE DEF fr
<1>4. CASE Fail
  BY <1>4, FailGrows
<1>5. CASE Commit(Below(1), fr, "UnknownField", f, <<v>>, 2, 1)
  BY <1>1, <1>3, <1>5, TopCommits
<1> QED BY <1>4, <1>5 DEF UnknownEnumValue, fr, m

\* The step SingularScalar only lengthens the trails under way.
LEMMA SingularScalarGrows ==
  ASSUME Inv, NEW f \in Field, NEW v \in Scalar, SingularScalar(f, v)
  PROVE  Step
<1> DEFINE duplicate == Duplicate(Top.msg, f)
           stored    == SetScalar(Displace(Top.msg, f), f, v)
           m         == DemoteDisplaced(stored, f, duplicate, FALSE)
           fr        == Consume([Top EXCEPT !.msg = m], 2)
<1>1. status = "decoding"
  BY DEF SingularScalar, Starts, Reading
<1>2. Keeps(stored, Top.msg)
  BY <1>1, Innermost, StoringKeeps DEF Keeps
<1> HIDE DEF stored
<1>3. Rooted(m) /\ Demoted(Trail(Top.msg), Trail(m))
  BY <1>2, Demoting DEF Keeps
<1> HIDE DEF m
<1>4. Amends(fr, Trail(Top.msg))
  BY <1>1, <1>3, Innermost, AmendingFrame
<1> HIDE DEF fr
<1>5. CASE Fail
  BY <1>5, FailGrows
<1>6. CASE Commit(Below(1), fr, OccurrenceTag(duplicate, FALSE), f, <<v>>, 2, 1)
  BY <1>1, <1>4, <1>6, TopCommits
<1> QED BY <1>5, <1>6 DEF SingularScalar, fr, m, stored

\* The step UnpackedElement only lengthens the trails under way.
LEMMA UnpackedElementGrows ==
  ASSUME Inv, NEW f \in Field, NEW v \in Scalar, UnpackedElement(f, v)
  PROVE  Step
<1> DEFINE m  == SetRep(Top.msg, f, Append(Items(Top.msg[<<>>].rep[f]), v))
           fr == Consume([Top EXCEPT !.msg = m], 2)
<1>1. status = "decoding"
  BY DEF UnpackedElement, Starts, Reading
<1>2. Keeps(m, Top.msg)
  BY <1>1, Innermost, StoringKeeps
<1> HIDE DEF m
<1>3. Amends(fr, Trail(Top.msg))
  BY <1>1, <1>2, Innermost, KeepsDemoted, AmendingFrame
<1> HIDE DEF fr
<1>4. CASE Fail
  BY <1>4, FailGrows
<1>5. CASE Commit(Below(1), fr, "SchemaField", f, <<v>>, 2, 1)
  BY <1>1, <1>3, <1>5, TopCommits
<1> QED BY <1>4, <1>5 DEF UnpackedElement, fr, m

\* A frame that only moves on keeps its message.
LEMMA FrameMovesOn ==
  ASSUME NEW g \in Frame, Rooted(g.msg), NEW n, NEW x
  PROVE  /\ Keeps(Consume(g, n).msg, g.msg)
         /\ Keeps(Consume([g EXCEPT !.key = x], n).msg, g.msg)
         /\ Keeps(Consume([g EXCEPT !.val = x], n).msg, g.msg)
         /\ Keeps([g EXCEPT !.val = x].msg, g.msg)
         /\ Keeps([g EXCEPT !.left = x].msg, g.msg)
         /\ Amends(Consume(g, n), Trail(g.msg)) /\ Amends([g EXCEPT !.left = x], Trail(g.msg))
<1>1. /\ Consume(g, n).msg = g.msg /\ "msg" \in DOMAIN Consume(g, n)
      /\ Consume([g EXCEPT !.key = x], n).msg = g.msg
      /\ Consume([g EXCEPT !.val = x], n).msg = g.msg
      /\ [g EXCEPT !.val = x].msg = g.msg
      /\ [g EXCEPT !.left = x].msg = g.msg /\ "msg" \in DOMAIN [g EXCEPT !.left = x]
  BY DEF Frame, Consume
<1> QED BY <1>1 DEF Keeps, Amends, Demoted

\* The step Decode only lengthens the trails under way.
LEMMA DecodeGrows ==
  ASSUME Inv, Inv3, NEW type, NEW n, Decode(type, n)
  PROVE  Step
<1>1. DOMAIN stack = {}
  BY DEF Decode, Inv3
<1>2. CASE Fail
  BY <1>2, FailGrows
<1>3. CASE status' = "decoding"
  BY <1>1, <1>3 DEF Step, GrowsTo
<1> QED BY <1>2, <1>3 DEF Decode

\* The step PackedElement only lengthens the trails under way.
LEMMA PackedElementGrows ==
  ASSUME Inv, NEW v \in Scalar, PackedElement(v)
  PROVE  Step
<1> DEFINE f  == Top.via
           m  == IF ClosedUnknown(f, v)
                 THEN KeepUnknown(Top.msg, <<[field |-> f, payload |-> <<v>>]>>)
                 ELSE SetRep(Top.msg, f, Append(Items(Top.msg[<<>>].rep[f]), v))
           fr == Consume([Top EXCEPT !.msg = m, !.items = Append(@, v)], 1)
<1>1. status = "decoding"
  BY DEF PackedElement, Packing
<1>2. CASE Fail
  BY <1>2, FailGrows
<1>3. CASE stack' = Append(Below(1), fr) /\ UNCHANGED status
  <2>1. /\ Keeps(KeepUnknown(Top.msg, <<[field |-> f, payload |-> <<v>>]>>), Top.msg)
        /\ Keeps(SetRep(Top.msg, f, Append(Items(Top.msg[<<>>].rep[f]), v)), Top.msg)
    BY <1>1, Innermost, StoringKeeps
  <2>2. Keeps(m, Top.msg)
    BY <2>1
  <2> HIDE DEF m
  <2>3. fr.msg = m
    BY <1>1, Innermost DEF Frame, Consume
  <2> HIDE DEF fr
  <2> QED BY <1>1, <1>3, <2>2, <2>3, TopGoesOn
<1> QED BY <1>2, <1>3 DEF PackedElement

\* An activation that is not the outermost has a caller.
LEMMA EndingHasCaller ==
  ASSUME Inv, status = "decoding", Top.kind # "message" \/ Len(stack) > 1 \/ Top.via # None
  PROVE  Len(stack) > 1
BY CallerProperties DEF Inv

\* The step EndPacked only lengthens the trails under way.
LEMMA EndPackedGrows ==
  ASSUME Inv, EndPacked
  PROVE  Step
<1> DEFINE f    == Top.via
           node == Top.msg[<<>>]
           xs   == Items(Caller.msg[<<>>].rep[f]) \o Items(node.rep[f])
           m    == SetRep(PushUnknown(Caller.msg, node.unknown), f, xs)
           fr   == [Caller EXCEPT !.msg = m]
<1>1. status = "decoding" /\ Len(stack) > 1
  BY EndingHasCaller DEF EndPacked, Packing
<1>2. Keeps(m, Caller.msg)
  <2>1. Keeps(PushUnknown(Caller.msg, node.unknown), Caller.msg)
    BY <1>1, Innermost, StoringKeeps
  <2> QED BY <2>1, StoringKeeps DEF Keeps
<1> HIDE DEF m
<1>3. Amends(fr, Trail(Caller.msg))
  BY <1>1, <1>2, Innermost, KeepsDemoted, AmendingFrame
<1> HIDE DEF fr
<1>4. CASE Commit(Below(2), fr, "SchemaField", f, Top.items, Top.size, 0)
  BY <1>1, <1>3, <1>4, CallerCommits
<1> QED BY <1>4 DEF EndPacked, fr, m

\* The step EndSubmessage only lengthens the trails under way.
LEMMA EndSubmessageGrows ==
  ASSUME Inv, EndSubmessage
  PROVE  Step
<1> DEFINE f         == Top.via
           duplicate == Duplicate(Caller.msg, f)
           stored    == MergeMessage(Displace(Caller.msg, f), f, Top.msg)
           m         == DemoteDisplaced(stored, f, duplicate, duplicate)
           fr        == [Caller EXCEPT !.msg = m]
<1>1. status = "decoding" /\ Len(stack) > 1
  BY DEF EndSubmessage, Ends
<1>2. Keeps(stored, Caller.msg)
  <2>1. Keeps(Displace(Caller.msg, f), Caller.msg)
    BY <1>1, Innermost, StoringKeeps
  <2> QED BY <2>1, StoringKeeps DEF Keeps
<1> HIDE DEF stored
<1>3. Rooted(m) /\ Demoted(Trail(Caller.msg), Trail(m))
  BY <1>2, Demoting DEF Keeps
<1> HIDE DEF m
<1>4. Amends(fr, Trail(Caller.msg))
  BY <1>1, <1>3, Innermost, AmendingFrame
<1> HIDE DEF fr
<1>5. CASE Fail
  BY <1>5, FailGrows
<1>6. CASE Commit(Below(2), fr, OccurrenceTag(duplicate, duplicate), f, <<>>, Top.size, 0)
  BY <1>1, <1>4, <1>6, CallerCommits
<1> QED BY <1>5, <1>6 DEF EndSubmessage, fr, m, stored

\* The step EndElement only lengthens the trails under way.
LEMMA EndElementGrows ==
  ASSUME Inv, EndElement
  PROVE  Step
<1> DEFINE f  == Top.via
           m  == SetRep(Caller.msg, f, Append(Items(Caller.msg[<<>>].rep[f]), Elem))
           fr == [Caller EXCEPT !.msg = m]
<1>1. status = "decoding" /\ Len(stack) > 1
  BY DEF EndElement, Ends
<1>2. Keeps(m, Caller.msg)
  BY <1>1, Innermost, StoringKeeps
<1> HIDE DEF m
<1>3. Amends(fr, Trail(Caller.msg))
  BY <1>1, <1>2, Innermost, KeepsDemoted, AmendingFrame
<1> HIDE DEF fr
<1>4. CASE Fail
  BY <1>4, FailGrows
<1>5. CASE Commit(Below(2), fr, "SchemaField", f, <<>>, Top.size, 0)
  BY <1>1, <1>3, <1>5, CallerCommits
<1> QED BY <1>4, <1>5 DEF EndElement, fr, m

\* The step EndEntry only lengthens the trails under way.
LEMMA EndEntryGrows ==
  ASSUME Inv, EndEntry
  PROVE  Step
<1> DEFINE f         == Top.via
           pair      == EntryPair(Top)
           entries   == Caller.msg[<<>>].map[f]
           duplicate == pair[1] \in Keys(entries)
           stored    == SetMap(Caller.msg, f, PutEntry(entries, pair[1], pair[2]))
           m         == DemoteDisplaced(stored, f, duplicate, FALSE)
           fr        == [Caller EXCEPT !.msg = m]
<1>1. status = "decoding" /\ Len(stack) > 1
  BY EndingHasCaller DEF EndEntry
<1>2. Keeps(stored, Caller.msg)
  BY <1>1, Innermost, StoringKeeps
<1> HIDE DEF stored
<1>3. Rooted(m) /\ Demoted(Trail(Caller.msg), Trail(m))
  BY <1>2, Demoting DEF Keeps
<1> HIDE DEF m
<1>4. Amends(fr, Trail(Caller.msg))
  BY <1>1, <1>3, Innermost, AmendingFrame
<1> HIDE DEF fr
<1>5. CASE Fail
  BY <1>5, FailGrows
<1>6. CASE Commit(Below(2), fr, OccurrenceTag(duplicate, FALSE), f, pair, Top.size, 0)
  BY <1>1, <1>4, <1>6, CallerCommits
<1> QED BY <1>5, <1>6 DEF EndEntry, fr, m, stored

\* The step EndEntryMessage only lengthens the trails under way.
LEMMA EndEntryMessageGrows ==
  ASSUME Inv, EndEntryMessage
  PROVE  Step
<1> DEFINE fr == [Caller EXCEPT !.val = Elem]
<1>1. status = "decoding" /\ Top.via \in MapField
  BY DEF EndEntryMessage, Ends
<1>2. Len(stack) > 1
  BY <1>1, EndingHasCaller, ValueAssumption DEF MapField
<1>3. CASE Fail
  BY <1>3, FailGrows
<1>4. CASE stack' = Append(Below(2), fr) /\ UNCHANGED status
  <2>1. Keeps(fr.msg, Caller.msg)
    BY <1>1, <1>2, Innermost, FrameMovesOn
  <2> HIDE DEF fr
  <2> QED BY <1>1, <1>2, <1>4, <2>1, CallerGoesOn
<1> QED BY <1>3, <1>4 DEF EndEntryMessage

\* The step EntryKey only lengthens the trails under way.
LEMMA EntryKeyGrows ==
  ASSUME Inv, NEW k \in Scalar, EntryKey(k)
  PROVE  Step
<1> DEFINE fr == Consume([Top EXCEPT !.key = k], 2)
<1>1. status = "decoding"
  BY DEF EntryKey, Reading
<1>2. Keeps(fr.msg, Top.msg)
  BY <1>1, Innermost, FrameMovesOn
<1> HIDE DEF fr
<1>3. CASE Fail
  BY <1>3, FailGrows
<1>4. CASE Advance(Append(Below(1), fr))
  BY <1>1, <1>2, <1>4, TopGoesOn DEF Advance
<1> QED BY <1>3, <1>4 DEF EntryKey, fr

\* The step EntryScalar only lengthens the trails under way.
LEMMA EntryScalarGrows ==
  ASSUME Inv, NEW v \in Scalar, EntryScalar(v)
  PROVE  Step
<1> DEFINE fr == Consume([Top EXCEPT !.val = v], 2)
<1>1. status = "decoding"
  BY DEF EntryScalar, Reading
<1>2. Keeps(fr.msg, Top.msg)
  BY <1>1, Innermost, FrameMovesOn
<1> HIDE DEF fr
<1>3. CASE Fail
  BY <1>3, FailGrows
<1>4. CASE Advance(Append(Below(1), fr))
  BY <1>1, <1>2, <1>4, TopGoesOn DEF Advance
<1> QED BY <1>3, <1>4 DEF EntryScalar, fr

\* The step BeginPacked only lengthens the trails under way.
LEMMA BeginPackedGrows ==
  ASSUME Inv, NEW f \in Field, NEW n \in Nat, BeginPacked(f, n)
  PROVE  Step
<1> DEFINE fr     == Consume(Top, n + 2)
           callee == PackedFrame(f, Top.depth, n, n + 2)
<1>1. status = "decoding"
  BY DEF BeginPacked, Starts, Reading
<1>2. Keeps(fr.msg, Top.msg)
  BY <1>1, Innermost, FrameMovesOn
<1> HIDE DEF fr, callee
<1>3. CASE Fail
  BY <1>3, FailGrows
<1>4. CASE Advance(Below(1) \o <<fr, callee>>)
  BY <1>1, <1>2, <1>4, TopCalls DEF Advance
<1> QED BY <1>3, <1>4 DEF BeginPacked, fr, callee

\* The step BeginMessage only lengthens the trails under way.
LEMMA BeginMessageGrows ==
  ASSUME Inv, NEW f \in Field, NEW n \in Nat, BeginMessage(f, n)
  PROVE  Step
<1> DEFINE fr     == Consume(Top, n + 2)
           callee == MessageFrame(Desc[f].child, f, Top.depth + 1, n, n + 2)
<1>1. status = "decoding"
  BY DEF BeginMessage, Starts, Reading
<1>2. Keeps(fr.msg, Top.msg)
  BY <1>1, Innermost, FrameMovesOn
<1> HIDE DEF fr, callee
<1>3. CASE Fail
  BY <1>3, FailGrows
<1>4. CASE Advance(Below(1) \o <<fr, callee>>)
  BY <1>1, <1>2, <1>4, TopCalls DEF Advance
<1> QED BY <1>3, <1>4 DEF BeginMessage, fr, callee

\* The step BeginEntry only lengthens the trails under way.
LEMMA BeginEntryGrows ==
  ASSUME Inv, NEW f \in Field, NEW n \in Nat, BeginEntry(f, n)
  PROVE  Step
<1> DEFINE fr     == Consume(Top, n + 2)
           callee == EntryFrame(f, Top.depth, n, n + 2)
<1>1. status = "decoding"
  BY DEF BeginEntry, Starts, Reading
<1>2. Keeps(fr.msg, Top.msg)
  BY <1>1, Innermost, FrameMovesOn
<1> HIDE DEF fr, callee
<1>3. CASE Fail
  BY <1>3, FailGrows
<1>4. CASE Advance(Below(1) \o <<fr, callee>>)
  BY <1>1, <1>2, <1>4, TopCalls DEF Advance
<1> QED BY <1>3, <1>4 DEF BeginEntry, fr, callee

\* The step BeginEntryMessage only lengthens the trails under way.
LEMMA BeginEntryMessageGrows ==
  ASSUME Inv, NEW n \in Nat, BeginEntryMessage(n)
  PROVE  Step
<1> DEFINE fr     == Consume(Top, n + 2)
           callee == MessageFrame(Desc[Top.via].child, Top.via, Top.depth + 1, n, n + 2)
<1>1. status = "decoding"
  BY DEF BeginEntryMessage, Reading
<1>2. Keeps(fr.msg, Top.msg)
  BY <1>1, Innermost, FrameMovesOn
<1> HIDE DEF fr, callee
<1>3. CASE Fail
  BY <1>3, FailGrows
<1>4. CASE Advance(Below(1) \o <<fr, callee>>)
  BY <1>1, <1>2, <1>4, TopCalls DEF Advance
<1> QED BY <1>3, <1>4 DEF BeginEntryMessage, fr, callee

\* An unknown occurrence is recorded, and kept or dropped.
LEMMA UnknownFrame ==
  ASSUME NEW fr, NEW old, Amends(fr, old), NEW entries
  PROVE  Amends([fr EXCEPT !.msg = KeepUnknown(@, entries)], old)
<1>1. Keeps(KeepUnknown(fr.msg, entries), fr.msg)
  BY StoringKeeps DEF Amends
<1> QED BY <1>1 DEF Amends, Keeps

\* The step Skip only lengthens the trails under way.
LEMMA SkipGrows ==
  ASSUME Inv, status = "decoding", NEW wire, NEW size, Skip(wire, size)
  PROVE  Step
<1> DEFINE fr  == Consume(Top, size)
           new == [fr EXCEPT !.msg =
                     KeepUnknown(@, <<[field |-> None, payload |-> <<wire>>]>>)]
<1>1. Keeps(fr.msg, Top.msg) /\ Amends(fr, Trail(Top.msg))
  BY Innermost, FrameMovesOn
<1> HIDE DEF fr
<1>2. Amends(new, Trail(Top.msg))
  BY <1>1, UnknownFrame
<1> HIDE DEF new
<1>3. CASE Fail
  BY <1>3, FailGrows
<1>4. CASE Commit(Below(1), new, UnknownTag(wire), None, <<wire>>, size, 1)
  BY <1>2, <1>4, TopCommits
<1>5. CASE CommitUnknown(Below(1), fr, wire, size, 1)
  BY <1>3, <1>4, <1>5 DEF CommitUnknown, new
<1>6. CASE Advance(Append(Below(1), fr))
  BY <1>1, <1>6, TopGoesOn DEF Advance
<1> QED BY <1>5, <1>6 DEF Skip, fr

\* The step SkipScalar only lengthens the trails under way.
LEMMA SkipScalarGrows ==
  ASSUME Inv, SkipScalar
  PROVE  Step
BY SkipGrows DEF SkipScalar, Reading

\* The step SkipBytes only lengthens the trails under way.
LEMMA SkipBytesGrows ==
  ASSUME Inv, NEW n, SkipBytes(n)
  PROVE  Step
<1>1. CASE Fail
  BY <1>1, FailGrows
<1>2. CASE Skip(WireBytes, n + 2)
  BY <1>2, SkipGrows DEF SkipBytes, Reading
<1> QED BY <1>1, <1>2 DEF SkipBytes

\* The step BeginGroup only lengthens the trails under way.
LEMMA BeginGroupGrows ==
  ASSUME Inv, BeginGroup
  PROVE  Step
<1> DEFINE callee == GroupFrame(Top.depth + 1, Top.left - 1, Top.left)
           S      == Frame \cup {callee}
<1>1. CASE Fail
  BY <1>1, FailGrows
<1>2. CASE Advance(Append(stack, callee)) /\ status = "decoding"
  <2>1. stack \in Seq(S) /\ Len(stack) >= Len(stack) /\ callee \in S
    BY Activations
  <2>2. GrowsTo(stack)
    BY Activations, GrownSame DEF GrowsTo
  <2> HIDE DEF callee, S
  <2>3. GrowsTo(Append(stack, callee))
    BY <2>1, <2>2, CallGrows
  <2> QED BY <1>2, <2>3 DEF Step, Advance
<1> QED BY <1>1, <1>2 DEF BeginGroup, Reading

\* The step EndGroup only lengthens the trails under way.
LEMMA EndGroupGrows ==
  ASSUME Inv, EndGroup
  PROVE  Step
<1> DEFINE left == Top.left - 1
           size == Top.size - left
           fr   == [Caller EXCEPT !.left = left]
           new  == [fr EXCEPT !.msg =
                      KeepUnknown(@, <<[field |-> None, payload |-> <<WireGroup>>]>>)]
<1>1. status = "decoding" /\ Top.kind = "group"
  BY DEF EndGroup, Reading
<1>2. Len(stack) > 1
  BY <1>1, EndingHasCaller
<1>3. Keeps(fr.msg, Caller.msg) /\ Amends(fr, Trail(Caller.msg))
  BY <1>1, <1>2, Innermost, FrameMovesOn
<1> HIDE DEF fr, left
<1>4. Amends(new, Trail(Caller.msg))
  BY <1>3, UnknownFrame
<1> HIDE DEF new
<1>5. CASE Fail
  BY <1>5, FailGrows
<1>6. CASE Commit(Below(2), new, UnknownTag(WireGroup), None, <<WireGroup>>, size, 1)
  BY <1>1, <1>2, <1>4, <1>6, CallerCommits
<1>7. CASE CommitUnknown(Below(2), fr, WireGroup, size, 1)
  BY <1>5, <1>6, <1>7 DEF CommitUnknown, new
<1>8. CASE Advance(Append(Below(2), fr))
  BY <1>1, <1>2, <1>3, <1>8, CallerGoesOn DEF Advance
<1> QED BY <1>7, <1>8 DEF EndGroup, fr, left

\* Nothing moves.
LEMMA StayGrows ==
  ASSUME Inv, stack' = stack, status' = "idle" => stack = <<>>
  PROVE  Step
BY Activations, GrownSame DEF Step, GrowsTo

\* The step EndRoot only lengthens the trails under way.
LEMMA EndRootGrows ==
  ASSUME Inv, EndRoot
  PROVE  Step
BY FailGrows, StayGrows DEF EndRoot

-----------------------------------------------------------------------------
(* The theorem.                                                            *)

\* Every step lets the trails grow.
LEMMA EveryStepGrows ==
  ASSUME Inv, Inv3, [Next]_vars
  PROVE  Step
<1>0. 0 .. MaxInput \subseteq Nat
  BY InputAssumption
<1>1. ASSUME NEW type \in RootTypes, NEW n \in 0 .. MaxInput, Decode(type, n) PROVE Step
  BY <1>1, DecodeGrows
<1>2. ASSUME CountField \/ Malformed \/ Unterminated PROVE Step
  BY <1>2, FailGrows DEF CountField, Malformed, Unterminated
<1>3. ASSUME NEW f \in Field, NEW v \in Scalar,
             UnknownEnumValue(f, v) \/ SingularScalar(f, v) \/ UnpackedElement(f, v)
      PROVE  Step
  BY <1>3, UnknownEnumValueGrows, SingularScalarGrows, UnpackedElementGrows
<1>4. ASSUME NEW f \in Field, NEW n \in 0 .. MaxInput,
             BeginPacked(f, n) \/ BeginMessage(f, n) \/ BeginEntry(f, n)
      PROVE  Step
  BY <1>0, <1>4, BeginPackedGrows, BeginMessageGrows, BeginEntryGrows
<1>5. ASSUME NEW v \in Scalar, PackedElement(v) \/ EntryKey(v) \/ EntryScalar(v)
      PROVE  Step
  BY <1>5, PackedElementGrows, EntryKeyGrows, EntryScalarGrows
<1>6. ASSUME EndPacked \/ EndSubmessage \/ EndElement \/ EndRoot PROVE Step
  BY <1>6, EndPackedGrows, EndSubmessageGrows, EndElementGrows, EndRootGrows
<1>7. ASSUME NEW n \in 0 .. MaxInput, BeginEntryMessage(n) \/ SkipBytes(n) PROVE Step
  BY <1>0, <1>7, BeginEntryMessageGrows, SkipBytesGrows
<1>8. ASSUME EndEntryMessage \/ EndEntry \/ SkipScalar \/ BeginGroup \/ EndGroup
      PROVE  Step
  BY <1>8, EndEntryMessageGrows, EndEntryGrows, SkipScalarGrows, BeginGroupGrows, EndGroupGrows
<1>9. ASSUME UNCHANGED vars PROVE Step
  BY <1>9, StayGrows DEF vars, Inv3
<1>10. ASSUME Terminated PROVE Step
  BY <1>9, <1>10 DEF Terminated
<1> QED BY <1>1, <1>2, <1>3, <1>4, <1>5, <1>6, <1>7, <1>8, <1>9, <1>10 DEF Next

\* The trail of each message under decoding grows by at most one record in a
\* step, and an old record changes only by being marked discarded, once.
THEOREM TrailsGrow == Spec => TrailGrows
<1> DEFINE A == \A i \in DOMAIN stack \cap DOMAIN stack' :
                  LET old == stack[i].msg[<<>>].audit
                      new == stack'[i].msg[<<>>].audit
                      changed == {j \in DOMAIN old : new[j] # old[j]}
                  IN  /\ Len(new) \in {Len(old), Len(old) + 1}
                      /\ Cardinality(changed) <= Len(new) - Len(old)
                      /\ \A j \in changed :
                           Live(old[j]) /\ new[j] = [old[j] EXCEPT !.tag = "DuplicateDiscarded"]
<1>1. Init => Inv3
  BY DEF Init, Inv3
<1>2. Inv /\ Inv3 /\ [Next]_vars => Inv3'
  BY EveryStepGrows DEF Step, Inv3
<1>3. Inv /\ Inv3 /\ [Next]_vars => A
  BY EveryStepGrows DEF Step, GrowsTo, Grown, Changed, Trail
<1> HIDE DEF A
<1>4. Inv /\ Inv3 /\ [Next]_vars => [A]_vars
  BY <1>3
<1>5. Spec => [][A]_vars
  BY <1>1, <1>2, <1>4, Invariance, PTL DEF Spec
<1> QED BY <1>5, PTL DEF TrailGrows, A

-----------------------------------------------------------------------------
(* Steps.  mid is the message m once the occurrence is stored, before its   *)
(* record (tag, f, payload) is pushed.                                      *)

StoresEnumValue(m, mid, tag, f, payload) ==
  /\ f \in Field \ MapField /\ tag = "UnknownField"
  /\ \E v \in Scalar : /\ ClosedUnknown(f, v) /\ payload = <<v>>
                       /\ mid = KeepUnknown(m, <<[field |-> f, payload |-> <<v>>]>>)

StoresScalar(m, mid, tag, f, payload) ==
  /\ f \in ScalarField /\ tag = OccurrenceTag(Duplicate(m, f), FALSE)
  /\ \E v \in Scalar :
       /\ ~ClosedUnknown(f, v) /\ payload = <<v>>
       /\ mid = DemoteDisplaced(SetScalar(Displace(m, f), f, v), f, Duplicate(m, f), FALSE)

StoresElement(m, mid, tag, f, payload) ==
  /\ f \in RepeatedField /\ Desc[f].child = None /\ tag = "SchemaField"
  /\ \E v \in Scalar : /\ ~ClosedUnknown(f, v) /\ payload = <<v>>
                       /\ mid = SetRep(m, f, Append(Items(m[<<>>].rep[f]), v))

StoresMessage(m, mid, tag, f, payload) ==
  /\ f \in RepeatedField /\ Desc[f].child # None /\ tag = "SchemaField" /\ payload = <<>>
  /\ mid = SetRep(m, f, Append(Items(m[<<>>].rep[f]), Elem))

StoresPacked(m, mid, tag, f, payload, fr) ==
  /\ fr.kind = "packed" /\ f = fr.via /\ f \in RepeatedField
  /\ tag = "SchemaField" /\ payload = fr.items
  /\ mid = SetRep(PushUnknown(m, fr.msg[<<>>].unknown), f,
                  Items(m[<<>>].rep[f]) \o Items(fr.msg[<<>>].rep[f]))

StoresSubmessage(m, mid, tag, f, payload, fr) ==
  /\ fr.kind = "message" /\ f = fr.via /\ f \in MessageField
  /\ tag = OccurrenceTag(Duplicate(m, f), Duplicate(m, f)) /\ payload = <<>>
  /\ mid = DemoteDisplaced(MergeMessage(Displace(m, f), f, fr.msg), f,
                           Duplicate(m, f), Duplicate(m, f))

StoresEntry(m, mid, tag, f, payload) ==
  /\ f \in MapField
  /\ \E k \in Scalar, v \in Value :
       LET duplicate == k \in Keys(m[<<>>].map[f])
       IN  /\ payload = <<k, v>> /\ tag = OccurrenceTag(duplicate, FALSE)
           /\ mid = DemoteDisplaced(SetMap(m, f, PutEntry(m[<<>>].map[f], k, v)), f,
                                    duplicate, FALSE)

StoresUnknown(m, mid, tag, f, payload) ==
  /\ f = None
  /\ \E wire \in Wire :
       /\ tag = UnknownTag(wire) /\ payload = <<wire>>
       /\ mid = KeepUnknown(m, <<[field |-> None, payload |-> <<wire>>]>>)

\* Without the callee.
StoresAlone(m, mid, tag, f, payload) ==
  \/ StoresEnumValue(m, mid, tag, f, payload)
  \/ StoresScalar(m, mid, tag, f, payload)
  \/ StoresElement(m, mid, tag, f, payload)
  \/ StoresMessage(m, mid, tag, f, payload)
  \/ StoresEntry(m, mid, tag, f, payload)
  \/ StoresUnknown(m, mid, tag, f, payload)

\* The activation k completes an occurrence.
Stores(k, mid, tag, f, payload) ==
  LET m == stack[k].msg
  IN  \/ StoresAlone(m, mid, tag, f, payload)
      \/ /\ k + 1 \in 1 .. Len(stack)
         /\ \/ StoresPacked(m, mid, tag, f, payload, stack[k + 1])
            \/ StoresSubmessage(m, mid, tag, f, payload, stack[k + 1])

\* The packed loop of old has read one more element.
ReadsElement(fr, old) ==
  /\ old.kind = "packed"
  /\ \E v \in Scalar :
       /\ fr.items = Append(old.items, v)
       /\ fr.msg = IF ClosedUnknown(old.via, v)
                   THEN KeepUnknown(old.msg, <<[field |-> old.via, payload |-> <<v>>]>>)
                   ELSE SetRep(old.msg, old.via, Append(Items(old.msg[<<>>].rep[old.via]), v))

\* The occurrences counted in this step pay for one record on top of the
\* activations it begins; one that ends has paid already.
PaysRecord == Len(stack') + field_occurrences < Len(stack) + field_occurrences'

\* The activation k becomes fr.
Turn(k, fr) ==
  /\ fr.kind = stack[k].kind /\ fr.via = stack[k].via
  /\ \/ fr.msg = stack[k].msg /\ fr.items = stack[k].items
     \/ ReadsElement(fr, stack[k])
     \/ /\ stack[k].kind # "packed" /\ PaysRecord
        /\ \E mid, tag, f, payload :
             /\ Stores(k, mid, tag, f, payload)
             /\ fr.msg = PushAudit(mid, [tag |-> tag, field |-> f, payload |-> payload,
                                         bytes |-> audit_bytes' - audit_bytes])

Fresh(fr) ==
  /\ fr.msg = New /\ fr.items = <<>>
  /\ fr.kind = "packed" => Desc[fr.via].child = None

Moves ==
  \/ stack' = <<>> \/ stack' = stack
  \/ \E k \in 1 .. Len(stack) : \E fr :
       /\ Turn(k, fr)
       /\ \/ stack' = Append(SubSeq(stack, 1, k - 1), fr)
          \/ \E callee : /\ Fresh(callee)
                         /\ stack' = Append(Append(SubSeq(stack, 1, k - 1), fr), callee)
  \/ \E callee : Fresh(callee) /\ stack' = Append(stack, callee)

\* A frame record, whatever the types of its fields.
FrameRecord(fr) ==
  fr = [kind |-> fr.kind, type |-> fr.type, via |-> fr.via, depth |-> fr.depth,
        left |-> fr.left, size |-> fr.size, msg |-> fr.msg, key |-> fr.key,
        val |-> fr.val, items |-> fr.items]

\* The activation old, with the message m.
Becomes(fr, old, m) ==
  /\ FrameRecord(fr) /\ fr.msg = m
  /\ fr.kind = old.kind /\ fr.via = old.via /\ fr.items = old.items

\* A frame updated in some fields is the record of its fields.
LEMMA BecomesUpdate ==
  ASSUME NEW fr, NEW old, NEW m, Becomes(fr, old, m), NEW x
  PROVE  /\ Becomes([fr EXCEPT !.msg = x], old, x)
         /\ Becomes(Consume(fr, x), old, m)
         /\ Becomes([fr EXCEPT !.key = x], old, m)
         /\ Becomes([fr EXCEPT !.val = x], old, m)
         /\ Becomes([fr EXCEPT !.left = x], old, m)
<1>1. Becomes([fr EXCEPT !.msg = x], old, x)
  BY DEF Becomes, FrameRecord
<1>2. Becomes(Consume(fr, x), old, m)
  BY DEF Becomes, FrameRecord, Consume
<1>3. Becomes([fr EXCEPT !.key = x], old, m)
  BY DEF Becomes, FrameRecord
<1>4. Becomes([fr EXCEPT !.val = x], old, m)
  BY DEF Becomes, FrameRecord
<1>5. Becomes([fr EXCEPT !.left = x], old, m)
  BY DEF Becomes, FrameRecord
<1> QED BY <1>1, <1>2, <1>3, <1>4, <1>5

\* The activations at the top of the stack, as they are.
LEMMA Activated ==
  ASSUME Inv, Inv2, status = "decoding"
  PROVE  /\ Len(stack) \in 1 .. Len(stack) /\ Top = stack[Len(stack)]
         /\ Top \in Frame /\ Becomes(Top, Top, Top.msg)
         /\ Below(1) = SubSeq(stack, 1, Len(stack) - 1)
         /\ Len(stack) > 1 =>
              /\ Len(stack) - 1 \in 1 .. Len(stack) /\ Caller = stack[Len(stack) - 1]
              /\ Len(stack) - 1 + 1 = Len(stack)
              /\ Caller \in Frame /\ Becomes(Caller, Caller, Caller.msg)
              /\ Below(2) = SubSeq(stack, 1, (Len(stack) - 1) - 1)
              /\ Link(Caller, Top, options)
<1>1. \A fr \in Frame : Becomes(fr, fr, fr.msg)
  BY DEF Becomes, FrameRecord, Frame
<1>2. Len(stack) > 1 => Link(Caller, Top, options)
  <2>1. ASSUME Len(stack) > 1 PROVE Len(stack) \in 2 .. Len(stack)
    BY <2>1, Activations
  <2> QED BY <2>1 DEF Inv2, KeptStack, Caller, Top
<1>3. Len(stack) > 1 => Len(stack) - 1 + 1 = Len(stack)
  BY Activations
<1> QED BY <1>1, <1>2, <1>3, Innermost DEF Top, Caller, Below

\* The activation k completes an occurrence.
LEMMA CommitMoves ==
  ASSUME Inv, NEW k \in 1 .. Len(stack), stack[k].kind # "packed",
         NEW fr, NEW mid, Becomes(fr, stack[k], mid),
         NEW tag, NEW f, NEW payload, NEW size \in Nat,
         NEW counted \in Nat, k < Len(stack) + counted,
         Stores(k, mid, tag, f, payload),
         Commit(SubSeq(stack, 1, k - 1), fr, tag, f, payload, size, counted)
  PROVE  Moves
<1> DEFINE bytes  == IF options.audit_mode = "Full" THEN size ELSE 0
           record == [tag |-> tag, field |-> f, payload |-> payload, bytes |-> bytes]
           new    == [fr EXCEPT !.msg = PushAudit(@, record)]
<1>1. CASE Fail
  BY <1>1 DEF Fail, Moves
<1>2. CASE /\ stack' = Append(SubSeq(stack, 1, k - 1), new)
           /\ audit_bytes' = audit_bytes + bytes
           /\ field_occurrences' = field_occurrences + counted
  <2>1. audit_bytes' - audit_bytes = bytes
    BY <1>2 DEF Inv
  <2> HIDE DEF bytes
  <2>2. record = [tag |-> tag, field |-> f, payload |-> payload,
                  bytes |-> audit_bytes' - audit_bytes]
    BY <2>1
  <2> HIDE DEF record
  <2>3. Becomes(new, stack[k], PushAudit(mid, record))
    <3>1. fr.msg = mid
      BY DEF Becomes
    <3>2. Becomes([fr EXCEPT !.msg = PushAudit(fr.msg, record)], stack[k],
                  PushAudit(fr.msg, record))
      BY BecomesUpdate
    <3> QED BY <3>1, <3>2
  <2> HIDE DEF new
  <2>4. PaysRecord
    <3>1. /\ stack \in Seq(Frame) /\ Len(stack) \in Nat /\ k - 1 \in 0 .. Len(stack)
          /\ k \in Nat /\ field_occurrences \in Nat
      BY Activations DEF Inv
    <3>2. SubSeq(stack, 1, k - 1) \in Seq(Frame) /\ Len(SubSeq(stack, 1, k - 1)) = k - 1
      BY <3>1, PrefixProperties
    <3> DEFINE S == Frame \cup {new}
    <3>3. SubSeq(stack, 1, k - 1) \in Seq(S) /\ new \in S
      BY <3>2
    <3> HIDE DEF S
    <3>4. Len(stack') = k - 1 + 1
      BY <1>2, <3>2, <3>3, AppendProperties
    <3> QED BY <1>2, <3>1, <3>4 DEF PaysRecord
  <2>5. Turn(k, new)
    BY <2>2, <2>3, <2>4 DEF Turn, Becomes
  <2> QED BY <1>2, <2>5 DEF Moves
<1> QED BY <1>1, <1>2 DEF Commit

\* The innermost activation stores an occurrence and counts it.
LEMMA TopStores ==
  ASSUME Inv, Inv2, status = "decoding", Top.kind # "packed",
         NEW fr, NEW mid, Becomes(fr, Top, mid),
         NEW tag, NEW f, NEW payload, NEW size \in Nat,
         StoresAlone(Top.msg, mid, tag, f, payload),
         Commit(Below(1), fr, tag, f, payload, size, 1)
  PROVE  Moves
<1> DEFINE k == Len(stack)
<1>1. /\ k \in 1 .. Len(stack) /\ Top = stack[k] /\ Below(1) = SubSeq(stack, 1, k - 1)
      /\ k < Len(stack) + 1
  BY Activated, Activations
<1> HIDE DEF k
<1>2. Stores(k, mid, tag, f, payload)
  BY <1>1 DEF Stores
<1> QED BY <1>1, <1>2, CommitMoves

\* The caller stores what its callee decoded.
LEMMA CallerStores ==
  ASSUME Inv, Inv2, status = "decoding", Len(stack) > 1,
         NEW fr, NEW mid, Becomes(fr, Caller, mid),
         NEW tag, NEW f, NEW payload, NEW size \in Nat, NEW counted \in Nat,
         \/ StoresAlone(Caller.msg, mid, tag, f, payload)
         \/ StoresPacked(Caller.msg, mid, tag, f, payload, Top)
         \/ StoresSubmessage(Caller.msg, mid, tag, f, payload, Top),
         Commit(Below(2), fr, tag, f, payload, size, counted)
  PROVE  Moves
<1> DEFINE k == Len(stack) - 1
<1>1. /\ k \in 1 .. Len(stack) /\ Caller = stack[k] /\ Below(2) = SubSeq(stack, 1, k - 1)
      /\ k + 1 \in 1 .. Len(stack) /\ Top = stack[k + 1] /\ Caller.kind # "packed"
      /\ k < Len(stack) + counted
  BY Activated, Activations DEF Link
<1> HIDE DEF k
<1>2. Stores(k, mid, tag, f, payload)
  BY <1>1 DEF Stores
<1> QED BY <1>1, <1>2, CommitMoves

\* An activation goes on without a record, and maybe calls.
LEMMA TopMovesOn ==
  ASSUME Inv, Inv2, status = "decoding", NEW fr, Becomes(fr, Top, Top.msg),
         \/ stack' = Append(Below(1), fr)
         \/ \E callee : Fresh(callee) /\ stack' = Append(Append(Below(1), fr), callee)
  PROVE  Moves
<1> DEFINE k == Len(stack)
<1>1. k \in 1 .. Len(stack) /\ Top = stack[k] /\ Below(1) = SubSeq(stack, 1, k - 1)
  BY Activated
<1> HIDE DEF k
<1>2. Turn(k, fr)
  BY <1>1 DEF Turn, Becomes
<1> QED BY <1>1, <1>2 DEF Moves

\* What the innermost activation begins is fresh.
LEMMA TopCallsFresh ==
  ASSUME Inv, Inv2, status = "decoding", NEW fr, Becomes(fr, Top, Top.msg),
         NEW callee, Fresh(callee), stack' = Below(1) \o <<fr, callee>>
  PROVE  Moves
<1>1. Below(1) \in Seq(Frame)
  BY Activations, PopOK DEF Inv, StackOK, Below
<1>2. Below(1) \o <<fr, callee>> = Append(Append(Below(1), fr), callee)
  <2> DEFINE S == Frame \cup {fr, callee}
  <2>1. Below(1) \in Seq(S) /\ fr \in S /\ callee \in S
    BY <1>1
  <2> HIDE DEF S
  <2> QED BY <2>1
<1> QED BY <1>2, TopMovesOn

\* The caller that keeps nothing turns.
LEMMA CallerMovesOn ==
  ASSUME Inv, Inv2, status = "decoding", Len(stack) > 1,
         NEW fr, Becomes(fr, Caller, Caller.msg), stack' = Append(Below(2), fr)
  PROVE  Moves
<1> DEFINE k == Len(stack) - 1
<1>1. k \in 1 .. Len(stack) /\ Caller = stack[k] /\ Below(2) = SubSeq(stack, 1, k - 1)
  BY Activated
<1> HIDE DEF k
<1>2. Turn(k, fr)
  BY <1>1 DEF Turn, Becomes
<1> QED BY <1>1, <1>2 DEF Moves

\* The step Fail is a move of the stack.
LEMMA FailMoves ==
  ASSUME Fail
  PROVE  Moves
BY DEF Fail, Moves

\* The frames the decoder begins are fresh.
LEMMA FreshFrames ==
  ASSUME NEW type, NEW via, NEW depth, NEW left, NEW size
  PROVE  /\ Fresh(MessageFrame(type, via, depth, left, size))
         /\ Fresh(EntryFrame(via, depth, left, size))
         /\ Desc[via].child = None => Fresh(PackedFrame(via, depth, left, size))
         /\ Fresh(GroupFrame(depth, left, size))
BY DEF Fresh, MessageFrame, EntryFrame, PackedFrame, GroupFrame

\* The step Decode is a move of the stack.
LEMMA DecodeMoves ==
  ASSUME Inv3, NEW type, NEW n, Decode(type, n)
  PROVE  Moves
<1> DEFINE callee == MessageFrame(type, None, 0, n, 0)
<1>1. CASE Fail
  BY <1>1, FailMoves
<1>2. CASE stack' = <<callee>>
  <2>1. Fresh(callee)
    BY FreshFrames
  <2> HIDE DEF callee
  <2>2. stack = <<>> /\ <<callee>> = Append(<<>>, callee)
    BY DEF Inv3, Decode
  <2> QED BY <1>2, <2>1, <2>2 DEF Moves
<1> QED BY <1>1, <1>2 DEF Decode

\* The step UnknownEnumValue is a move of the stack.
LEMMA UnknownEnumValueMoves ==
  ASSUME Inv, Inv2, NEW f \in Field, NEW v \in Scalar, UnknownEnumValue(f, v)
  PROVE  Moves
<1> DEFINE m  == KeepUnknown(Top.msg, <<[field |-> f, payload |-> <<v>>]>>)
           fr == Consume([Top EXCEPT !.msg = m], 2)
<1>1. status = "decoding" /\ Top.kind = "message"
  BY DEF UnknownEnumValue, Starts, Reading
<1>2. Becomes(fr, Top, m)
  BY <1>1, Activated, BecomesUpdate
<1>3. StoresAlone(Top.msg, m, "UnknownField", f, <<v>>)
  BY DEF UnknownEnumValue, StoresAlone, StoresEnumValue, MapField
<1> HIDE DEF m, fr
<1>4. CASE Fail
  BY <1>4, FailMoves
<1>5. CASE Commit(Below(1), fr, "UnknownField", f, <<v>>, 2, 1)
  BY <1>1, <1>2, <1>3, <1>5, TopStores
<1> QED BY <1>4, <1>5 DEF UnknownEnumValue, fr, m

\* The step SingularScalar is a move of the stack.
LEMMA SingularScalarMoves ==
  ASSUME Inv, Inv2, NEW f \in Field, NEW v \in Scalar, SingularScalar(f, v)
  PROVE  Moves
<1> DEFINE duplicate == Duplicate(Top.msg, f)
           m   == DemoteDisplaced(SetScalar(Displace(Top.msg, f), f, v), f, duplicate, FALSE)
           fr  == Consume([Top EXCEPT !.msg = m], 2)
           tag == OccurrenceTag(duplicate, FALSE)
<1>1. status = "decoding" /\ Top.kind = "message"
  BY DEF SingularScalar, Starts, Reading
<1>2. Becomes(fr, Top, m)
  BY <1>1, Activated, BecomesUpdate
<1>3. StoresAlone(Top.msg, m, tag, f, <<v>>)
  <2>1. f \in ScalarField /\ ~ClosedUnknown(f, v)
    BY DEF SingularScalar
  <2> QED BY <2>1 DEF StoresAlone, StoresScalar
<1> HIDE DEF m, fr, tag
<1>4. CASE Fail
  BY <1>4, FailMoves
<1>5. CASE Commit(Below(1), fr, tag, f, <<v>>, 2, 1)
  BY <1>1, <1>2, <1>3, <1>5, TopStores
<1> QED BY <1>4, <1>5 DEF SingularScalar, fr, m, tag

\* The step UnpackedElement is a move of the stack.
LEMMA UnpackedElementMoves ==
  ASSUME Inv, Inv2, NEW f \in Field, NEW v \in Scalar, UnpackedElement(f, v)
  PROVE  Moves
<1> DEFINE m  == SetRep(Top.msg, f, Append(Items(Top.msg[<<>>].rep[f]), v))
           fr == Consume([Top EXCEPT !.msg = m], 2)
<1>1. status = "decoding" /\ Top.kind = "message"
  BY DEF UnpackedElement, Starts, Reading
<1>2. Becomes(fr, Top, m)
  BY <1>1, Activated, BecomesUpdate
<1>3. StoresAlone(Top.msg, m, "SchemaField", f, <<v>>)
  BY DEF UnpackedElement, StoresAlone, StoresElement
<1> HIDE DEF m, fr
<1>4. CASE Fail
  BY <1>4, FailMoves
<1>5. CASE Commit(Below(1), fr, "SchemaField", f, <<v>>, 2, 1)
  BY <1>1, <1>2, <1>3, <1>5, TopStores
<1> QED BY <1>4, <1>5 DEF UnpackedElement, fr, m

\* The step BeginPacked is a move of the stack.
LEMMA BeginPackedMoves ==
  ASSUME Inv, Inv2, NEW f \in Field, NEW n, BeginPacked(f, n)
  PROVE  Moves
<1> DEFINE fr     == Consume(Top, n + 2)
           callee == PackedFrame(f, Top.depth, n, n + 2)
<1>1. status = "decoding"
  BY DEF BeginPacked, Starts, Reading
<1>2. Becomes(fr, Top, Top.msg)
  BY <1>1, Activated, BecomesUpdate
<1>3. Fresh(callee)
  BY FreshFrames DEF BeginPacked
<1> HIDE DEF fr, callee
<1>4. CASE Fail
  BY <1>4, FailMoves
<1>5. CASE Advance(Below(1) \o <<fr, callee>>)
  BY <1>1, <1>2, <1>3, <1>5, TopCallsFresh DEF Advance
<1> QED BY <1>4, <1>5 DEF BeginPacked, fr, callee

\* The step PackedElement is a move of the stack.
LEMMA PackedElementMoves ==
  ASSUME Inv, Inv2, NEW v \in Scalar, PackedElement(v)
  PROVE  Moves
<1> DEFINE f  == Top.via
           m  == IF ClosedUnknown(f, v)
                 THEN KeepUnknown(Top.msg, <<[field |-> f, payload |-> <<v>>]>>)
                 ELSE SetRep(Top.msg, f, Append(Items(Top.msg[<<>>].rep[f]), v))
           fr == Consume([Top EXCEPT !.msg = m, !.items = Append(@, v)], 1)
           k  == Len(stack)
<1>1. status = "decoding" /\ Top.kind = "packed"
  BY DEF PackedElement, Packing
<1>2. CASE Fail
  BY <1>2, FailMoves
<1>3. CASE stack' = Append(Below(1), fr)
  <2>1. Top \in Frame /\ k \in 1 .. Len(stack) /\ Top = stack[k]
        /\ Below(1) = SubSeq(stack, 1, k - 1)
    BY <1>1, Activated
  <2> HIDE DEF k
  <2>2. ReadsElement(fr, Top)
    <3> HIDE DEF m
    <3>1. fr.msg = m /\ fr.items = Append(Top.items, v)
      BY <2>1 DEF Frame, Consume
    <3> QED BY <1>1, <3>1 DEF ReadsElement, m
  <2>3. fr.kind = Top.kind /\ fr.via = Top.via
    <3> HIDE DEF m
    <3> QED BY <2>1 DEF Frame, Consume
  <2> HIDE DEF fr
  <2>4. Turn(k, fr)
    BY <2>1, <2>2, <2>3 DEF Turn
  <2> QED BY <1>3, <2>1, <2>4 DEF Moves
<1> QED BY <1>2, <1>3 DEF PackedElement

\* The step EndPacked is a move of the stack.
LEMMA EndPackedMoves ==
  ASSUME Inv, Inv2, EndPacked
  PROVE  Moves
<1> DEFINE f    == Top.via
           node == Top.msg[<<>>]
           xs   == Items(Caller.msg[<<>>].rep[f]) \o Items(node.rep[f])
           m    == SetRep(PushUnknown(Caller.msg, node.unknown), f, xs)
           fr   == [Caller EXCEPT !.msg = m]
<1>1. status = "decoding" /\ Len(stack) > 1 /\ Top.kind = "packed"
  BY EndingHasCaller DEF EndPacked, Packing
<1>2. f \in RepeatedField /\ Top.size \in Nat
  <2>1. Top \in Frame /\ Sound(Top, Limit)
    BY <1>1, ReadingProperties
  <2> QED BY <1>1, <2>1 DEF Sound, Frame
<1>3. Becomes(fr, Caller, m)
  BY <1>1, Activated, BecomesUpdate
<1>4. StoresPacked(Caller.msg, m, "SchemaField", f, Top.items, Top)
  BY <1>1, <1>2 DEF StoresPacked
<1> HIDE DEF m, fr, f
<1>5. CASE Commit(Below(2), fr, "SchemaField", f, Top.items, Top.size, 0)
  BY <1>1, <1>2, <1>3, <1>4, <1>5, CallerStores
<1> QED BY <1>5 DEF EndPacked, fr, m, f

\* The step BeginMessage is a move of the stack.
LEMMA BeginMessageMoves ==
  ASSUME Inv, Inv2, NEW f \in Field, NEW n, BeginMessage(f, n)
  PROVE  Moves
<1> DEFINE fr     == Consume(Top, n + 2)
           callee == MessageFrame(Desc[f].child, f, Top.depth + 1, n, n + 2)
<1>1. status = "decoding"
  BY DEF BeginMessage, Starts, Reading
<1>2. Becomes(fr, Top, Top.msg)
  BY <1>1, Activated, BecomesUpdate
<1>3. Fresh(callee)
  BY FreshFrames
<1> HIDE DEF fr, callee
<1>4. CASE Fail
  BY <1>4, FailMoves
<1>5. CASE Advance(Below(1) \o <<fr, callee>>)
  BY <1>1, <1>2, <1>3, <1>5, TopCallsFresh DEF Advance
<1> QED BY <1>4, <1>5 DEF BeginMessage, fr, callee

\* The step EndSubmessage is a move of the stack.
LEMMA EndSubmessageMoves ==
  ASSUME Inv, Inv2, EndSubmessage
  PROVE  Moves
<1> DEFINE f         == Top.via
           duplicate == Duplicate(Caller.msg, f)
           stored    == MergeMessage(Displace(Caller.msg, f), f, Top.msg)
           m         == DemoteDisplaced(stored, f, duplicate, duplicate)
           fr        == [Caller EXCEPT !.msg = m]
           tag       == OccurrenceTag(duplicate, duplicate)
<1>1. status = "decoding" /\ Len(stack) > 1 /\ Top.kind = "message" /\ f \in MessageField
  BY DEF EndSubmessage, Ends
<1>2. Top.size \in Nat
  BY <1>1, Activated DEF Frame
<1>3. Becomes(fr, Caller, m)
  BY <1>1, Activated, BecomesUpdate
<1>4. StoresSubmessage(Caller.msg, m, tag, f, <<>>, Top)
  BY <1>1 DEF StoresSubmessage
<1> HIDE DEF m, fr, tag, f
<1>5. CASE Fail
  BY <1>5, FailMoves
<1>6. CASE Commit(Below(2), fr, tag, f, <<>>, Top.size, 0)
  BY <1>1, <1>2, <1>3, <1>4, <1>6, CallerStores
<1> QED BY <1>5, <1>6 DEF EndSubmessage, fr, m, f, tag

\* The step EndElement is a move of the stack.
LEMMA EndElementMoves ==
  ASSUME Inv, Inv2, EndElement
  PROVE  Moves
<1> DEFINE f  == Top.via
           m  == SetRep(Caller.msg, f, Append(Items(Caller.msg[<<>>].rep[f]), Elem))
           fr == [Caller EXCEPT !.msg = m]
<1>1. status = "decoding" /\ Len(stack) > 1 /\ Top.kind = "message" /\ f \in RepeatedField
  BY DEF EndElement, Ends
<1>2. Top.size \in Nat /\ Desc[f].child # None
  BY <1>1, Activated DEF Frame, Link
<1>3. Becomes(fr, Caller, m)
  BY <1>1, Activated, BecomesUpdate
<1>4. StoresAlone(Caller.msg, m, "SchemaField", f, <<>>)
  BY <1>1, <1>2 DEF StoresAlone, StoresMessage
<1> HIDE DEF m, fr, f
<1>5. CASE Fail
  BY <1>5, FailMoves
<1>6. CASE Commit(Below(2), fr, "SchemaField", f, <<>>, Top.size, 0)
  BY <1>1, <1>2, <1>3, <1>4, <1>6, CallerStores
<1> QED BY <1>5, <1>6 DEF EndElement, fr, m, f

\* The step BeginEntry is a move of the stack.
LEMMA BeginEntryMoves ==
  ASSUME Inv, Inv2, NEW f \in Field, NEW n, BeginEntry(f, n)
  PROVE  Moves
<1> DEFINE fr     == Consume(Top, n + 2)
           callee == EntryFrame(f, Top.depth, n, n + 2)
<1>1. status = "decoding"
  BY DEF BeginEntry, Starts, Reading
<1>2. Becomes(fr, Top, Top.msg)
  BY <1>1, Activated, BecomesUpdate
<1>3. Fresh(callee)
  BY FreshFrames
<1> HIDE DEF fr, callee
<1>4. CASE Fail
  BY <1>4, FailMoves
<1>5. CASE Advance(Below(1) \o <<fr, callee>>)
  BY <1>1, <1>2, <1>3, <1>5, TopCallsFresh DEF Advance
<1> QED BY <1>4, <1>5 DEF BeginEntry, fr, callee

\* Either half of an entry.
LEMMA EntryHalfMoves ==
  ASSUME Inv, Inv2, NEW x, EntryKey(x) \/ EntryScalar(x)
  PROVE  Moves
<1> DEFINE fr == Consume([Top EXCEPT !.key = x], 2)
           gr == Consume([Top EXCEPT !.val = x], 2)
<1>1. status = "decoding"
  BY DEF EntryKey, EntryScalar, Reading
<1>2. Becomes(fr, Top, Top.msg) /\ Becomes(gr, Top, Top.msg)
  BY <1>1, Activated, BecomesUpdate
<1> HIDE DEF fr, gr
<1>3. CASE Fail
  BY <1>3, FailMoves
<1>4. CASE Advance(Append(Below(1), fr)) \/ Advance(Append(Below(1), gr))
  BY <1>1, <1>2, <1>4, TopMovesOn DEF Advance
<1> QED BY <1>3, <1>4 DEF EntryKey, EntryScalar, fr, gr

\* The step BeginEntryMessage is a move of the stack.
LEMMA BeginEntryMessageMoves ==
  ASSUME Inv, Inv2, NEW n, BeginEntryMessage(n)
  PROVE  Moves
<1> DEFINE fr     == Consume(Top, n + 2)
           callee == MessageFrame(Desc[Top.via].child, Top.via, Top.depth + 1, n, n + 2)
<1>1. status = "decoding"
  BY DEF BeginEntryMessage, Reading
<1>2. Becomes(fr, Top, Top.msg)
  BY <1>1, Activated, BecomesUpdate
<1>3. Fresh(callee)
  BY FreshFrames
<1> HIDE DEF fr, callee
<1>4. CASE Fail
  BY <1>4, FailMoves
<1>5. CASE Advance(Below(1) \o <<fr, callee>>)
  BY <1>1, <1>2, <1>3, <1>5, TopCallsFresh DEF Advance
<1> QED BY <1>4, <1>5 DEF BeginEntryMessage, fr, callee

\* The step EndEntryMessage is a move of the stack.
LEMMA EndEntryMessageMoves ==
  ASSUME Inv, Inv2, EndEntryMessage
  PROVE  Moves
<1> DEFINE fr == [Caller EXCEPT !.val = Elem]
<1>1. status = "decoding" /\ Top.via \in MapField
  BY DEF EndEntryMessage, Ends
<1>2. Len(stack) > 1
  BY <1>1, EndingHasCaller, ValueAssumption DEF MapField
<1>3. Becomes(fr, Caller, Caller.msg)
  BY <1>1, <1>2, Activated, BecomesUpdate
<1> HIDE DEF fr
<1>4. CASE Fail
  BY <1>4, FailMoves
<1>5. CASE stack' = Append(Below(2), fr)
  BY <1>1, <1>2, <1>3, <1>5, CallerMovesOn
<1> QED BY <1>4, <1>5 DEF EndEntryMessage, fr

\* The step EndEntry is a move of the stack.
LEMMA EndEntryMoves ==
  ASSUME Inv, Inv2, EndEntry
  PROVE  Moves
<1> DEFINE f         == Top.via
           pair      == EntryPair(Top)
           entries   == Caller.msg[<<>>].map[f]
           duplicate == pair[1] \in Keys(entries)
           stored    == SetMap(Caller.msg, f, PutEntry(entries, pair[1], pair[2]))
           m         == DemoteDisplaced(stored, f, duplicate, FALSE)
           fr        == [Caller EXCEPT !.msg = m]
           tag       == OccurrenceTag(duplicate, FALSE)
<1>1. status = "decoding" /\ Len(stack) > 1 /\ Top.kind = "entry"
  BY EndingHasCaller DEF EndEntry
<1>2. Top \in Frame /\ Top.size \in Nat /\ f \in MapField
  BY <1>1, ReadingProperties DEF Sound, Frame
<1>3. Kept(Top, options)
  BY <1>1, Activated DEF Inv2, KeptStack
<1>4. pair[1] \in Scalar /\ pair[2] \in Value /\ pair = <<pair[1], pair[2]>>
  BY <1>1, <1>2, <1>3, PairKept DEF EntryPair
<1>5. Becomes(fr, Caller, m)
  BY <1>1, Activated, BecomesUpdate
<1>6. StoresAlone(Caller.msg, m, tag, f, pair)
  <2> HIDE DEF pair, f
  <2>1. StoresEntry(Caller.msg, m, tag, f, pair)
    BY <1>2, <1>4 DEF StoresEntry
  <2> QED BY <2>1 DEF StoresAlone
<1> HIDE DEF m, fr, tag, f, pair
<1>7. CASE Fail
  BY <1>7, FailMoves
<1>8. CASE Commit(Below(2), fr, tag, f, pair, Top.size, 0)
  BY <1>1, <1>2, <1>5, <1>6, <1>8, CallerStores
<1> QED BY <1>7, <1>8 DEF EndEntry, fr, m, f, tag, pair

\* An unknown field kept is an occurrence stored alone.
LEMMA UnknownStores ==
  ASSUME NEW fr, NEW old, Becomes(fr, old, old.msg), NEW wire \in Wire
  PROVE  LET mid == KeepUnknown(old.msg, <<[field |-> None, payload |-> <<wire>>]>>)
             new == [fr EXCEPT !.msg =
                       KeepUnknown(@, <<[field |-> None, payload |-> <<wire>>]>>)]
         IN  /\ Becomes(new, old, mid)
             /\ StoresAlone(old.msg, mid, UnknownTag(wire), None, <<wire>>)
<1> DEFINE mid == KeepUnknown(old.msg, <<[field |-> None, payload |-> <<wire>>]>>)
           new == [fr EXCEPT !.msg =
                     KeepUnknown(fr.msg, <<[field |-> None, payload |-> <<wire>>]>>)]
<1>1. StoresAlone(old.msg, mid, UnknownTag(wire), None, <<wire>>)
  BY DEF StoresAlone, StoresUnknown
<1>2. fr.msg = old.msg
  BY DEF Becomes
<1>3. Becomes(new, old, mid)
  BY <1>2, BecomesUpdate
<1> QED BY <1>1, <1>3

\* A skipped value is stored in its message, or nowhere.
LEMMA SkipMoves ==
  ASSUME Inv, Inv2, status = "decoding", NEW wire \in Wire, NEW size \in Nat, Skip(wire, size)
  PROVE  Moves
<1> DEFINE fr  == Consume(Top, size)
           mid == KeepUnknown(Top.msg, <<[field |-> None, payload |-> <<wire>>]>>)
           new == [fr EXCEPT !.msg =
                     KeepUnknown(@, <<[field |-> None, payload |-> <<wire>>]>>)]
<1>1. Becomes(fr, Top, Top.msg)
  BY Activated, BecomesUpdate
<1> HIDE DEF fr
<1>2. Becomes(new, Top, mid) /\ StoresAlone(Top.msg, mid, UnknownTag(wire), None, <<wire>>)
  BY <1>1, UnknownStores
<1> HIDE DEF new, mid
<1>3. CASE Fail
  BY <1>3, FailMoves
<1>4. CASE Commit(Below(1), new, UnknownTag(wire), None, <<wire>>, size, 1)
           /\ Top.kind = "message"
  BY <1>2, <1>4, TopStores
<1>5. CASE CommitUnknown(Below(1), fr, wire, size, 1) /\ Top.kind = "message"
  BY <1>3, <1>4, <1>5 DEF CommitUnknown, new
<1>6. CASE Advance(Append(Below(1), fr))
  BY <1>1, <1>6, TopMovesOn DEF Advance
<1> QED BY <1>5, <1>6 DEF Skip, fr

\* Skipping in a group moves as in a message.
LEMMA SkippingMoves ==
  ASSUME Inv, Inv2, NEW n \in Nat, SkipScalar \/ SkipBytes(n)
  PROVE  Moves
<1>1. CASE SkipScalar
  BY <1>1, SkipMoves DEF SkipScalar, Reading, Wire
<1>2. CASE Fail
  BY <1>2, FailMoves
<1>3. CASE status = "decoding" /\ Skip(WireBytes, n + 2)
  BY <1>3, SkipMoves DEF Wire
<1> QED BY <1>1, <1>2, <1>3 DEF SkipBytes, Reading

\* The step BeginGroup is a move of the stack.
LEMMA BeginGroupMoves ==
  ASSUME BeginGroup
  PROVE  Moves
BY FailMoves, FreshFrames DEF BeginGroup, Advance, Moves

\* The step EndGroup is a move of the stack.
LEMMA EndGroupMoves ==
  ASSUME Inv, Inv2, EndGroup
  PROVE  Moves
<1> DEFINE left == Top.left - 1
           size == Top.size - left
           fr   == [Caller EXCEPT !.left = left]
           mid  == KeepUnknown(Caller.msg, <<[field |-> None, payload |-> <<WireGroup>>]>>)
           new  == [fr EXCEPT !.msg =
                      KeepUnknown(@, <<[field |-> None, payload |-> <<WireGroup>>]>>)]
<1>1. status = "decoding" /\ Top.kind = "group"
  BY DEF EndGroup, Reading
<1>2. Len(stack) > 1
  BY <1>1, EndingHasCaller
<1>3. size \in Nat
  <2>1. Top \in Frame /\ Sound(Top, Limit)
    BY <1>1, ReadingProperties
  <2>2. Top.left \in Nat /\ Top.size \in Nat /\ Top.left <= Top.size
    BY <1>1, <2>1 DEF Sound, Frame
  <2> QED BY <2>2
<1>4. Becomes(fr, Caller, Caller.msg)
  BY <1>1, <1>2, Activated, BecomesUpdate
<1> HIDE DEF fr, size
<1>5. /\ Becomes(new, Caller, mid)
      /\ StoresAlone(Caller.msg, mid, UnknownTag(WireGroup), None, <<WireGroup>>)
  BY <1>4, UnknownStores DEF Wire
<1> HIDE DEF new, mid
<1>6. CASE Fail
  BY <1>6, FailMoves
<1>7. CASE Commit(Below(2), new, UnknownTag(WireGroup), None, <<WireGroup>>, size, 1)
  BY <1>1, <1>2, <1>3, <1>5, <1>7, CallerStores
<1>8. CASE CommitUnknown(Below(2), fr, WireGroup, size, 1)
  BY <1>6, <1>7, <1>8 DEF CommitUnknown, new
<1>9. CASE Advance(Append(Below(2), fr))
  BY <1>1, <1>2, <1>4, <1>9, CallerMovesOn DEF Advance
<1> QED BY <1>8, <1>9 DEF EndGroup, fr, size

\* Every step is of one of these kinds.
LEMMA EveryStepMoves ==
  ASSUME Inv, Inv2, Inv3, [Next]_vars
  PROVE  Moves
<1>0. 0 .. MaxInput \subseteq Nat /\ 0 \in Nat
  BY InputAssumption
<1>1. ASSUME NEW type \in RootTypes, NEW n \in 0 .. MaxInput, Decode(type, n) PROVE Moves
  BY <1>1, DecodeMoves
<1>2. ASSUME CountField \/ Malformed \/ Unterminated PROVE Moves
  BY <1>2, FailMoves DEF CountField, Malformed, Unterminated
<1>3. ASSUME NEW f \in Field, NEW v \in Scalar,
             UnknownEnumValue(f, v) \/ SingularScalar(f, v) \/ UnpackedElement(f, v)
      PROVE  Moves
  BY <1>3, UnknownEnumValueMoves, SingularScalarMoves, UnpackedElementMoves
<1>4. ASSUME NEW f \in Field, NEW n \in 0 .. MaxInput,
             BeginPacked(f, n) \/ BeginMessage(f, n) \/ BeginEntry(f, n)
      PROVE  Moves
  BY <1>4, BeginPackedMoves, BeginMessageMoves, BeginEntryMoves
<1>5. ASSUME NEW v \in Scalar, PackedElement(v) \/ EntryKey(v) \/ EntryScalar(v)
      PROVE  Moves
  BY <1>5, PackedElementMoves, EntryHalfMoves
<1>6. ASSUME EndPacked \/ EndSubmessage \/ EndElement PROVE Moves
  BY <1>6, EndPackedMoves, EndSubmessageMoves, EndElementMoves
<1>7. ASSUME EndRoot PROVE Moves
  BY <1>7, FailMoves DEF EndRoot, Moves
<1>8. ASSUME NEW n \in 0 .. MaxInput, BeginEntryMessage(n) \/ SkipBytes(n) PROVE Moves
  BY <1>0, <1>8, BeginEntryMessageMoves, SkippingMoves
<1>9. ASSUME EndEntryMessage \/ EndEntry \/ SkipScalar \/ BeginGroup \/ EndGroup PROVE Moves
  BY <1>0, <1>9, EndEntryMessageMoves, EndEntryMoves, SkippingMoves, BeginGroupMoves,
     EndGroupMoves
<1>10. ASSUME UNCHANGED vars \/ Terminated PROVE Moves
  BY <1>10 DEF vars, Moves, Terminated
<1> QED BY <1>1, <1>2, <1>3, <1>4, <1>5, <1>6, <1>7, <1>8, <1>9, <1>10 DEF Next

\* What each activation after a step comes from.
LEMMA EachMoves ==
  ASSUME Inv, Moves, NEW i \in DOMAIN stack'
  PROVE  Fresh(stack'[i]) \/ (i \in DOMAIN stack /\ Turn(i, stack'[i]))
<1>1. stack \in Seq(Frame) /\ Len(stack) \in Nat /\ DOMAIN stack = 1 .. Len(stack)
  BY Activations
<1>2. \A j \in DOMAIN stack : Turn(j, stack[j])
  BY DEF Turn
<1>3. ASSUME NEW S, NEW s \in Seq(S), NEW x \in S
      PROVE  /\ DOMAIN Append(s, x) = 1 .. Len(s) + 1 /\ Append(s, x)[Len(s) + 1] = x
             /\ DOMAIN s = 1 .. Len(s) /\ Len(s) \in Nat
             /\ \A j \in 1 .. Len(s) : Append(s, x)[j] = s[j]
  BY AppendProperties, LenProperties
<1>4. CASE stack' = <<>> \/ stack' = stack
  BY <1>2, <1>4
<1>5. ASSUME NEW k \in 1 .. Len(stack), NEW fr, Turn(k, fr), NEW callee, Fresh(callee),
             \/ stack' = Append(SubSeq(stack, 1, k - 1), fr)
             \/ stack' = Append(Append(SubSeq(stack, 1, k - 1), fr), callee)
      PROVE  Fresh(stack'[i]) \/ (i \in DOMAIN stack /\ Turn(i, stack'[i]))
  <2> DEFINE below == SubSeq(stack, 1, k - 1)
             S     == Frame \cup {fr, callee}
             t     == Append(below, fr)
  <2>1. k - 1 \in 0 .. Len(stack) /\ k \in Nat
    BY <1>1
  <2>2. below \in Seq(Frame) /\ Len(below) = k - 1 /\ \A j \in 1 .. k - 1 : below[j] = stack[j]
    BY <1>1, <2>1, PrefixProperties
  <2>3. below \in Seq(S) /\ fr \in S /\ callee \in S
    BY <2>2
  <2> HIDE DEF below, S
  <2>4. /\ t \in Seq(S) /\ Len(t) = k /\ DOMAIN t = 1 .. k /\ t[k] = fr
        /\ \A j \in 1 .. k - 1 : t[j] = stack[j]
    <3>1. DOMAIN t = 1 .. Len(below) + 1 /\ t[Len(below) + 1] = fr
          /\ \A j \in 1 .. Len(below) : t[j] = below[j]
      BY <1>3, <2>3
    <3>2. t \in Seq(S) /\ Len(t) = Len(below) + 1
      BY <2>3, AppendProperties
    <3> QED BY <2>1, <2>2, <3>1, <3>2
  <2>5. \A j \in 1 .. k : j \in DOMAIN stack /\ Turn(j, t[j])
    <3> TAKE j \in 1 .. k
    <3>1. j \in DOMAIN stack /\ Turn(j, stack[j])
      BY <1>1, <1>2, <2>1
    <3>2. CASE j = k
      BY <1>5, <2>4, <3>1, <3>2
    <3>3. CASE j # k
      <4>1. t[j] = stack[j]
        BY <2>1, <2>4, <3>3
      <4> QED BY <3>1, <4>1
    <3> QED BY <3>2, <3>3
  <2> HIDE DEF t
  <2>6. DOMAIN Append(t, callee) = 1 .. k + 1 /\ Append(t, callee)[k + 1] = callee
        /\ \A j \in 1 .. k : Append(t, callee)[j] = t[j]
    BY <1>3, <2>3, <2>4
  <2>7. stack' = t \/ stack' = Append(t, callee)
    BY <1>5 DEF t, below
  <2>8. CASE i \in 1 .. k
    BY <2>5, <2>6, <2>7, <2>8
  <2>9. CASE i \notin 1 .. k
    <3>1. stack' = Append(t, callee) /\ i = k + 1
      BY <2>1, <2>4, <2>6, <2>7, <2>9
    <3> QED BY <1>5, <2>6, <3>1
  <2> QED BY <2>8, <2>9
<1>6. ASSUME NEW k \in 1 .. Len(stack), NEW fr, Turn(k, fr),
             stack' = Append(SubSeq(stack, 1, k - 1), fr)
      PROVE  Fresh(stack'[i]) \/ (i \in DOMAIN stack /\ Turn(i, stack'[i]))
  <2>1. \E callee : Fresh(callee)
    BY FreshFrames
  <2> QED BY <1>5, <1>6, <2>1
<1>7. ASSUME NEW callee, Fresh(callee), stack' = Append(stack, callee)
      PROVE  Fresh(stack'[i]) \/ (i \in DOMAIN stack /\ Turn(i, stack'[i]))
  <2> DEFINE S == Frame \cup {callee}
  <2>1. stack \in Seq(S) /\ callee \in S
    BY <1>1
  <2> HIDE DEF S
  <2>2. DOMAIN stack' = 1 .. Len(stack) + 1 /\ stack'[Len(stack) + 1] = callee
        /\ \A j \in 1 .. Len(stack) : stack'[j] = stack[j]
    BY <1>3, <1>7, <2>1
  <2>3. CASE i \in 1 .. Len(stack)
    BY <1>1, <1>2, <2>2, <2>3
  <2>4. CASE i \notin 1 .. Len(stack)
    <3>1. i = Len(stack) + 1
      BY <1>1, <2>2, <2>4
    <3> QED BY <1>7, <2>2, <3>1
  <2> QED BY <2>3, <2>4
<1> QED BY <1>4, <1>5, <1>6, <1>7 DEF Moves

-----------------------------------------------------------------------------
(* What the root of a message becomes.                                     *)

\* new is m with another node at its root.
Rewrites(new, m, scalar, rep, map, unknown, audit) ==
  /\ Rooted(new) /\ DOMAIN new = DOMAIN m
  /\ \A a \in DOMAIN m : a # <<>> => new[a] = m[a]
  /\ new[<<>>] = [scalar |-> scalar, rep |-> rep, map |-> map,
                  unknown |-> unknown, audit |-> audit]

\* A message is rewritten by itself.
LEMMA NothingWritten ==
  ASSUME NEW m, Rooted(m)
  PROVE  Rewrites(m, m, m[<<>>].scalar, m[<<>>].rep, m[<<>>].map, m[<<>>].unknown, m[<<>>].audit)
BY DEF Rewrites, Rooted

\* The parts of a message written.
LEMMA WrittenParts ==
  ASSUME NEW n, NEW m, NEW s, NEW r, NEW e, NEW u, NEW t, Rewrites(n, m, s, r, e, u, t)
  PROVE  /\ Rooted(n) /\ n[<<>>].scalar = s /\ n[<<>>].rep = r /\ n[<<>>].map = e
         /\ n[<<>>].unknown = u /\ n[<<>>].audit = t
BY DEF Rewrites

\* What setting a part of the root rewrites.
LEMMA RootWrites ==
  ASSUME NEW m, NEW n, NEW s, NEW r, NEW e, NEW u, NEW t, Rewrites(n, m, s, r, e, u, t),
         NEW f, NEW x
  PROVE  /\ Rewrites(SetScalar(n, f, x), m, [s EXCEPT ![f] = x], r, e, u, t)
         /\ Rewrites(SetRep(n, f, x), m, s, [r EXCEPT ![f] = x], e, u, t)
         /\ Rewrites(SetMap(n, f, x), m, s, r, [e EXCEPT ![f] = x], u, t)
         /\ Rewrites(PushUnknown(n, x), m, s, r, e, u \o x, t)
         /\ Rewrites(DemoteIn(n, x), m, s, r, e, u, Demote(t, x))
         /\ Rewrites(PushAudit(n, x), m, s, r, e, u, Append(t, x))
<1> DEFINE Writes(new, ss, rr, ee, uu, tt) ==
             /\ Rooted(new) /\ DOMAIN new = DOMAIN n
             /\ \A a \in DOMAIN n : a # <<>> => new[a] = n[a]
             /\ new[<<>>] = [scalar |-> ss, rep |-> rr, map |-> ee, unknown |-> uu, audit |-> tt]
<1>0. /\ Rooted(n) /\ n[<<>>].scalar = s /\ n[<<>>].rep = r /\ n[<<>>].map = e
      /\ n[<<>>].unknown = u /\ n[<<>>].audit = t
  BY DEF Rewrites
<1>1. Rewrites(SetScalar(n, f, x), m, [s EXCEPT ![f] = x], r, e, u, t)
  <2>1. Writes(SetScalar(n, f, x), [n[<<>>].scalar EXCEPT ![f] = x], n[<<>>].rep, n[<<>>].map, n[<<>>].unknown, n[<<>>].audit)
    BY <1>0 DEF Rooted, SetScalar
  <2> QED BY <1>0, <2>1 DEF Rewrites
<1>2. Rewrites(SetRep(n, f, x), m, s, [r EXCEPT ![f] = x], e, u, t)
  <2>1. Writes(SetRep(n, f, x), n[<<>>].scalar, [n[<<>>].rep EXCEPT ![f] = x], n[<<>>].map, n[<<>>].unknown, n[<<>>].audit)
    BY <1>0 DEF Rooted, SetRep
  <2> QED BY <1>0, <2>1 DEF Rewrites
<1>3. Rewrites(SetMap(n, f, x), m, s, r, [e EXCEPT ![f] = x], u, t)
  <2>1. Writes(SetMap(n, f, x), n[<<>>].scalar, n[<<>>].rep, [n[<<>>].map EXCEPT ![f] = x], n[<<>>].unknown, n[<<>>].audit)
    BY <1>0 DEF Rooted, SetMap
  <2> QED BY <1>0, <2>1 DEF Rewrites
<1>4. Rewrites(PushUnknown(n, x), m, s, r, e, u \o x, t)
  <2>1. Writes(PushUnknown(n, x), n[<<>>].scalar, n[<<>>].rep, n[<<>>].map, n[<<>>].unknown \o x, n[<<>>].audit)
    BY <1>0 DEF Rooted, PushUnknown
  <2> QED BY <1>0, <2>1 DEF Rewrites
<1>5. Rewrites(DemoteIn(n, x), m, s, r, e, u, Demote(t, x))
  <2>1. Writes(DemoteIn(n, x), n[<<>>].scalar, n[<<>>].rep, n[<<>>].map, n[<<>>].unknown, Demote(n[<<>>].audit, x))
    BY <1>0 DEF Rooted, DemoteIn
  <2> QED BY <1>0, <2>1 DEF Rewrites
<1>6. Rewrites(PushAudit(n, x), m, s, r, e, u, Append(t, x))
  <2>1. Writes(PushAudit(n, x), n[<<>>].scalar, n[<<>>].rep, n[<<>>].map, n[<<>>].unknown, Append(n[<<>>].audit, x))
    BY <1>0 DEF Rooted, PushAudit
  <2> QED BY <1>0, <2>1 DEF Rewrites
<1> QED BY <1>1, <1>2, <1>3, <1>4, <1>5, <1>6

\* What is kept of an unknown occurrence.
KeptUnknown(unknown, entries) ==
  IF options.unknown_fields = "Preserve" THEN unknown \o entries ELSE unknown

\* The trail before the record of an occurrence of f is pushed.
Prepared(audit, f, demoted) == IF demoted THEN Demote(audit, Slot(f)) ELSE audit

\* What the unknown-field and duplicate policies rewrite.
LEMMA PolicyWrites ==
  ASSUME NEW m, NEW n, NEW s, NEW r, NEW e, NEW u, NEW t, Rewrites(n, m, s, r, e, u, t),
         NEW f, NEW x, NEW duplicate
  PROVE  /\ Rewrites(KeepUnknown(n, x), m, s, r, e, KeptUnknown(u, x), t)
         /\ Rewrites(DemoteDisplaced(n, f, duplicate, FALSE), m, s, r, e, u,
                     Prepared(t, f, duplicate))
         /\ DemoteDisplaced(n, f, duplicate, duplicate) = n
<1>1. Rewrites(KeepUnknown(n, x), m, s, r, e, KeptUnknown(u, x), t)
  BY RootWrites DEF KeepUnknown, KeptUnknown
<1>2. Rewrites(DemoteDisplaced(n, f, duplicate, FALSE), m, s, r, e, u, Prepared(t, f, duplicate))
  <2>1. Rewrites(DemoteIn(n, Slot(f)), m, s, r, e, u, Demote(t, Slot(f)))
    BY RootWrites
  <2> QED BY <2>1 DEF DemoteDisplaced, Prepared, Slot
<1>3. DemoteDisplaced(n, f, duplicate, duplicate) = n
  BY DEF DemoteDisplaced
<1> QED BY <1>1, <1>2, <1>3

\* The scalars without the siblings of f.
Displaced(scalar, f) == [g \in ScalarField |-> IF g \in Siblings(f) THEN None ELSE scalar[g]]

\* The submessages are removed at their addresses.
LEMMA DisplaceWrites ==
  ASSUME NEW m, Rooted(m), NEW f
  PROVE  LET n == m[<<>>]
             d == Displace(m, f)
         IN  /\ Rewrites(d, d, Displaced(n.scalar, f), n.rep, n.map, n.unknown, n.audit)
             /\ DOMAIN d = {b \in DOMAIN m : \A g \in Siblings(f) : ~Under(g, b)}
             /\ \A a \in DOMAIN d : a # <<>> => d[a] = m[a]
<1>1. <<>> \in {b \in DOMAIN m : \A g \in Siblings(f) : ~Under(g, b)}
  BY DEF Rooted, Under
<1> DEFINE n == m[<<>>]
           d == Displace(m, f)
<1>2. /\ DOMAIN d = {b \in DOMAIN m : \A g \in Siblings(f) : ~Under(g, b)}
      /\ \A a \in DOMAIN d : a # <<>> => d[a] = m[a]
      /\ d = [a \in DOMAIN d |-> d[a]]
  BY DEF Displace, RemoveFields
<1>3. d[<<>>] = [n EXCEPT !.scalar = Displaced(n.scalar, f)]
  BY <1>1 DEF Displace, RemoveFields, Displaced
<1> HIDE DEF d
<1>4. d[<<>>] = [scalar |-> Displaced(n.scalar, f), rep |-> n.rep, map |-> n.map,
                 unknown |-> n.unknown, audit |-> n.audit]
  BY <1>3 DEF Rooted
<1>5. Rooted(d)
  BY <1>1, <1>2, <1>4 DEF Rooted
<1>6. Rewrites(d, d, Displaced(n.scalar, f), n.rep, n.map, n.unknown, n.audit)
  BY <1>4, <1>5 DEF Rewrites
<1> QED BY <1>2, <1>6 DEF d

\* What merging a submessage rewrites.
LEMMA MergeWrites ==
  ASSUME NEW d, NEW s, NEW r, NEW e, NEW u, NEW t, Rewrites(d, d, s, r, e, u, t), NEW f, NEW sub
  PROVE  LET n == MergeMessage(d, f, sub) IN Rewrites(n, n, s, r, e, u, t)
<1> DEFINE n == MergeMessage(d, f, sub)
<1>1. <<>> \in DOMAIN d
  BY DEF Rooted, Rewrites
<1>2. <<>> \in DOMAIN n /\ n[<<>>] = d[<<>>] /\ n = [a \in DOMAIN n |-> n[a]]
  BY <1>1 DEF MergeMessage, Under
<1> HIDE DEF n
<1>3. Rewrites(n, n, s, r, e, u, t)
  BY <1>2 DEF Rewrites, Rooted
<1> QED BY <1>3 DEF n

-----------------------------------------------------------------------------
(* The messages that the kinds of occurrences make of m.                   *)

\* What keeping an unknown field and its record rewrites.
LEMMA UnknownWrites ==
  ASSUME NEW m, Rooted(m), NEW mid, NEW tag, NEW f, NEW payload, NEW record,
         StoresEnumValue(m, mid, tag, f, payload) \/ StoresUnknown(m, mid, tag, f, payload)
  PROVE  Rewrites(PushAudit(mid, record), m, m[<<>>].scalar, m[<<>>].rep, m[<<>>].map,
                  KeptUnknown(m[<<>>].unknown, <<[field |-> f, payload |-> payload]>>),
                  Append(m[<<>>].audit, record))
<1> DEFINE entries == <<[field |-> f, payload |-> payload]>>
<1>1. mid = KeepUnknown(m, entries)
  BY DEF StoresEnumValue, StoresUnknown
<1> HIDE DEF entries
<1> QED BY <1>1, NothingWritten, PolicyWrites, RootWrites DEF entries

\* What keeping a repeated value and its record rewrites.
LEMMA RepWrites ==
  ASSUME NEW m, Rooted(m), NEW f, NEW xs, NEW record
  PROVE  Rewrites(PushAudit(SetRep(m, f, xs), record), m, m[<<>>].scalar, [m[<<>>].rep EXCEPT ![f] = xs],
                  m[<<>>].map, m[<<>>].unknown, Append(m[<<>>].audit, record))
BY NothingWritten, RootWrites

\* What keeping a packed occurrence and its record rewrites.
LEMMA PackedWrites ==
  ASSUME NEW m, Rooted(m), NEW f, NEW u, NEW xs, NEW record
  PROVE  Rewrites(PushAudit(SetRep(PushUnknown(m, u), f, xs), record), m, m[<<>>].scalar,
                  [m[<<>>].rep EXCEPT ![f] = xs], m[<<>>].map, m[<<>>].unknown \o u, Append(m[<<>>].audit, record))
BY NothingWritten, RootWrites

\* What keeping a map entry and its record rewrites.
LEMMA EntryWrites ==
  ASSUME NEW m, Rooted(m), NEW f, NEW entries, NEW duplicate, NEW record
  PROVE  Rewrites(PushAudit(DemoteDisplaced(SetMap(m, f, entries), f, duplicate, FALSE), record),
                  m, m[<<>>].scalar, m[<<>>].rep, [m[<<>>].map EXCEPT ![f] = entries], m[<<>>].unknown,
                  Append(Prepared(m[<<>>].audit, f, duplicate), record))
BY NothingWritten, RootWrites, PolicyWrites

\* What keeping a singular value and its record rewrites.
LEMMA ScalarWrites ==
  ASSUME NEW m, Rooted(m), NEW f, NEW v, NEW duplicate, NEW record
  PROVE  Rewrites(PushAudit(DemoteDisplaced(SetScalar(Displace(m, f), f, v), f, duplicate, FALSE),
                            record),
                  Displace(m, f), [Displaced(m[<<>>].scalar, f) EXCEPT ![f] = v], m[<<>>].rep,
                  m[<<>>].map, m[<<>>].unknown,
                  Append(Prepared(m[<<>>].audit, f, duplicate), record))
BY DisplaceWrites, RootWrites, PolicyWrites

\* What keeping a submessage and its record rewrites.
LEMMA SubmessageWrites ==
  ASSUME NEW m, Rooted(m), NEW f, NEW sub, NEW duplicate, NEW record
  PROVE  Rewrites(PushAudit(DemoteDisplaced(MergeMessage(Displace(m, f), f, sub), f,
                                            duplicate, duplicate), record),
                  MergeMessage(Displace(m, f), f, sub),
                  Displaced(m[<<>>].scalar, f), m[<<>>].rep, m[<<>>].map, m[<<>>].unknown,
                  Append(m[<<>>].audit, record))
<1> DEFINE n == m[<<>>]
           merged == MergeMessage(Displace(m, f), f, sub)
<1>1. Rewrites(merged, merged, Displaced(n.scalar, f), n.rep, n.map, n.unknown, n.audit)
  BY DisplaceWrites, MergeWrites
<1> HIDE DEF merged
<1>2. DemoteDisplaced(merged, f, duplicate, duplicate) = merged
  BY DEF DemoteDisplaced
<1> QED BY <1>1, <1>2, RootWrites DEF merged

-----------------------------------------------------------------------------
(* What the trail of a message becomes.                                    *)

\* A position after all the others is the last.
LEMMA LatestIsLast ==
  ASSUME NEW n \in Nat, NEW S, S \subseteq 1 .. n
  PROVE  Max(S \cup {n + 1}) = n + 1
<1>1. n + 1 \in S \cup {n + 1} /\ \A j \in S \cup {n + 1} : n + 1 >= j
  OBVIOUS
<1>2. \A i \in S \cup {n + 1} : i # n + 1 => ~(i >= n + 1)
  OBVIOUS
<1>3. \A i \in S \cup {n + 1} : (\A j \in S \cup {n + 1} : i >= j) => i = n + 1
  BY <1>1, <1>2
<1> QED BY <1>1, <1>3 DEF Max

\* One record more.
LEMMA PushedRecord ==
  ASSUME NEW t \in Seq(AuditRecord), NEW r, NEW S
  PROVE  /\ LiveRecords(Append(t, r), S) = IF r.field \in S /\ Live(r)
                                            THEN LiveRecords(t, S) \cup {Len(t) + 1}
                                            ELSE LiveRecords(t, S)
         /\ Occurrences(Append(t, r), S) = IF r.field \in S /\ r.tag # "UnknownField"
                                            THEN Occurrences(t, S) \cup {Len(t) + 1}
                                            ELSE Occurrences(t, S)
         /\ Len(t) \in Nat
         /\ LiveRecords(t, S) \subseteq 1 .. Len(t) /\ Occurrences(t, S) \subseteq 1 .. Len(t)
<1> DEFINE new == Append(t, r)
           k   == Len(t) + 1
<1>1. /\ Len(t) \in Nat /\ DOMAIN t = 1 .. Len(t) /\ DOMAIN new = 1 .. Len(t) + 1
      /\ new[k] = r /\ \A j \in 1 .. Len(t) : new[j] = t[j]
  <2>1. t \in Seq(AuditRecord \cup {r}) /\ r \in AuditRecord \cup {r}
    OBVIOUS
  <2> QED BY <2>1, AppendProperties, LenProperties
<1> HIDE DEF new
<1>2. 1 .. Len(t) + 1 = 1 .. Len(t) \cup {k} /\ k \notin 1 .. Len(t)
  BY <1>1
<1> HIDE DEF k
<1>3. LiveRecords(new, S) = IF r.field \in S /\ Live(r) THEN LiveRecords(t, S) \cup {k}
                                                       ELSE LiveRecords(t, S)
  BY <1>1, <1>2 DEF LiveRecords
<1>4. Occurrences(new, S) = IF r.field \in S /\ r.tag # "UnknownField"
                             THEN Occurrences(t, S) \cup {k} ELSE Occurrences(t, S)
  BY <1>1, <1>2 DEF Occurrences
<1>5. LiveRecords(t, S) \subseteq 1 .. Len(t) /\ Occurrences(t, S) \subseteq 1 .. Len(t)
  BY <1>1 DEF LiveRecords, Occurrences
<1> QED BY <1>1, <1>3, <1>4, <1>5 DEF new, k

\* A demotion takes one live record from its slot, if there is one.
LEMMA DemotedTrail ==
  ASSUME NEW t \in Seq(AuditRecord), NEW T
  PROVE  /\ Demote(t, T) \in Seq(AuditRecord) /\ Len(Demote(t, T)) = Len(t)
         /\ \A S : Occurrences(Demote(t, T), S) = Occurrences(t, S)
         /\ \A S : S \cap T = {} => LiveRecords(Demote(t, T), S) = LiveRecords(t, S)
         /\ LiveRecords(t, T) = {} => LiveRecords(Demote(t, T), T) = {}
         /\ LiveRecords(t, T) # {} =>
              \E k \in LiveRecords(t, T) : LiveRecords(Demote(t, T), T) = LiveRecords(t, T) \ {k}
<1> DEFINE p    == Demote(t, T)
           live == LiveRecords(t, T)
           last == CHOOSE i \in live : \A j \in live : j <= i
<1>1. Len(t) \in Nat /\ DOMAIN t = 1 .. Len(t) /\ live \subseteq 1 .. Len(t)
  BY LenProperties DEF LiveRecords
<1>2. p \in Seq(AuditRecord) /\ Len(p) = Len(t)
  BY DemotedRecord
<1>3. CASE live = {}
  <2>1. p = t
    BY <1>3 DEF Demote, LiveRecords
  <2> HIDE DEF p
  <2> QED BY <1>2, <1>3, <2>1 DEF p
<1>4. CASE live # {}
  <2>1. p = [t EXCEPT ![last].tag = "DuplicateDiscarded"]
    BY <1>4 DEF Demote, LiveRecords
  <2>2. last \in live
    <3> HIDE DEF live
    <3>1. \E i \in live : \A j \in live : j <= i
      BY <1>1, <1>4, LastPosition
    <3> QED BY <3>1
  <2> HIDE DEF last, p
  <2>3. last \in DOMAIN t /\ t[last].field \in T /\ Live(t[last]) /\ t[last] \in AuditRecord
    BY <1>1, <2>2 DEF LiveRecords
  <2>4. /\ DOMAIN p = DOMAIN t /\ p[last].field = t[last].field
        /\ p[last].tag = "DuplicateDiscarded"
        /\ \A j \in DOMAIN t : j # last => p[j] = t[j]
    BY <2>1, <2>3 DEF AuditRecord
  <2>5. ~Live(p[last]) /\ p[last].tag # "UnknownField" /\ t[last].tag # "UnknownField"
    BY <2>3, <2>4 DEF Live
  <2>6. ASSUME NEW S PROVE Occurrences(p, S) = Occurrences(t, S)
    BY <2>3, <2>4, <2>5 DEF Occurrences
  <2>7. ASSUME NEW S, S \cap T = {} PROVE LiveRecords(p, S) = LiveRecords(t, S)
    BY <2>3, <2>4, <2>7 DEF LiveRecords
  <2>8. LiveRecords(p, T) = live \ {last}
    BY <2>3, <2>4, <2>5 DEF LiveRecords
  <2> HIDE DEF live
  <2> QED BY <1>2, <1>4, <2>2, <2>6, <2>7, <2>8 DEF p, live
<1> QED BY <1>3, <1>4

\* ... and so does the preparation for the record of a duplicate.
LEMMA PreparedTrail ==
  ASSUME NEW t \in Seq(AuditRecord), NEW f, NEW demoted
  PROVE  /\ Prepared(t, f, demoted) \in Seq(AuditRecord)
         /\ Len(Prepared(t, f, demoted)) = Len(t)
         /\ \A S : Occurrences(Prepared(t, f, demoted), S) = Occurrences(t, S)
         /\ \A S : S \cap Slot(f) = {} =>
              LiveRecords(Prepared(t, f, demoted), S) = LiveRecords(t, S)
<1>1. CASE demoted
  BY <1>1, DemotedTrail DEF Prepared
<1>2. CASE ~demoted
  BY <1>2 DEF Prepared
<1> QED BY <1>1, <1>2

\* The trail names what a node retains: see TrailNamesRetained.  A slot with an
\* occurrence has a member present.
NamesScalar(n, f) ==
  LET occurrences == Occurrences(n.audit, Slot(f))
  IN  /\ LiveRecords(n.audit, Slot(f)) =
           IF occurrences = {} THEN {} ELSE {Max(occurrences)}
      /\ occurrences # {} => \E g \in Slot(f) : n.scalar[g] # None

NamesMap(n, f) == Cardinality(LiveRecords(n.audit, {f})) = Cardinality(Keys(n.map[f]))

Names(n) ==
  /\ \A f \in ScalarField : Slot(f) \subseteq ScalarField => NamesScalar(n, f)
  /\ \A f \in MapField : NamesMap(n, f)

\* A record that is not of a slot, after a demotion that is not either.
LEMMA OtherRecord ==
  ASSUME NEW t \in Seq(AuditRecord), NEW p, NEW r, NEW S,
         p = t \/ \E T : S \cap T = {} /\ p = Demote(t, T),
         r.tag = "UnknownField" \/ r.field \notin S
  PROVE  /\ LiveRecords(Append(p, r), S) = LiveRecords(t, S)
         /\ Occurrences(Append(p, r), S) = Occurrences(t, S)
<1>1. /\ p \in Seq(AuditRecord) /\ Occurrences(p, S) = Occurrences(t, S)
      /\ LiveRecords(p, S) = LiveRecords(t, S)
  BY DemotedTrail
<1>2. ~(r.field \in S /\ Live(r)) /\ ~(r.field \in S /\ r.tag # "UnknownField")
  BY DEF Live
<1>3. /\ LiveRecords(Append(p, r), S) = LiveRecords(p, S)
      /\ Occurrences(Append(p, r), S) = Occurrences(p, S)
  BY <1>1, <1>2, PushedRecord
<1> QED BY <1>1, <1>3

\* Preparing a slot leaves the records of the others.
LEMMA PreparedApart ==
  ASSUME NEW t, NEW f, NEW demoted, NEW S, S \cap Slot(f) = {}
  PROVE  Prepared(t, f, demoted) = t
         \/ \E T : S \cap T = {} /\ Prepared(t, f, demoted) = Demote(t, T)
BY DEF Prepared

\* An occurrence of a scalar: its record is now the live one of the slot.
LEMMA ScalarNamed ==
  ASSUME NEW n, NEW new, n.audit \in Seq(AuditRecord), NEW f, NEW duplicate, NEW r,
         new.audit = Append(Prepared(n.audit, f, duplicate), r),
         NamesScalar(n, f), duplicate \/ Occurrences(n.audit, Slot(f)) = {},
         r.field \in Slot(f), Live(r), new.scalar[f] # None
  PROVE  NamesScalar(new, f)
<1> DEFINE p == Prepared(n.audit, f, duplicate)
           k == Len(n.audit) + 1
<1>1. /\ p \in Seq(AuditRecord) /\ Len(p) = Len(n.audit)
      /\ Occurrences(p, Slot(f)) = Occurrences(n.audit, Slot(f))
  BY PreparedTrail
<1>2. LiveRecords(p, Slot(f)) = {}
  <2>1. CASE ~duplicate
    <3>1. LiveRecords(n.audit, Slot(f)) = {} /\ p = n.audit
      BY <2>1 DEF NamesScalar, Prepared
    <3> QED BY <3>1
  <2>2. CASE duplicate
    <3>1. \A i, j \in LiveRecords(n.audit, Slot(f)) : i = j
      BY DEF NamesScalar
    <3>2. p = Demote(n.audit, Slot(f))
      BY <2>2 DEF Prepared
    <3> HIDE DEF p
    <3> QED BY <3>1, <3>2, DemotedTrail
  <2> QED BY <2>1, <2>2
<1> HIDE DEF p
<1>3. r.tag # "UnknownField"
  BY DEF Live
<1>4. /\ LiveRecords(new.audit, Slot(f)) = {k}
      /\ Occurrences(new.audit, Slot(f)) = Occurrences(p, Slot(f)) \cup {k}
      /\ Len(n.audit) \in Nat /\ Occurrences(p, Slot(f)) \subseteq 1 .. Len(n.audit)
  <2>1. new.audit = Append(p, r)
    BY DEF p
  <2> QED BY <1>1, <1>2, <1>3, <2>1, PushedRecord
<1>5. Max(Occurrences(new.audit, Slot(f))) = k
  BY <1>4, LatestIsLast
<1>6. f \in Slot(f)
  BY DEF Slot
<1> HIDE DEF k
<1> QED BY <1>4, <1>5, <1>6 DEF NamesScalar

\* An entry of a map: as many live records as keys.
LEMMA MapNamed ==
  ASSUME NEW n, NEW new, n.audit \in Seq(AuditRecord), NEW f, NEW r, NEW k, NEW p,
         p = IF k \in Keys(n.map[f]) THEN Demote(n.audit, {f}) ELSE n.audit,
         new.audit = Append(p, r), r.field = f, Live(r),
         NamesMap(n, f), IsFiniteSet(Keys(n.map[f])),
         Keys(new.map[f]) = Keys(n.map[f]) \cup {k}
  PROVE  NamesMap(new, f)
<1> DEFINE duplicate == k \in Keys(n.map[f])
           old  == LiveRecords(n.audit, {f})
           keys == Keys(n.map[f])
           i    == Len(n.audit) + 1
<1>1. p \in Seq(AuditRecord) /\ Len(p) = Len(n.audit)
  <2> DEFINE T == {f}
  <2>1. p = n.audit \/ p = Demote(n.audit, T)
    OBVIOUS
  <2> HIDE DEF T
  <2>2. Demote(n.audit, T) \in Seq(AuditRecord) /\ Len(Demote(n.audit, T)) = Len(n.audit)
    BY DemotedTrail
  <2> QED BY <2>1, <2>2
<1>2. IsFiniteSet(old) /\ Cardinality(old) = Cardinality(keys) /\ Cardinality(keys) \in Nat
  <2>1. Len(n.audit) \in Nat /\ old \subseteq 1 .. Len(n.audit)
    BY LenProperties DEF LiveRecords
  <2>2. IsFiniteSet(1 .. Len(n.audit))
    <3>1. Len(n.audit) \in Nat
      BY <2>1
    <3> HIDE DEF old, keys, duplicate
    <3> QED BY <3>1, FS_Interval
  <2>3. IsFiniteSet(old)
    <3> HIDE DEF old
    <3> QED BY <2>1, <2>2, FS_Subset
  <2> QED BY <2>3, FS_CardinalityType DEF NamesMap
<1>3. /\ IsFiniteSet(LiveRecords(p, {f}))
      /\ Cardinality(LiveRecords(p, {f})) =
           IF duplicate THEN Cardinality(keys) - 1 ELSE Cardinality(keys)
  <2>1. CASE ~duplicate
    <3>1. p = n.audit
      BY <2>1
    <3> QED BY <1>2, <2>1, <3>1
  <2>2. CASE duplicate
    <3>1. old # {}
      <4>1. Cardinality(keys) # 0
        <5> HIDE DEF keys
        <5> QED BY <2>2, FS_EmptySet DEF keys
      <4> QED BY <1>2, <4>1, FS_EmptySet
    <3>2. PICK j \in old : LiveRecords(p, {f}) = old \ {j}
      <4>1. p = Demote(n.audit, {f})
        BY <2>2
      <4> DEFINE T == {f}
      <4>2. \E j \in LiveRecords(n.audit, T) :
              LiveRecords(Demote(n.audit, T), T) = LiveRecords(n.audit, T) \ {j}
        <5>1. LiveRecords(n.audit, T) # {}
          BY <3>1
        <5> HIDE DEF T
        <5> QED BY <5>1, DemotedTrail
      <4> QED BY <4>1, <4>2
    <3> HIDE DEF old, keys
    <3> QED BY <1>2, <2>2, <3>2, FS_RemoveElement
  <2> QED BY <2>1, <2>2
<1>4. LiveRecords(new.audit, {f}) = LiveRecords(p, {f}) \cup {i} /\ i \notin LiveRecords(p, {f})
  <2>1. LiveRecords(p, {f}) \subseteq 1 .. Len(n.audit) /\ Len(n.audit) \in Nat
    BY <1>1, PushedRecord
  <2>2. LiveRecords(Append(p, r), {f}) = LiveRecords(p, {f}) \cup {i}
    <3>1. r.field \in {f} /\ Live(r) /\ i = Len(p) + 1
      BY <1>1
    <3> QED BY <1>1, <3>1, PushedRecord
  <2>4. i \notin 1 .. Len(n.audit)
    BY <2>1
  <2> HIDE DEF i
  <2> QED BY <2>1, <2>2, <2>4
<1> HIDE DEF i, old
<1>5. Cardinality(LiveRecords(new.audit, {f})) = Cardinality(LiveRecords(p, {f})) + 1
  <2> DEFINE R == LiveRecords(p, {f})
  <2>1. IsFiniteSet(R) /\ i \notin R /\ LiveRecords(new.audit, {f}) = R \cup {i}
    BY <1>3, <1>4
  <2> HIDE DEF R
  <2>2. Cardinality(R \cup {i}) = Cardinality(R) + 1
    BY <2>1, FS_AddElement
  <2> QED BY <2>1, <2>2 DEF R
<1>6. Cardinality(Keys(new.map[f])) =
        IF duplicate THEN Cardinality(keys) ELSE Cardinality(keys) + 1
  <2>1. IsFiniteSet(keys) /\ Keys(new.map[f]) = keys \cup {k} /\ (duplicate <=> k \in keys)
    OBVIOUS
  <2> HIDE DEF keys
  <2> QED BY <2>1, FS_AddElement
<1> QED BY <1>2, <1>3, <1>5, <1>6 DEF NamesMap

-----------------------------------------------------------------------------
(* An occurrence leaves the trail naming what the message retains.          *)

\* Two slots are the same or have nothing in common.
LEMMA SlotsApart ==
  ASSUME NEW f \in Field, NEW g \in Field
  PROVE  Slot(f) = Slot(g) \/ Slot(f) \cap Slot(g) = {}
BY SlotsAgree

\* The shapes of fields are apart, and so are their slots.
LEMMA SlotShapes ==
  /\ \A f \in ScalarField : f \in Field /\ f \in SingularField
  /\ \A f \in MessageField : f \in Field /\ f \in SingularField /\ f \notin ScalarField
  /\ \A f \in RepeatedField : f \in Field /\ f \notin SingularField /\ f \notin MapField
  /\ \A f \in MapField : f \in Field /\ f \notin SingularField /\ Slot(f) = {f}
  /\ \A f \in SingularField : Slot(f) \subseteq SingularField
<1>1. \A f \in MapField : Slot(f) = {f}
  BY DescAssumption DEF Slot, Siblings, MapField
<1> QED BY <1>1, SlotOfSingular
        DEF SingularField, ScalarField, MessageField, RepeatedField, MapField

\* A record of no slot and no map.
LEMMA ForeignNamed ==
  ASSUME NEW n, NEW new, n.audit \in Seq(AuditRecord), Names(n), NEW r,
         new.audit = Append(n.audit, r), new.map = n.map,
         \A f \in ScalarField : Slot(f) \subseteq ScalarField =>
           /\ r.tag = "UnknownField" \/ r.field \notin Slot(f)
           /\ \A h \in Slot(f) : new.scalar[h] = n.scalar[h],
         r.tag = "UnknownField" \/ r.field \notin MapField
  PROVE  Names(new)
<1>1. ASSUME NEW f \in ScalarField, Slot(f) \subseteq ScalarField PROVE NamesScalar(new, f)
  <2>1. /\ LiveRecords(new.audit, Slot(f)) = LiveRecords(n.audit, Slot(f))
        /\ Occurrences(new.audit, Slot(f)) = Occurrences(n.audit, Slot(f))
    BY <1>1, OtherRecord
  <2> QED BY <1>1, <2>1 DEF Names, NamesScalar
<1>2. ASSUME NEW f \in MapField PROVE NamesMap(new, f)
  <2>1. r.tag = "UnknownField" \/ r.field \notin {f}
    OBVIOUS
  <2>2. LiveRecords(new.audit, {f}) = LiveRecords(n.audit, {f})
    BY <2>1, OtherRecord
  <2> QED BY <1>2, <2>2 DEF Names, NamesMap
<1> QED BY <1>1, <1>2 DEF Names

\* An unknown field kept leaves the trail naming the values.
LEMMA UnknownNamed ==
  ASSUME NEW m, IsMessage(m), Names(m[<<>>]), NEW mid, NEW tag, NEW f, NEW payload, NEW bytes,
         StoresEnumValue(m, mid, tag, f, payload) \/ StoresUnknown(m, mid, tag, f, payload)
  PROVE  Names(PushAudit(mid, [tag |-> tag, field |-> f, payload |-> payload,
                               bytes |-> bytes])[<<>>])
<1> DEFINE r   == [tag |-> tag, field |-> f, payload |-> payload, bytes |-> bytes]
           new == PushAudit(mid, r)[<<>>]
           n   == m[<<>>]
<1>1. Rooted(m) /\ n.audit \in Seq(AuditRecord)
  BY MessageRooted DEF Trail
<1>2. new.scalar = n.scalar /\ new.map = n.map /\ new.audit = Append(n.audit, r)
  <2> HIDE DEF r
  <2>1. Rewrites(PushAudit(mid, r), m, n.scalar, n.rep, n.map,
                 KeptUnknown(n.unknown, <<[field |-> f, payload |-> payload]>>), Append(n.audit, r))
    BY <1>1, UnknownWrites
  <2> QED BY <2>1 DEF Rewrites
<1>3. r.tag = "UnknownField" \/ r.field = None
  BY DEF StoresEnumValue, StoresUnknown
<1> HIDE DEF r, new, n
<1>4. None \notin MapField /\ \A g \in ScalarField : None \notin Slot(g)
  BY SlotShapes, ValueAssumption DEF SingularField, MapField
<1>5. Names(n)
  BY DEF n
<1>6. Names(new)
  BY <1>1, <1>2, <1>3, <1>4, <1>5, ForeignNamed
<1> QED BY <1>6 DEF new, r

\* A repeated value kept leaves the trail naming the values.
LEMMA ElementNamed ==
  ASSUME NEW m, IsMessage(m), Names(m[<<>>]), NEW mid, NEW tag, NEW f, NEW payload, NEW bytes,
         NEW fr,
         \/ StoresElement(m, mid, tag, f, payload) \/ StoresMessage(m, mid, tag, f, payload)
         \/ StoresPacked(m, mid, tag, f, payload, fr)
  PROVE  Names(PushAudit(mid, [tag |-> tag, field |-> f, payload |-> payload,
                               bytes |-> bytes])[<<>>])
<1> DEFINE r   == [tag |-> tag, field |-> f, payload |-> payload, bytes |-> bytes]
           new == PushAudit(mid, r)[<<>>]
           n   == m[<<>>]
<1>1. Rooted(m) /\ n.audit \in Seq(AuditRecord)
  BY MessageRooted DEF Trail
<1>2. f \in RepeatedField /\ r.field = f
  BY DEF StoresElement, StoresMessage, StoresPacked
<1>3. new.scalar = n.scalar /\ new.map = n.map /\ new.audit = Append(n.audit, r)
  <2> HIDE DEF r
  <2>1. \/ \E xs : mid = SetRep(m, f, xs)
        \/ \E u, xs : mid = SetRep(PushUnknown(m, u), f, xs)
    BY DEF StoresElement, StoresMessage, StoresPacked
  <2>2. CASE \E xs : mid = SetRep(m, f, xs)
    <3>1. PICK xs : mid = SetRep(m, f, xs)
      BY <2>2
    <3>2. Rewrites(PushAudit(mid, r), m, n.scalar, [n.rep EXCEPT ![f] = xs], n.map, n.unknown,
                   Append(n.audit, r))
      BY <1>1, <3>1, RepWrites
    <3> QED BY <3>2 DEF Rewrites
  <2>3. CASE \E u, xs : mid = SetRep(PushUnknown(m, u), f, xs)
    <3>1. PICK u, xs : mid = SetRep(PushUnknown(m, u), f, xs)
      BY <2>3
    <3>2. Rewrites(PushAudit(mid, r), m, n.scalar, [n.rep EXCEPT ![f] = xs], n.map,
                   n.unknown \o u, Append(n.audit, r))
      BY <1>1, <3>1, PackedWrites
    <3> QED BY <3>2 DEF Rewrites
  <2> QED BY <2>1, <2>2, <2>3
<1> HIDE DEF r, new, n
<1>4. f \notin MapField /\ \A g \in ScalarField : f \notin Slot(g)
  BY <1>2, SlotShapes
<1>5. Names(n)
  BY DEF n
<1>6. Names(new)
  BY <1>1, <1>2, <1>3, <1>4, <1>5, ForeignNamed
<1> QED BY <1>6 DEF new, r

\* A submessage kept leaves the trail naming the values.
LEMMA SubmessageNamed ==
  ASSUME NEW m, IsMessage(m), Names(m[<<>>]), NEW mid, NEW tag, NEW f, NEW payload, NEW bytes,
         NEW fr, StoresSubmessage(m, mid, tag, f, payload, fr)
  PROVE  Names(PushAudit(mid, [tag |-> tag, field |-> f, payload |-> payload,
                               bytes |-> bytes])[<<>>])
<1> DEFINE r   == [tag |-> tag, field |-> f, payload |-> payload, bytes |-> bytes]
           new == PushAudit(mid, r)[<<>>]
           n   == m[<<>>]
<1>1. Rooted(m) /\ n.audit \in Seq(AuditRecord)
  BY MessageRooted DEF Trail
<1>2. f \in MessageField /\ r.field = f
  BY DEF StoresSubmessage
<1>3. new.scalar = Displaced(n.scalar, f) /\ new.map = n.map /\ new.audit = Append(n.audit, r)
  <2> HIDE DEF r
  <2>1. mid = DemoteDisplaced(MergeMessage(Displace(m, f), f, fr.msg), f,
                              Duplicate(m, f), Duplicate(m, f))
    BY DEF StoresSubmessage
  <2>2. Rewrites(PushAudit(mid, r), MergeMessage(Displace(m, f), f, fr.msg),
                 Displaced(n.scalar, f), n.rep, n.map, n.unknown, Append(n.audit, r))
    BY <1>1, <2>1, SubmessageWrites
  <2> QED BY <2>2 DEF Rewrites
<1> HIDE DEF r, new, n
<1>4. f \notin MapField /\ f \in Field
  BY <1>2, SlotShapes
<1>5. ASSUME NEW g \in ScalarField, Slot(g) \subseteq ScalarField
      PROVE  f \notin Slot(g) /\ \A h \in Slot(g) : new.scalar[h] = n.scalar[h]
  <2>1. f \notin Slot(g)
    BY <1>2, <1>5, SlotShapes
  <2>2. ASSUME NEW h \in Slot(g) PROVE h \notin Siblings(f) /\ h \in ScalarField
    <3>1. h \in ScalarField
      BY <1>5
    <3>2. h \in Slot(f) => Slot(h) = Slot(f) /\ f \in Slot(h)
      BY <1>4, SlotsAgree
    <3>3. Slot(h) = Slot(g)
      BY SlotShapes, SlotsAgree
    <3> QED BY <2>1, <3>1, <3>2, <3>3 DEF Slot
  <2> QED BY <1>3, <2>1, <2>2 DEF Displaced
<1>6. Names(n)
  BY DEF n
<1>7. Names(new)
  BY <1>1, <1>2, <1>3, <1>4, <1>5, <1>6, ForeignNamed
<1> QED BY <1>7 DEF new, r

\* A singular value kept is the one its trail names.
LEMMA ScalarOccurrenceNamed ==
  ASSUME NEW m, IsMessage(m), Names(m[<<>>]), NEW mid, NEW tag, NEW f, NEW payload, NEW bytes,
         StoresScalar(m, mid, tag, f, payload)
  PROVE  Names(PushAudit(mid, [tag |-> tag, field |-> f, payload |-> payload,
                               bytes |-> bytes])[<<>>])
<1> DEFINE r   == [tag |-> tag, field |-> f, payload |-> payload, bytes |-> bytes]
           new == PushAudit(mid, r)[<<>>]
           n   == m[<<>>]
           duplicate == Duplicate(m, f)
<1>1. Rooted(m) /\ n.audit \in Seq(AuditRecord)
  BY MessageRooted DEF Trail
<1>2. /\ f \in ScalarField /\ r.field = f /\ r.tag = OccurrenceTag(duplicate, FALSE)
  BY DEF StoresScalar
<1>3. PICK v \in Scalar :
        mid = DemoteDisplaced(SetScalar(Displace(m, f), f, v), f, duplicate, FALSE)
  BY DEF StoresScalar
<1>4. /\ new.scalar = [Displaced(n.scalar, f) EXCEPT ![f] = v] /\ new.map = n.map
      /\ new.audit = Append(Prepared(n.audit, f, duplicate), r)
  <2> HIDE DEF r, duplicate
  <2>1. Rewrites(PushAudit(mid, r), Displace(m, f), [Displaced(n.scalar, f) EXCEPT ![f] = v],
                 n.rep, n.map, n.unknown, Append(Prepared(n.audit, f, duplicate), r))
    BY <1>1, <1>3, ScalarWrites
  <2> QED BY <2>1 DEF Rewrites
<1>5. duplicate \/ \A g \in Slot(f) : g \in ScalarField => n.scalar[g] = None
  BY DEF Duplicate, Has, HasAt, Slot
<1>6. Live(r)
  BY <1>2 DEF Live, OccurrenceTag
<1> HIDE DEF r, new, n, duplicate
<1>7. Names(n)
  BY DEF n
<1>8. f \in Field /\ f \notin MapField /\ Slot(f) \subseteq SingularField
      /\ f \in Slot(f)
  BY <1>2, SlotShapes DEF Slot
<1>9. new.scalar[f] # None
  <2>1. Displaced(n.scalar, f) = [g \in ScalarField |-> Displaced(n.scalar, f)[g]]
    BY DEF Displaced
  <2> QED BY <1>2, <1>4, <2>1, ValueAssumption
<1>10. ASSUME NEW g \in ScalarField, Slot(g) \subseteq ScalarField PROVE NamesScalar(new, g)
  <2>1. CASE Slot(g) = Slot(f)
    <3>1. NamesScalar(n, f) /\ Slot(f) \subseteq ScalarField
      BY <1>2, <1>7, <1>10, <2>1 DEF Names
    <3>2. duplicate \/ Occurrences(n.audit, Slot(f)) = {}
      BY <1>5, <3>1 DEF NamesScalar
    <3>3. NamesScalar(new, f)
      BY <1>1, <1>2, <1>4, <1>6, <1>8, <1>9, <3>1, <3>2, ScalarNamed
    <3> QED BY <1>9, <2>1, <3>3 DEF NamesScalar
  <2>2. CASE Slot(g) \cap Slot(f) = {}
    <3>1. NamesScalar(n, g) /\ f \notin Slot(g)
      BY <1>7, <1>8, <1>10, <2>2 DEF Names
    <3>2. \A h \in Slot(g) : new.scalar[h] = n.scalar[h]
      <4>1. \A h \in Slot(g) : h # f /\ h \notin Siblings(f) /\ h \in ScalarField
        BY <1>8, <1>10, <2>2 DEF Slot
      <4> QED BY <1>4, <4>1 DEF Displaced
    <3>3. /\ LiveRecords(new.audit, Slot(g)) = LiveRecords(n.audit, Slot(g))
          /\ Occurrences(new.audit, Slot(g)) = Occurrences(n.audit, Slot(g))
      <4> DEFINE p == Prepared(n.audit, f, duplicate)
      <4>1. p = n.audit \/ \E T : Slot(g) \cap T = {} /\ p = Demote(n.audit, T)
        BY <2>2, PreparedApart
      <4>2. new.audit = Append(p, r) /\ r.field \notin Slot(g)
        BY <1>2, <1>4, <3>1
      <4> HIDE DEF p
      <4> QED BY <1>1, <4>1, <4>2, OtherRecord
    <3> QED BY <3>1, <3>2, <3>3 DEF NamesScalar
  <2> QED BY <1>8, <2>1, <2>2, SlotsApart, SlotShapes
<1>11. ASSUME NEW g \in MapField PROVE NamesMap(new, g)
  <2>1. NamesMap(n, g) /\ g \notin Slot(f) /\ f # g
    BY <1>7, <1>8, SlotShapes DEF Names
  <2>2. LiveRecords(new.audit, {g}) = LiveRecords(n.audit, {g})
    <3> DEFINE p == Prepared(n.audit, f, duplicate)
               S == {g}
    <3>1. S \cap Slot(f) = {} /\ r.field \notin S
      BY <1>2, <2>1
    <3>2. new.audit = Append(p, r)
      BY <1>4
    <3> HIDE DEF S
    <3>3. p = n.audit \/ \E T : S \cap T = {} /\ p = Demote(n.audit, T)
      BY <3>1, PreparedApart
    <3> HIDE DEF p
    <3>4. LiveRecords(new.audit, S) = LiveRecords(n.audit, S)
      BY <1>1, <3>1, <3>2, <3>3, OtherRecord
    <3> QED BY <3>4 DEF S
  <2> QED BY <1>4, <2>1, <2>2 DEF NamesMap
<1>12. Names(new)
  BY <1>10, <1>11 DEF Names
<1> QED BY <1>12 DEF new, r

\* A map entry kept has its live record.
LEMMA EntryNamed ==
  ASSUME NEW m, IsMessage(m), Names(m[<<>>]), NEW mid, NEW tag, NEW f, NEW payload, NEW bytes,
         \A g \in MapField : IsFiniteSet(Keys(m[<<>>].map[g])),
         StoresEntry(m, mid, tag, f, payload)
  PROVE  Names(PushAudit(mid, [tag |-> tag, field |-> f, payload |-> payload,
                               bytes |-> bytes])[<<>>])
<1> DEFINE r   == [tag |-> tag, field |-> f, payload |-> payload, bytes |-> bytes]
           new == PushAudit(mid, r)[<<>>]
           n   == m[<<>>]
<1>1. Rooted(m) /\ n.audit \in Seq(AuditRecord) /\ n.map \in [MapField -> Entries]
  BY MessageRooted DEF Trail, IsMessage, Node
<1>2. PICK k \in Scalar, v \in Value :
        /\ tag = OccurrenceTag(k \in Keys(n.map[f]), FALSE)
        /\ mid = DemoteDisplaced(SetMap(m, f, PutEntry(n.map[f], k, v)), f, k \in Keys(n.map[f]), FALSE)
  BY DEF StoresEntry
<1> DEFINE duplicate == k \in Keys(n.map[f])
<1>3. f \in MapField /\ r.field = f /\ r.tag = OccurrenceTag(duplicate, FALSE)
  BY <1>2 DEF StoresEntry
<1>4. /\ new.scalar = n.scalar /\ new.map = [n.map EXCEPT ![f] = PutEntry(n.map[f], k, v)]
      /\ new.audit = Append(Prepared(n.audit, f, duplicate), r)
  <2> HIDE DEF r, duplicate
  <2>1. mid = DemoteDisplaced(SetMap(m, f, PutEntry(n.map[f], k, v)), f, duplicate, FALSE)
    BY <1>2 DEF duplicate
  <2>2. Rewrites(PushAudit(mid, r), m, n.scalar, n.rep,
                 [n.map EXCEPT ![f] = PutEntry(n.map[f], k, v)], n.unknown,
                 Append(Prepared(n.audit, f, duplicate), r))
    BY <1>1, <2>1, EntryWrites
  <2> QED BY <2>2 DEF Rewrites
<1>5. Live(r)
  BY <1>3 DEF Live, OccurrenceTag
<1>6. \A g \in MapField : IsFiniteSet(Keys(n.map[g]))
  OBVIOUS
<1> HIDE DEF r, new, n
<1>7. Names(n)
  BY DEF n
<1>8. f \in Field /\ f \notin SingularField /\ Slot(f) = {f}
  BY <1>3, SlotShapes
<1>9. Keys(new.map[f]) = Keys(n.map[f]) \cup {k} /\ \A g \in MapField : g # f => new.map[g] = n.map[g]
  <2>1. n.map[f] \in Entries /\ new.map[f] = [n.map[f] EXCEPT ![k] = v] /\ v # None
    BY <1>1, <1>3, <1>4, ValueAssumption DEF PutEntry, Value
  <2>2. Keys(new.map[f]) = Keys(n.map[f]) \cup {k}
    BY <2>1 DEF Keys, Entries
  <2> QED BY <1>1, <1>3, <1>4, <2>2
<1>10. ASSUME NEW g \in ScalarField, Slot(g) \subseteq ScalarField PROVE NamesScalar(new, g)
  <2>1. NamesScalar(n, g) /\ f \notin Slot(g) /\ Slot(g) \cap Slot(f) = {}
    BY <1>7, <1>8, <1>10, SlotShapes DEF Names
  <2>2. /\ LiveRecords(new.audit, Slot(g)) = LiveRecords(n.audit, Slot(g))
        /\ Occurrences(new.audit, Slot(g)) = Occurrences(n.audit, Slot(g))
    <3> DEFINE p == Prepared(n.audit, f, duplicate)
    <3>1. p = n.audit \/ \E T : Slot(g) \cap T = {} /\ p = Demote(n.audit, T)
      BY <2>1, PreparedApart
    <3>2. new.audit = Append(p, r) /\ r.field \notin Slot(g)
      BY <1>3, <1>4, <2>1
    <3> HIDE DEF p
    <3> QED BY <1>1, <3>1, <3>2, OtherRecord
  <2> QED BY <1>4, <2>1, <2>2 DEF NamesScalar
<1>11. ASSUME NEW g \in MapField PROVE NamesMap(new, g)
  <2>1. NamesMap(n, g)
    BY <1>7 DEF Names
  <2>2. CASE g = f
    <3> DEFINE p == IF k \in Keys(n.map[f]) THEN Demote(n.audit, {f}) ELSE n.audit
    <3>1. NamesMap(n, f) /\ IsFiniteSet(Keys(n.map[f]))
      BY <1>3, <1>6, <1>7 DEF Names
    <3>2. /\ new.audit = Append(p, r) /\ r.field = f
          /\ Keys(new.map[f]) = Keys(n.map[f]) \cup {k}
      BY <1>3, <1>4, <1>8, <1>9 DEF Prepared
    <3>3. NamesMap(new, f)
      BY <1>1, <1>5, <3>1, <3>2, MapNamed
    <3> QED BY <2>2, <3>3
  <2>3. CASE g # f
    <3>1. g \notin Slot(f) /\ new.map[g] = n.map[g]
      BY <1>8, <1>9, <2>3
    <3>2. LiveRecords(new.audit, {g}) = LiveRecords(n.audit, {g})
      <4> DEFINE p == Prepared(n.audit, f, duplicate)
                 S == {g}
      <4>1. S \cap Slot(f) = {} /\ r.field \notin S
        BY <1>3, <2>3, <3>1
      <4>2. new.audit = Append(p, r)
        BY <1>4
      <4> HIDE DEF S
      <4>3. p = n.audit \/ \E T : S \cap T = {} /\ p = Demote(n.audit, T)
        BY <4>1, PreparedApart
      <4> HIDE DEF p
      <4>4. LiveRecords(new.audit, S) = LiveRecords(n.audit, S)
        BY <1>1, <4>1, <4>2, <4>3, OtherRecord
      <4> QED BY <4>4 DEF S
    <3> QED BY <2>1, <3>1, <3>2 DEF NamesMap
  <2> QED BY <2>2, <2>3
<1>12. Names(new)
  BY <1>10, <1>11 DEF Names
<1> QED BY <1>12 DEF new, r

\* Every occurrence.
LEMMA StoredNamed ==
  ASSUME Inv, Inv2, NEW k \in 1 .. Len(stack), Names(stack[k].msg[<<>>]),
         NEW mid, NEW tag, NEW f, NEW payload, NEW bytes, Stores(k, mid, tag, f, payload)
  PROVE  Names(PushAudit(mid, [tag |-> tag, field |-> f, payload |-> payload,
                               bytes |-> bytes])[<<>>])
<1> DEFINE m == stack[k].msg
<1>1. IsMessage(m) /\ \A g \in MapField : IsFiniteSet(Keys(m[<<>>].map[g]))
  BY Activations DEF Inv2, KeptStack, Kept, Contents, Held
<1>2. \/ StoresAlone(m, mid, tag, f, payload)
      \/ \E fr : \/ StoresPacked(m, mid, tag, f, payload, fr)
                 \/ StoresSubmessage(m, mid, tag, f, payload, fr)
  BY DEF Stores
<1>3. Names(m[<<>>])
  OBVIOUS
<1> HIDE DEF m
<1> QED BY <1>1, <1>2, <1>3, UnknownNamed, ElementNamed, SubmessageNamed,
           ScalarOccurrenceNamed, EntryNamed DEF StoresAlone

\* A packed element is no occurrence.
LEMMA ReadNamed ==
  ASSUME NEW old, Rooted(old.msg), Names(old.msg[<<>>]), NEW fr, ReadsElement(fr, old)
  PROVE  Names(fr.msg[<<>>])
<1> DEFINE m == old.msg
<1>1. \/ \E entries : fr.msg = KeepUnknown(m, entries)
      \/ \E f, xs : fr.msg = SetRep(m, f, xs)
  BY DEF ReadsElement
<1>2. Rooted(m) /\ Names(m[<<>>])
  OBVIOUS
<1> HIDE DEF m
<1>3. /\ fr.msg[<<>>].scalar = m[<<>>].scalar /\ fr.msg[<<>>].map = m[<<>>].map
      /\ fr.msg[<<>>].audit = m[<<>>].audit
  <2>1. CASE \E entries : fr.msg = KeepUnknown(m, entries)
    <3>1. PICK entries : fr.msg = KeepUnknown(m, entries)
      BY <2>1
    <3>2. Rewrites(m, m, m[<<>>].scalar, m[<<>>].rep, m[<<>>].map, m[<<>>].unknown, m[<<>>].audit)
      BY <1>2, NothingWritten
    <3>3. Rewrites(KeepUnknown(m, entries), m, m[<<>>].scalar, m[<<>>].rep, m[<<>>].map,
                   KeptUnknown(m[<<>>].unknown, entries), m[<<>>].audit)
      BY <3>2, PolicyWrites
    <3> QED BY <3>1, <3>3 DEF Rewrites
  <2>2. CASE \E f, xs : fr.msg = SetRep(m, f, xs)
    <3>1. PICK f, xs : fr.msg = SetRep(m, f, xs)
      BY <2>2
    <3>2. Rewrites(m, m, m[<<>>].scalar, m[<<>>].rep, m[<<>>].map, m[<<>>].unknown, m[<<>>].audit)
      BY <1>2, NothingWritten
    <3>3. Rewrites(SetRep(m, f, xs), m, m[<<>>].scalar, [m[<<>>].rep EXCEPT ![f] = xs], m[<<>>].map,
                   m[<<>>].unknown, m[<<>>].audit)
      BY <3>2, RootWrites
    <3> QED BY <3>1, <3>3 DEF Rewrites
  <2> QED BY <1>1, <2>1, <2>2
<1> QED BY <1>2, <1>3 DEF Names, NamesScalar, NamesMap

\* A new message has no occurrences.
LEMMA NewNamed == Names(New[<<>>])
<1>1. New[<<>>] = EmptyNode
  BY DEF New
<1>2. \A S : LiveRecords(<<>>, S) = {} /\ Occurrences(<<>>, S) = {}
  BY DEF LiveRecords, Occurrences
<1>3. \A f \in MapField : Keys(EmptyNode.map[f]) = {}
  BY DEF EmptyNode, Keys, NoEntry
<1>4. EmptyNode.audit = <<>>
  BY DEF EmptyNode
<1> QED BY <1>1, <1>2, <1>3, <1>4 DEF Names, NamesScalar, NamesMap

\* The trail of every message under decoding names what it retains.
NamesInv == \A i \in DOMAIN stack : Names(stack[i].msg[<<>>])

\* Every step leaves the trails naming the values.
LEMMA StepNamed ==
  ASSUME Inv, Inv2, Inv3, NamesInv, [Next]_vars
  PROVE  NamesInv'
<1> SUFFICES ASSUME NEW i \in DOMAIN stack' PROVE Names(stack'[i].msg[<<>>])
  BY DEF NamesInv, Names, NamesScalar, NamesMap
<1>1. Fresh(stack'[i]) \/ (i \in DOMAIN stack /\ Turn(i, stack'[i]))
  BY EachMoves, EveryStepMoves
<1>2. CASE Fresh(stack'[i])
  BY <1>2, NewNamed DEF Fresh
<1>3. CASE i \in DOMAIN stack /\ Turn(i, stack'[i])
  <2>1. i \in 1 .. Len(stack) /\ Rooted(stack[i].msg) /\ Names(stack[i].msg[<<>>])
    BY <1>3, Activations DEF NamesInv
  <2> DEFINE fr == stack'[i]
  <2> HIDE DEF fr
  <2>2. CASE fr.msg = stack[i].msg
    BY <2>1, <2>2 DEF fr
  <2>3. CASE ReadsElement(fr, stack[i])
    BY <2>1, <2>3, ReadNamed DEF fr
  <2>4. CASE \E mid, tag, f, payload :
               /\ Stores(i, mid, tag, f, payload)
               /\ fr.msg = PushAudit(mid, [tag |-> tag, field |-> f, payload |-> payload,
                                           bytes |-> audit_bytes' - audit_bytes])
    BY <2>1, <2>4, StoredNamed DEF fr
  <2> QED BY <1>3, <2>2, <2>3, <2>4 DEF Turn, fr
<1> QED BY <1>1, <1>2, <1>3

\* In every message under decoding the live record of a scalar slot is that of
\* its last occurrence, and a map has as many live records as keys.
THEOREM TrailsNameRetained == Spec => []TrailNamesRetained
<1>1. Init => Inv3 /\ NamesInv
  BY DEF Init, Inv3, NamesInv
<1>2. Inv /\ Inv2 /\ Inv3 /\ NamesInv /\ [Next]_vars => Inv3' /\ NamesInv'
  BY EveryStepGrows, StepNamed DEF Step, Inv3
<1>3. NamesInv => TrailNamesRetained
  BY DEF NamesInv, Names, NamesScalar, NamesMap, TrailNamesRetained
<1> QED BY <1>1, <1>2, <1>3, Invariance, Retention, PTL DEF Spec

-----------------------------------------------------------------------------
(* Sequences of sequences, flattened.                                      *)

\* A nonempty set of naturals has a least element.
LEMMA Least ==
  ASSUME NEW T, T \subseteq Nat, T # {}
  PROVE  \E n \in T : \A m \in T : n <= m
<1> DEFINE R == {ss \in Nat \X Nat : ss[1] < ss[2]}
<1>1. IsWellFoundedOn(R, Nat)
  BY NatLessThanWellFounded DEF OpToRel
<1>2. \A x, y \in Nat : y < x => <<y, x>> \in R
  OBVIOUS
<1> HIDE DEF R
<1>3. PICK n \in T : \A m \in T : <<m, n>> \notin R
  BY <1>1, WFMin
<1>4. \A m \in T : n \in Nat /\ m \in Nat /\ ~(m < n)
  BY <1>2, <1>3
<1> QED BY <1>3, <1>4

\* F holds the first n prefixes of ss, flattened.
Flattening(F, ss, n) ==
  F = [i \in 1 .. n |-> IF i = 1 THEN ss[i] ELSE F[i - 1] \o ss[i]]

\* A flattening of n prefixes extends to n + 1.
LEMMA FlatteningLonger ==
  ASSUME NEW ss, NEW n \in Nat, NEW F, Flattening(F, ss, n)
  PROVE  \E H : Flattening(H, ss, n + 1)
<1> DEFINE H == [i \in 1 .. n + 1 |-> IF i = 1 THEN ss[i]
                                      ELSE IF i = n + 1 THEN F[n] \o ss[n + 1] ELSE F[i]]
<1>1. \A i \in 1 .. n : F[i] = IF i = 1 THEN ss[i] ELSE F[i - 1] \o ss[i]
  BY DEF Flattening
<1>2. ASSUME NEW i \in 1 .. n PROVE H[i] = F[i]
  <2>1. i \in 1 .. n + 1 /\ i # n + 1
    OBVIOUS
  <2> QED BY <1>1, <2>1
<1>3. ASSUME NEW i \in 1 .. n + 1 PROVE H[i] = IF i = 1 THEN ss[i] ELSE H[i - 1] \o ss[i]
  <2>1. CASE i = 1
    BY <2>1
  <2>2. CASE i # 1
    <3>1. i - 1 \in 1 .. n
      BY <2>2
    <3>2. H[i - 1] = F[i - 1]
      BY <1>2, <3>1
    <3>3. H[i] = F[i - 1] \o ss[i]
      <4>1. CASE i = n + 1
        <5>1. H[n + 1] = F[n] \o ss[n + 1]
          <6>1. n + 1 \in 1 .. n + 1 /\ n + 1 # 1
            BY <2>2, <4>1
          <6> QED BY <6>1
        <5>2. i - 1 = n
          BY <4>1
        <5> HIDE DEF H
        <5> QED BY <4>1, <5>1, <5>2
      <4>2. CASE i # n + 1
        <5>1. i \in 1 .. n
          BY <4>2
        <5> QED BY <1>1, <1>2, <2>2, <5>1
      <4> QED BY <4>1, <4>2
    <3> HIDE DEF H
    <3> QED BY <2>2, <3>2, <3>3
  <2> QED BY <2>1, <2>2
<1>4. DOMAIN H = 1 .. n + 1 /\ H = [i \in DOMAIN H |-> H[i]]
  OBVIOUS
<1> HIDE DEF H
<1>5. Flattening(H, ss, n + 1)
  BY <1>3, <1>4 DEF Flattening
<1> QED BY <1>5

\* A sequence of sequences has a flattening of its prefixes.
LEMMA FlatteningExists ==
  ASSUME NEW ss, NEW n \in Nat
  PROVE  \E F : Flattening(F, ss, n)
<1> DEFINE T == {k \in Nat : ~ \E F : Flattening(F, ss, k)}
<1> SUFFICES ASSUME T # {} PROVE FALSE
  OBVIOUS
<1>1. T \subseteq Nat
  OBVIOUS
<1>2. \A k \in Nat : k \in T <=> ~ \E F : Flattening(F, ss, k)
  OBVIOUS
<1> HIDE DEF T
<1>3. PICK k \in T : \A j \in T : k <= j
  BY <1>1, Least
<1>4. k # 0
  <2>1. Flattening([i \in 1 .. 0 |-> 0], ss, 0)
    <3>1. \A i \in 1 .. 0 : FALSE
      OBVIOUS
    <3> QED BY <3>1 DEF Flattening
  <2> QED BY <1>1, <1>2, <1>3, <2>1
<1>5. k - 1 \in Nat /\ ~(k <= k - 1) /\ k - 1 + 1 = k
  BY <1>1, <1>3, <1>4
<1>6. PICK F : Flattening(F, ss, k - 1)
  BY <1>2, <1>3, <1>5
<1>7. \E H : Flattening(H, ss, k - 1 + 1)
  BY <1>5, <1>6, FlatteningLonger
<1> QED BY <1>1, <1>2, <1>3, <1>5, <1>7

\* What flattening two sequences with a common prefix makes of the prefix.
LEMMA FlatteningUnique ==
  ASSUME NEW S, NEW ss, NEW tt, NEW F, NEW G, NEW n \in Nat, NEW m \in Nat,
         Flattening(F, ss, n), Flattening(G, tt, m), n <= m,
         \A i \in 1 .. n : ss[i] = tt[i] /\ ss[i] \in Seq(S)
  PROVE  \A i \in 1 .. n : F[i] = G[i] /\ F[i] \in Seq(S)
<1> DEFINE T == {i \in 1 .. n : ~(F[i] = G[i] /\ F[i] \in Seq(S))}
<1> SUFFICES ASSUME T # {} PROVE FALSE
  OBVIOUS
<1>1. T \subseteq Nat /\ T \subseteq 1 .. n
  OBVIOUS
<1>2. \A i \in 1 .. n : i \in T <=> ~(F[i] = G[i] /\ F[i] \in Seq(S))
  OBVIOUS
<1> HIDE DEF T
<1>3. PICK j \in T : \A i \in T : j <= i
  BY <1>1, Least
<1>4. j \in 1 .. n /\ j \in 1 .. m /\ ss[j] = tt[j] /\ ss[j] \in Seq(S)
  BY <1>1
<1>5. /\ F[j] = IF j = 1 THEN ss[j] ELSE F[j - 1] \o ss[j]
      /\ G[j] = IF j = 1 THEN tt[j] ELSE G[j - 1] \o tt[j]
  BY <1>4 DEF Flattening
<1>6. CASE j = 1
  BY <1>2, <1>4, <1>5, <1>6
<1>7. CASE j # 1
  <2>1. j - 1 \in 1 .. n /\ ~(j <= j - 1)
    BY <1>4, <1>7
  <2>2. F[j - 1] = G[j - 1] /\ F[j - 1] \in Seq(S)
    BY <1>2, <1>3, <2>1
  <2>3. F[j - 1] \o ss[j] \in Seq(S)
    BY <1>4, <2>2, ConcatProperties
  <2> QED BY <1>2, <1>4, <1>5, <1>7, <2>2, <2>3
<1> QED BY <1>6, <1>7

\* FlattenSeq is the flattening of all the prefixes.
LEMMA FlattenByParts ==
  ASSUME NEW ss, Len(ss) \in Nat, Len(ss) # 0
  PROVE  \E F : Flattening(F, ss, Len(ss)) /\ FlattenSeq(ss) = F[Len(ss)]
<1> DEFINE G == CHOOSE F : Flattening(F, ss, Len(ss))
<1>1. Flattening(G, ss, Len(ss))
  BY FlatteningExists
<1>2. FlattenSeq(ss) = G[Len(ss)]
  BY DEF FlattenSeq, Flattening
<1> HIDE DEF G
<1> QED BY <1>1, <1>2

\* No parts flatten to nothing.
LEMMA FlattenEmpty == FlattenSeq(<<>>) = <<>>
BY DEF FlattenSeq

\* Parts over S flatten to a sequence over S.
LEMMA FlattenTyped ==
  ASSUME NEW S, NEW ss \in Seq(Seq(S))
  PROVE  FlattenSeq(ss) \in Seq(S)
<1>1. Len(ss) \in Nat /\ \A i \in 1 .. Len(ss) : ss[i] \in Seq(S)
  BY LenProperties, ElementOfSeq
<1>2. CASE Len(ss) = 0
  <2>1. ss = <<>>
    BY <1>2
  <2>2. FlattenSeq(ss) = <<>>
    BY <2>1, FlattenEmpty
  <2> QED BY <2>2
<1>3. CASE Len(ss) # 0
  <2> DEFINE n == Len(ss)
  <2>1. n \in Nat /\ n # 0 /\ n <= n /\ n \in 1 .. n
    BY <1>1, <1>3
  <2>2. PICK F : Flattening(F, ss, n) /\ FlattenSeq(ss) = F[n]
    BY <2>1, FlattenByParts
  <2>3. \A i \in 1 .. n : ss[i] = ss[i] /\ ss[i] \in Seq(S)
    BY <1>1
  <2> HIDE DEF n
  <2>4. F[n] \in Seq(S)
    BY <2>1, <2>2, <2>3, FlatteningUnique
  <2> QED BY <2>2, <2>4
<1> QED BY <1>2, <1>3

\* Flattening one sequence more.
LEMMA FlattenAppend ==
  ASSUME NEW S, NEW ss \in Seq(Seq(S)), NEW s \in Seq(S)
  PROVE  FlattenSeq(Append(ss, s)) = FlattenSeq(ss) \o s
<1> DEFINE tt == Append(ss, s)
           n  == Len(ss)
<1>1. /\ n \in Nat /\ Len(tt) = n + 1 /\ tt[n + 1] = s
      /\ \A i \in 1 .. n : tt[i] = ss[i] /\ ss[i] \in Seq(S)
  BY LenProperties, AppendProperties, ElementOfSeq
<1> HIDE DEF tt, n
<1>2. PICK p \in Nat : p = n + 1
  BY <1>1
<1>3. PICK G : Flattening(G, tt, p) /\ FlattenSeq(tt) = G[p]
  <2>1. Len(tt) # 0 /\ Len(tt) \in Nat
    BY <1>1
  <2>2. \E G : Flattening(G, tt, Len(tt)) /\ FlattenSeq(tt) = G[Len(tt)]
    BY <2>1, FlattenByParts
  <2> QED BY <1>1, <1>2, <2>2
<1>4. G[p] = IF n = 0 THEN s ELSE G[n] \o s
  <2>1. p \in 1 .. p /\ p - 1 = n /\ (p = 1 <=> n = 0) /\ tt[p] = s
    BY <1>1, <1>2
  <2>2. G[p] = IF p = 1 THEN tt[p] ELSE G[p - 1] \o tt[p]
    BY <1>3, <2>1 DEF Flattening
  <2> QED BY <2>1, <2>2
<1>5. CASE n = 0
  <2>1. ss = <<>>
    BY <1>5 DEF n
  <2>2. FlattenSeq(ss) = <<>> /\ <<>> \o s = s
    BY <2>1, FlattenEmpty
  <2> QED BY <1>3, <1>4, <1>5, <2>2 DEF tt
<1>6. CASE n # 0
  <2>1. PICK F : Flattening(F, ss, n) /\ FlattenSeq(ss) = F[n]
    BY <1>1, <1>6, FlattenByParts DEF n
  <2>2. n \in Nat /\ n \in 1 .. n /\ n <= n /\ n <= p
    BY <1>1, <1>2, <1>6
  <2>3. \A i \in 1 .. n : ss[i] = tt[i] /\ ss[i] \in Seq(S)
    BY <1>1
  <2>4. \A i \in 1 .. n : F[i] = G[i] /\ F[i] \in Seq(S)
    <3> HIDE DEF tt, n
    <3> QED BY <1>3, <2>1, <2>2, <2>3, FlatteningUnique
  <2>5. F[n] = G[n]
    BY <2>2, <2>4
  <2> QED BY <1>3, <1>4, <1>6, <2>1, <2>5 DEF tt
<1> QED BY <1>5, <1>6

\* Flattening a concatenation.
LEMMA FlattenConcat ==
  ASSUME NEW S, NEW ss \in Seq(Seq(S)), NEW tt \in Seq(Seq(S))
  PROVE  FlattenSeq(ss \o tt) = FlattenSeq(ss) \o FlattenSeq(tt)
<1>0. \A x, y, z \in Seq(S) : (x \o y) \o z = x \o (y \o z)
  OBVIOUS
<1> DEFINE P(n, uu) == Len(uu) = n /\ FlattenSeq(ss \o uu) # FlattenSeq(ss) \o FlattenSeq(uu)
           T == {n \in Nat : \E uu \in Seq(Seq(S)) : P(n, uu)}
<1>1. T \subseteq Nat /\ \A n \in T : \E uu \in Seq(Seq(S)) : P(n, uu)
  OBVIOUS
<1>2. \A n \in Nat : \A uu \in Seq(Seq(S)) : P(n, uu) => n \in T
  OBVIOUS
<1>3. Len(tt) \in Nat
  BY LenProperties
<1> HIDE DEF T
<1> SUFFICES ASSUME T # {} PROVE FALSE
  BY <1>2, <1>3
<1>4. PICK n \in T : \A m \in T : n <= m
  BY <1>1, Least
<1>5. PICK uu \in Seq(Seq(S)) :
        Len(uu) = n /\ FlattenSeq(ss \o uu) # FlattenSeq(ss) \o FlattenSeq(uu)
  BY <1>1, <1>4
<1>6. CASE n = 0
  <2>1. uu = <<>>
    BY <1>5, <1>6
  <2>2. FlattenSeq(ss) \in Seq(S)
    BY FlattenTyped
  <2>3. ss \o <<>> = ss /\ FlattenSeq(ss) \o <<>> = FlattenSeq(ss)
    BY <2>2, ConcatEmptySeq
  <2> QED BY <1>5, <2>1, <2>3, FlattenEmpty
<1>7. CASE n # 0
  <2>0. n \in Nat /\ n - 1 \in Nat /\ n - 1 + 1 = n /\ ~(n <= n - 1) /\ uu # <<>>
    BY <1>1, <1>4, <1>5, <1>7
  <2>1. PICK vv \in Seq(Seq(S)), v \in Seq(S) : uu = Append(vv, v) /\ Len(vv) = n - 1
    <3>1. PICK vv \in Seq(Seq(S)), v \in Seq(S) : uu = Append(vv, v)
      BY <2>0, SequenceEmptyOrAppend
    <3>2. Len(uu) = Len(vv) + 1 /\ Len(vv) \in Nat
      BY <3>1, AppendProperties, LenProperties
    <3>3. Len(vv) = n - 1
      BY <1>5, <2>0, <3>2
    <3> QED BY <3>1, <3>3
  <2>2. FlattenSeq(ss \o vv) = FlattenSeq(ss) \o FlattenSeq(vv)
    BY <1>2, <1>4, <2>0, <2>1
  <2>3. ss \o vv \in Seq(Seq(S)) /\ ss \o uu = Append(ss \o vv, v)
    BY <2>1
  <2>4. FlattenSeq(ss \o uu) = FlattenSeq(ss \o vv) \o v
    BY <2>1, <2>3, FlattenAppend
  <2>5. FlattenSeq(uu) = FlattenSeq(vv) \o v
    BY <2>1, FlattenAppend
  <2>6. FlattenSeq(ss) \in Seq(S) /\ FlattenSeq(vv) \in Seq(S)
    BY <2>1, FlattenTyped
  <2>7. (FlattenSeq(ss) \o FlattenSeq(vv)) \o v = FlattenSeq(ss) \o (FlattenSeq(vv) \o v)
    <3>1. v \in Seq(S)
      BY <2>1
    <3> QED BY <1>0, <2>6, <3>1
  <2> QED BY <1>5, <2>2, <2>4, <2>5, <2>7
<1> QED BY <1>6, <1>7

-----------------------------------------------------------------------------
(* What a sequence tells, record by record: g says what one record tells.  *)

Telling(t, g) == [j \in DOMAIN t |-> g[t[j]]]
Told(t, g) == FlattenSeq(Telling(t, g))

\* What each record tells makes a sequence of sequences.
LEMMA TellingTyped ==
  ASSUME NEW R, NEW S, NEW t \in Seq(R), NEW g \in [R -> S]
  PROVE  Telling(t, g) \in Seq(S) /\ Len(Telling(t, g)) = Len(t)
<1> DEFINE s == [j \in DOMAIN t |-> g[t[j]]]
           n == Len(t)
<1>1. n \in Nat /\ DOMAIN t = 1 .. n /\ \A j \in 1 .. n : t[j] \in R
  BY LenProperties, ElementOfSeq
<1> HIDE DEF n
<1>2. s \in [1 .. n -> S]
  BY <1>1
<1>3. s \in Seq(S) /\ DOMAIN s = 1 .. n
  BY <1>1, <1>2, SeqDef
<1> HIDE DEF s
<1>4. Len(s) = n
  BY <1>1, <1>3, LenProperties
<1> QED BY <1>3, <1>4 DEF s, n, Telling

\* The records of two trails tell what each tells.
LEMMA TellingConcat ==
  ASSUME NEW R, NEW S, NEW g \in [R -> S], NEW t \in Seq(R), NEW u \in Seq(R)
  PROVE  Telling(t \o u, g) = Telling(t, g) \o Telling(u, g)
<1> DEFINE x == Telling(t, g)
           y == Telling(u, g)
           n == Len(t)
           m == Len(u)
           v == t \o u
           z == Telling(v, g)
<1>1. /\ n \in Nat /\ DOMAIN t = 1 .. n /\ m \in Nat /\ DOMAIN u = 1 .. m
      /\ v \in Seq(R) /\ Len(v) = n + m /\ DOMAIN v = 1 .. n + m
      /\ \A j \in 1 .. n + m : v[j] = IF j <= n THEN t[j] ELSE u[j - n]
  BY LenProperties, ConcatProperties
<1>2. x \in Seq(S) /\ Len(x) = n /\ y \in Seq(S) /\ Len(y) = m
  <2>1. x \in Seq(S) /\ Len(x) = n
    BY TellingTyped
  <2>2. y \in Seq(S) /\ Len(y) = m
    BY TellingTyped
  <2> QED BY <2>1, <2>2
<1>3. \A j \in 1 .. n : x[j] = g[t[j]]
  BY <1>1 DEF Telling
<1>4. \A j \in 1 .. m : y[j] = g[u[j]]
  BY <1>1 DEF Telling
<1>5. z \in Seq(S) /\ Len(z) = n + m
  <2> HIDE DEF v
  <2>1. z \in Seq(S) /\ Len(z) = Len(v)
    BY <1>1, TellingTyped
  <2> QED BY <1>1, <2>1
<1>6. \A j \in 1 .. n + m : z[j] = g[v[j]]
  BY <1>1 DEF Telling
<1> HIDE DEF x, y, z, n, m, v
<1>7. x \o y \in Seq(S) /\ Len(x \o y) = n + m
      /\ \A j \in 1 .. n + m : (x \o y)[j] = IF j <= n THEN x[j] ELSE y[j - n]
  BY <1>2, ConcatProperties
<1>8. ASSUME NEW j \in 1 .. n + m PROVE z[j] = (x \o y)[j]
  <2>1. CASE j <= n
    <3>1. j \in 1 .. n
      BY <1>1, <2>1
    <3> QED BY <1>1, <1>3, <1>6, <1>7, <2>1, <3>1
  <2>2. CASE ~(j <= n)
    <3>1. j - n \in 1 .. m
      BY <1>1, <2>2
    <3> QED BY <1>1, <1>4, <1>6, <1>7, <2>2, <3>1
  <2> QED BY <2>1, <2>2
<1>9. z = x \o y
  BY <1>5, <1>7, <1>8, SeqEqual
<1> QED BY <1>9 DEF x, y, z, v

\* A trail tells a sequence over what its records tell.
LEMMA ToldTyped ==
  ASSUME NEW R, NEW S, NEW g \in [R -> Seq(S)], NEW t \in Seq(R)
  PROVE  Told(t, g) \in Seq(S)
BY TellingTyped, FlattenTyped DEF Told

\* Two trails tell what the first tells, then the second.
LEMMA ToldConcat ==
  ASSUME NEW R, NEW S, NEW g \in [R -> Seq(S)], NEW t \in Seq(R), NEW u \in Seq(R)
  PROVE  Told(t \o u, g) = Told(t, g) \o Told(u, g)
<1>1. Telling(t, g) \in Seq(Seq(S)) /\ Telling(u, g) \in Seq(Seq(S))
  BY TellingTyped
<1>2. Telling(t \o u, g) = Telling(t, g) \o Telling(u, g)
  <2> DEFINE Q == Seq(S)
  <2>1. g \in [R -> Q]
    OBVIOUS
  <2> HIDE DEF Q
  <2> QED BY <2>1, TellingConcat
<1> QED BY <1>1, <1>2, FlattenConcat DEF Told

\* An empty trail tells nothing.
LEMMA ToldNothing ==
  ASSUME NEW g
  PROVE  Told(<<>>, g) = <<>>
<1>1. Telling(<<>>, g) = <<>>
  BY DEF Telling
<1> QED BY <1>1, FlattenEmpty DEF Told

\* A trail of one record tells what that record tells.
LEMMA ToldOne ==
  ASSUME NEW R, NEW S, NEW g \in [R -> Seq(S)], NEW r \in R
  PROVE  Told(<<r>>, g) = g[r]
<1> DEFINE x == Telling(<<r>>, g)
           s == g[r]
<1>1. x = Append(<<>>, s)
  BY DEF Telling
<1>2. s \in Seq(S) /\ <<>> \in Seq(Seq(S))
  OBVIOUS
<1> HIDE DEF x, s
<1>3. FlattenSeq(x) = FlattenSeq(<<>>) \o s
  BY <1>1, <1>2, FlattenAppend
<1>4. <<>> \o s = s
  BY <1>2, ConcatEmptySeq
<1> QED BY <1>3, <1>4, FlattenEmpty DEF x, s, Told

\* Records that tell the same make trails that tell the same.
LEMMA ToldSame ==
  ASSUME NEW t, NEW p, DOMAIN p = DOMAIN t, NEW g, \A j \in DOMAIN t : g[p[j]] = g[t[j]]
  PROVE  Told(p, g) = Told(t, g)
<1>1. Telling(p, g) = Telling(t, g)
  BY DEF Telling
<1> QED BY <1>1 DEF Told

\* The positions A of n and B of m more, in a concatenation.
Joined(C, A, n, B, m) ==
  /\ A \subseteq 1 .. n /\ B \subseteq 1 .. m /\ C \subseteq 1 .. n + m
  /\ \A j \in 1 .. n : j \in C <=> j \in A
  /\ \A j \in 1 .. m : n + j \in C <=> j \in B

\* The last element of two sequences is that of the second, if any.
LEMMA LastOfConcat ==
  ASSUME NEW n \in Nat, NEW m \in Nat, NEW A, NEW B, NEW C, Joined(C, A, n, B, m)
  PROVE  /\ C = {} <=> A = {} /\ B = {}
         /\ B = {} => C = A
         /\ B # {} => Max(B) \in B /\ Max(C) = n + Max(B)
<1> USE DEF Joined
<1>0. ASSUME NEW i \in C, i \notin A PROVE \E j \in B : i = n + j
  <2>1. i \in 1 .. n + m /\ i \notin 1 .. n
    BY <1>0
  <2>2. i - n \in 1 .. m /\ i = n + (i - n)
    BY <2>1
  <2> QED BY <1>0, <2>2
<1>1. C = {} <=> A = {} /\ B = {}
  BY <1>0
<1>2. B = {} => C = A
  BY <1>0
<1>3. ASSUME B # {} PROVE Max(B) \in B /\ Max(C) = n + Max(B)
  <2>1. PICK i \in B : \A j \in B : j <= i
    BY <1>3, LastPosition
  <2>2. Max(B) = i
    <3>1. \A j \in B : i >= j
      BY <2>1
    <3>2. \A k \in B : (\A j \in B : k >= j) => k = i
      BY <2>1
    <3> QED BY <3>1, <3>2 DEF Max
  <2>3. n + i \in C /\ \A k \in C : n + i >= k
    <3>1. n + i \in C
      OBVIOUS
    <3>2. ASSUME NEW k \in C, k \in A PROVE n + i >= k
      BY <3>2
    <3>3. ASSUME NEW k \in C, k \notin A PROVE n + i >= k
      BY <1>0, <2>1, <3>3
    <3> QED BY <3>1, <3>2, <3>3
  <2>4. \A k \in C : (\A j \in C : k >= j) => k = n + i
    <3>1. \A k \in C : k \in Int
      OBVIOUS
    <3>2. n + i \in Int
      BY <2>3, <3>1
    <3>3. ASSUME NEW k \in C, k >= n + i, n + i >= k PROVE k = n + i
      BY <3>1, <3>2, <3>3
    <3> QED BY <2>3, <3>3
  <2>5. Max(C) = n + i
    BY <2>3, <2>4 DEF Max
  <2> QED BY <2>2, <2>5
<1> QED BY <1>1, <1>2, <1>3

\* The positions of a concatenation.
LEMMA ConcatPositions ==
  ASSUME NEW R, NEW t \in Seq(R), NEW u \in Seq(R)
  PROVE  /\ Len(t) \in Nat /\ Len(u) \in Nat
         /\ DOMAIN t = 1 .. Len(t) /\ DOMAIN u = 1 .. Len(u)
         /\ DOMAIN (t \o u) = 1 .. Len(t) + Len(u)
         /\ \A j \in 1 .. Len(t) : (t \o u)[j] = t[j]
         /\ \A j \in 1 .. Len(u) : (t \o u)[Len(t) + j] = u[j]
<1> DEFINE n == Len(t)
           m == Len(u)
           v == t \o u
<1>1. /\ n \in Nat /\ DOMAIN t = 1 .. n /\ m \in Nat /\ DOMAIN u = 1 .. m
      /\ DOMAIN v = 1 .. n + m
      /\ \A j \in 1 .. n + m : v[j] = IF j <= n THEN t[j] ELSE u[j - n]
  BY LenProperties, ConcatProperties
<1> HIDE DEF n, m, v
<1>2. \A j \in 1 .. n : v[j] = t[j]
  BY <1>1
<1>3. ASSUME NEW j \in 1 .. m PROVE v[n + j] = u[j]
  <2>1. n + j \in 1 .. n + m /\ ~(n + j <= n) /\ n + j - n = j
    BY <1>1
  <2> QED BY <1>1, <2>1
<1> QED BY <1>1, <1>2, <1>3 DEF n, m, v

-----------------------------------------------------------------------------
(* Trails, as they are told.                                               *)

Datum == Value \cup Wire

Elements(f) == [v \in Datum |-> IF ClosedUnknown(f, v) THEN <<>> ELSE <<v>>]
Strays(f) == [v \in Datum |-> IF ClosedUnknown(f, v)
                              THEN <<[field |-> f, payload |-> <<v>>]>> ELSE <<>>]
Keepers(f) == [r \in AuditRecord |-> RetainedBy(f, r)]
Unknowns == [r \in AuditRecord |-> UnknownEntries(r)]

\* What an occurrence retains and leaves unknown is what its payload tells.
LEMMA PayloadTold ==
  ASSUME NEW f \in Field, NEW payload \in Seq(Datum)
  PROVE  /\ Elements(f) \in [Datum -> Seq(Datum)] /\ Strays(f) \in [Datum -> Seq(UnknownEntry)]
         /\ Retained(f, payload) = IF Desc[f].child # None THEN <<Elem>>
                                   ELSE Told(payload, Elements(f))
         /\ Undeclared(f, payload) = Told(payload, Strays(f))
         /\ Retained(f, payload) \in Seq(Datum)
         /\ Undeclared(f, payload) \in Seq(UnknownEntry)
<1>1. Elements(f) \in [Datum -> Seq(Datum)]
  BY DEF Elements
<1>2. Strays(f) \in [Datum -> Seq(UnknownEntry)]
  <2>1. ASSUME NEW v \in Datum PROVE <<[field |-> f, payload |-> <<v>>]>> \in Seq(UnknownEntry)
    BY DEF UnknownEntry, Datum
  <2>2. <<>> \in Seq(UnknownEntry)
    OBVIOUS
  <2>3. \A v \in Datum : Strays(f)[v] \in Seq(UnknownEntry)
    BY <2>1, <2>2 DEF Strays
  <2> QED BY <2>3 DEF Strays
<1>3. \A j \in DOMAIN payload : payload[j] \in Datum
  OBVIOUS
<1>4. Told(payload, Elements(f)) =
        FlattenSeq([j \in DOMAIN payload |->
                      IF ClosedUnknown(f, payload[j]) THEN <<>> ELSE <<payload[j]>>])
  <2>1. Telling(payload, Elements(f)) =
          [j \in DOMAIN payload |-> IF ClosedUnknown(f, payload[j]) THEN <<>> ELSE <<payload[j]>>]
    BY <1>3 DEF Telling, Elements
  <2> QED BY <2>1 DEF Told
<1>5. Undeclared(f, payload) = Told(payload, Strays(f))
  <2>1. Telling(payload, Strays(f)) =
          [j \in DOMAIN payload |-> IF ClosedUnknown(f, payload[j])
                                    THEN <<[field |-> f, payload |-> <<payload[j]>>]>> ELSE <<>>]
    BY <1>3 DEF Telling, Strays
  <2> QED BY <2>1 DEF Told, Undeclared
<1>6. Told(payload, Elements(f)) \in Seq(Datum) /\ Told(payload, Strays(f)) \in Seq(UnknownEntry)
  BY <1>1, <1>2, ToldTyped
<1>7. <<Elem>> \in Seq(Datum)
  BY DEF Datum, Value
<1> QED BY <1>1, <1>2, <1>4, <1>5, <1>6, <1>7 DEF Retained

\* What a record retains of a field is a sequence of data.
LEMMA KeepersTyped ==
  ASSUME NEW f \in Field
  PROVE  Keepers(f) \in [AuditRecord -> Seq(Datum)]
<1>1. ASSUME NEW r \in AuditRecord PROVE RetainedBy(f, r) \in Seq(Datum)
  <2>1. r.payload \in Seq(Datum)
    BY DEF AuditRecord, Datum
  <2>2. Retained(f, r.payload) \in Seq(Datum)
    BY <2>1, PayloadTold
  <2> QED BY <2>2 DEF RetainedBy
<1> QED BY <1>1 DEF Keepers

\* What a record leaves unknown is a sequence of entries.
LEMMA UnknownsTyped ==
  Unknowns \in [AuditRecord -> Seq(UnknownEntry)]
<1>1. \A r \in AuditRecord : r.payload \in Seq(Datum) /\ r.field \in Field \cup {None}
  BY DEF AuditRecord, Datum
<1>2. ASSUME NEW r \in AuditRecord PROVE UnknownEntries(r) \in Seq(UnknownEntry)
  <2>1. CASE r.tag \in {"UnknownField", "UnknownMessage"}
    <3>1. [field |-> r.field, payload |-> r.payload] \in UnknownEntry
      BY <1>1 DEF UnknownEntry, Datum
    <3>2. UnknownEntries(r) = <<[field |-> r.field, payload |-> r.payload]>>
      BY <2>1 DEF UnknownEntries
    <3> QED BY <3>1, <3>2
  <2>2. CASE r.tag \notin {"UnknownField", "UnknownMessage"} /\ r.field \in RepeatedField
    <3>1. r.field \in Field
      BY <2>2 DEF RepeatedField
    <3>2. Undeclared(r.field, r.payload) \in Seq(UnknownEntry)
      BY <1>1, <3>1, PayloadTold
    <3> QED BY <2>2, <3>2 DEF UnknownEntries
  <2>3. CASE r.tag \notin {"UnknownField", "UnknownMessage"} /\ r.field \notin RepeatedField
    BY <2>3 DEF UnknownEntries
  <2> QED BY <2>1, <2>2, <2>3
<1> QED BY <1>2 DEF Unknowns

\* What the trail t \o u tells.
LEMMA KeepersConcat ==
  ASSUME NEW f \in RepeatedField, NEW t \in Seq(AuditRecord), NEW u \in Seq(AuditRecord)
  PROVE  Told(t \o u, Keepers(f)) = Told(t, Keepers(f)) \o Told(u, Keepers(f))
<1> DEFINE g == Keepers(f)
<1>1. g \in [AuditRecord -> Seq(Datum)]
  BY KeepersTyped, SlotShapes
<1> HIDE DEF g
<1>2. Told(t \o u, g) = Told(t, g) \o Told(u, g)
  BY <1>1, ToldConcat
<1> QED BY <1>2 DEF g

\* The unknown fields of two trails are those of each.
LEMMA UnknownsConcat ==
  ASSUME NEW t \in Seq(AuditRecord), NEW u \in Seq(AuditRecord)
  PROVE  Told(t \o u, Unknowns) = Told(t, Unknowns) \o Told(u, Unknowns)
<1> DEFINE g == Unknowns
<1>1. g \in [AuditRecord -> Seq(UnknownEntry)]
  BY UnknownsTyped
<1> HIDE DEF g
<1>2. Told(t \o u, g) = Told(t, g) \o Told(u, g)
  BY <1>1, ToldConcat
<1> QED BY <1>2 DEF g

\* The values and the unknown fields of a history are what its trail tells.
LEMMA TrailTold ==
  ASSUME NEW t \in Seq(AuditRecord)
  PROVE  /\ \A f : FlattenSeq([j \in DOMAIN t |-> RetainedBy(f, t[j])]) = Told(t, Keepers(f))
         /\ FlattenSeq([j \in DOMAIN t |-> UnknownEntries(t[j])]) = Told(t, Unknowns)
<1>1. \A j \in DOMAIN t : t[j] \in AuditRecord
  OBVIOUS
<1>2. \A f : Telling(t, Keepers(f)) = [j \in DOMAIN t |-> RetainedBy(f, t[j])]
  BY <1>1 DEF Telling, Keepers
<1>3. Telling(t, Unknowns) = [j \in DOMAIN t |-> UnknownEntries(t[j])]
  BY <1>1 DEF Telling, Unknowns
<1> QED BY <1>2, <1>3 DEF Told

\* The last record of a key.
LastSeen(t, f, k) == t[Max(Seen(t, f, k))]

\* The last occurrence in two trails is the second one's, if it has one.
LEMMA OccurrencesConcat ==
  ASSUME NEW t \in Seq(AuditRecord), NEW u \in Seq(AuditRecord), NEW S
  PROVE  /\ Occurrences(t \o u, S) = {} <=> Occurrences(t, S) = {} /\ Occurrences(u, S) = {}
         /\ Occurrences(u, S) # {} => LastOccurrence(t \o u, S) = LastOccurrence(u, S)
         /\ Occurrences(u, S) = {} /\ Occurrences(t, S) # {} =>
              LastOccurrence(t \o u, S) = LastOccurrence(t, S)
<1> DEFINE n == Len(t)
           m == Len(u)
           v == t \o u
           A == Occurrences(t, S)
           B == Occurrences(u, S)
           C == Occurrences(v, S)
<1>1. /\ n \in Nat /\ m \in Nat /\ DOMAIN t = 1 .. n /\ DOMAIN u = 1 .. m
      /\ DOMAIN v = 1 .. n + m
      /\ \A j \in 1 .. n : v[j] = t[j]
      /\ \A j \in 1 .. m : v[n + j] = u[j]
  BY ConcatPositions
<1> HIDE DEF n, m, v
<1>2. Joined(C, A, n, B, m)
  <2>1. A \subseteq 1 .. n /\ B \subseteq 1 .. m /\ C \subseteq 1 .. n + m
    BY <1>1 DEF Occurrences
  <2>2. ASSUME NEW j \in 1 .. n PROVE j \in C <=> j \in A
    <3>1. j \in 1 .. n + m
      BY <1>1
    <3> QED BY <1>1, <3>1 DEF Occurrences
  <2>3. ASSUME NEW j \in 1 .. m PROVE n + j \in C <=> j \in B
    <3>1. n + j \in 1 .. n + m
      BY <1>1
    <3> QED BY <1>1, <3>1 DEF Occurrences
  <2> HIDE DEF A, B, C
  <2> QED BY <2>1, <2>2, <2>3 DEF Joined
<1> HIDE DEF A, B, C
<1>3. (C = {} <=> A = {} /\ B = {}) /\ (B = {} => C = A)
      /\ (B # {} => Max(B) \in B /\ Max(C) = n + Max(B))
  BY <1>1, <1>2, LastOfConcat
<1>4. ASSUME B # {} PROVE v[Max(C)] = u[Max(B)]
  BY <1>1, <1>2, <1>3, <1>4 DEF Joined
<1>5. ASSUME B = {}, A # {} PROVE v[Max(C)] = t[Max(A)]
  <2>1. PICK i \in A : \A j \in A : j <= i
    BY <1>1, <1>2, <1>5, LastPosition DEF Joined
  <2>2. Max(A) \in A
    <3>1. \A j \in A : i >= j
      BY <1>1, <1>2, <2>1 DEF Joined
    <3> QED BY <3>1 DEF Max
  <2> QED BY <1>1, <1>2, <1>3, <1>5, <2>2 DEF Joined
<1> QED BY <1>3, <1>4, <1>5 DEF LastOccurrence, A, B, C, v

\* The last entry under a key in two trails is the second one's, if it has one.
LEMMA SeenConcat ==
  ASSUME NEW t \in Seq(AuditRecord), NEW u \in Seq(AuditRecord), NEW f, NEW k
  PROVE  /\ Seen(t \o u, f, k) = {} <=> Seen(t, f, k) = {} /\ Seen(u, f, k) = {}
         /\ Seen(u, f, k) # {} => LastSeen(t \o u, f, k) = LastSeen(u, f, k)
         /\ Seen(u, f, k) = {} /\ Seen(t, f, k) # {} =>
              LastSeen(t \o u, f, k) = LastSeen(t, f, k)
<1> DEFINE n == Len(t)
           m == Len(u)
           v == t \o u
           A == Seen(t, f, k)
           B == Seen(u, f, k)
           C == Seen(v, f, k)
<1>1. /\ n \in Nat /\ m \in Nat /\ DOMAIN t = 1 .. n /\ DOMAIN u = 1 .. m
      /\ DOMAIN v = 1 .. n + m
      /\ \A j \in 1 .. n : v[j] = t[j]
      /\ \A j \in 1 .. m : v[n + j] = u[j]
  BY ConcatPositions
<1> HIDE DEF n, m, v
<1>2. Joined(C, A, n, B, m)
  <2>1. A \subseteq 1 .. n /\ B \subseteq 1 .. m /\ C \subseteq 1 .. n + m
    BY <1>1 DEF Seen
  <2>2. ASSUME NEW j \in 1 .. n PROVE j \in C <=> j \in A
    <3>1. j \in 1 .. n + m
      BY <1>1
    <3> QED BY <1>1, <3>1 DEF Seen
  <2>3. ASSUME NEW j \in 1 .. m PROVE n + j \in C <=> j \in B
    <3>1. n + j \in 1 .. n + m
      BY <1>1
    <3> QED BY <1>1, <3>1 DEF Seen
  <2> HIDE DEF A, B, C
  <2> QED BY <2>1, <2>2, <2>3 DEF Joined
<1> HIDE DEF A, B, C
<1>3. (C = {} <=> A = {} /\ B = {}) /\ (B = {} => C = A)
      /\ (B # {} => Max(B) \in B /\ Max(C) = n + Max(B))
  BY <1>1, <1>2, LastOfConcat
<1>4. ASSUME B # {} PROVE v[Max(C)] = u[Max(B)]
  BY <1>1, <1>2, <1>3, <1>4 DEF Joined
<1>5. ASSUME B = {}, A # {} PROVE v[Max(C)] = t[Max(A)]
  <2>1. PICK i \in A : \A j \in A : j <= i
    BY <1>1, <1>2, <1>5, LastPosition DEF Joined
  <2>2. Max(A) \in A
    <3>1. \A j \in A : i >= j
      BY <1>1, <1>2, <2>1 DEF Joined
    <3> QED BY <3>1 DEF Max
  <2> QED BY <1>1, <1>2, <1>3, <1>5, <2>2 DEF Joined
<1> QED BY <1>3, <1>4, <1>5 DEF LastSeen, A, B, C, v

\* The last occurrence in a trail of one record.
LEMMA LoneRecord ==
  ASSUME NEW r, NEW S
  PROVE  /\ Occurrences(<<r>>, S) # {} <=> r.field \in S /\ r.tag # "UnknownField"
         /\ Occurrences(<<r>>, S) # {} => LastOccurrence(<<r>>, S) = r
<1>1. DOMAIN <<r>> = {1} /\ <<r>>[1] = r
  OBVIOUS
<1>2. ASSUME Occurrences(<<r>>, S) # {} PROVE <<r>>[Max(Occurrences(<<r>>, S))] = r
  <2>1. Occurrences(<<r>>, S) = {1}
    BY <1>1, <1>2 DEF Occurrences
  <2>2. Max({1}) = 1
    BY DEF Max
  <2> QED BY <1>1, <2>1, <2>2
<1>3. Occurrences(<<r>>, S) # {} <=> r.field \in S /\ r.tag # "UnknownField"
  BY <1>1 DEF Occurrences
<1> QED BY <1>2, <1>3 DEF LastOccurrence

\* The last entry under a key in a trail of one record.
LEMMA LoneSeen ==
  ASSUME NEW r, NEW f, NEW k
  PROVE  /\ Seen(<<r>>, f, k) # {} <=> r.field = f /\ r.payload[1] = k
         /\ Seen(<<r>>, f, k) # {} => LastSeen(<<r>>, f, k) = r
<1>1. DOMAIN <<r>> = {1} /\ <<r>>[1] = r
  OBVIOUS
<1>2. ASSUME Seen(<<r>>, f, k) # {} PROVE <<r>>[Max(Seen(<<r>>, f, k))] = r
  <2>1. Seen(<<r>>, f, k) = {1}
    BY <1>1, <1>2 DEF Seen
  <2>2. Max({1}) = 1
    BY DEF Max
  <2> QED BY <1>1, <2>1, <2>2
<1>3. Seen(<<r>>, f, k) # {} <=> r.field = f /\ r.payload[1] = k
  BY <1>1 DEF Seen
<1> QED BY <1>2, <1>3 DEF LastSeen

\* The last position of a nonempty set of positions is one of them.
LEMMA LastIsPosition ==
  ASSUME NEW t \in Seq(AuditRecord), NEW A, A \subseteq DOMAIN t, A # {}
  PROVE  Max(A) \in A
<1> DEFINE n == Len(t)
<1>1. n \in Nat /\ A \subseteq 1 .. n
  BY LenProperties
<1> HIDE DEF n
<1>2. PICK i \in A : \A j \in A : j <= i
  BY <1>1, LastPosition
<1>3. \A j \in A : i >= j
  BY <1>1, <1>2
<1> QED BY <1>3 DEF Max

\* The same occurrences, some of whose records no longer claim to be retained.
Retold(p, t) ==
  /\ DOMAIN p = DOMAIN t
  /\ \A j \in DOMAIN t :
       \/ p[j] = t[j]
       \/ /\ p[j].field = t[j].field /\ p[j].payload = t[j].payload
          /\ t[j].field \in SingularField \cup MapField
          /\ {p[j].tag, t[j].tag} \subseteq {"SchemaField", "DuplicateLastWins", "DuplicateDiscarded"}

\* Demoting records changes nothing that the trail tells.
LEMMA PreparedRetold ==
  ASSUME NEW t \in Seq(AuditRecord), NEW f \in ScalarField \cup MapField, NEW demoted
  PROVE  Prepared(t, f, demoted) \in Seq(AuditRecord) /\ Retold(Prepared(t, f, demoted), t)
<1> DEFINE p == Prepared(t, f, demoted)
<1>1. p \in Seq(AuditRecord) /\ Len(p) = Len(t)
  BY PreparedTrail
<1>2. DOMAIN p = DOMAIN t
  BY <1>1, LenProperties
<1>3. ASSUME p = t PROVE Retold(p, t)
  BY <1>3 DEF Retold
<1>4. ASSUME NEW k \in DOMAIN t, Live(t[k]), t[k].field \in Slot(f),
             p[k] = [t[k] EXCEPT !.tag = "DuplicateDiscarded"],
             \A j \in DOMAIN t : j # k => p[j] = t[j]
      PROVE  Retold(p, t)
  <2>1. t[k] \in AuditRecord /\ t[k].tag \in {"SchemaField", "DuplicateLastWins"}
    BY <1>4 DEF Live
  <2>2. p[k].field = t[k].field /\ p[k].payload = t[k].payload /\ p[k].tag = "DuplicateDiscarded"
    BY <1>4, <2>1 DEF AuditRecord
  <2>3. t[k].field \in SingularField \cup MapField
    BY <1>4, SlotShapes
  <2> HIDE DEF p
  <2> QED BY <1>2, <1>4, <2>1, <2>2, <2>3 DEF Retold
<1>5. p = t \/ \E k \in DOMAIN t : /\ Live(t[k]) /\ t[k].field \in Slot(f)
                                   /\ p[k] = [t[k] EXCEPT !.tag = "DuplicateDiscarded"]
                                   /\ \A j \in DOMAIN t : j # k => p[j] = t[j]
  BY DemotedRecord DEF Prepared
<1> HIDE DEF p
<1>6. Retold(p, t)
  BY <1>3, <1>4, <1>5
<1> QED BY <1>1, <1>6 DEF p

\* A trail tells what it tells.
LEMMA SameRetold ==
  ASSUME NEW t
  PROVE  Retold(t, t)
BY DEF Retold

\* Two trails that tell the same agree on every collection.
LEMMA RetoldTells ==
  ASSUME NEW t \in Seq(AuditRecord), NEW p \in Seq(AuditRecord), Retold(p, t)
  PROVE  /\ \A f \in RepeatedField : Told(p, Keepers(f)) = Told(t, Keepers(f))
         /\ Told(p, Unknowns) = Told(t, Unknowns)
         /\ \A S : Occurrences(p, S) = Occurrences(t, S)
         /\ \A f, k : Seen(p, f, k) = Seen(t, f, k)
         /\ \A j \in DOMAIN t : p[j].field = t[j].field /\ p[j].payload = t[j].payload
<1>1. DOMAIN p = DOMAIN t /\ \A j \in DOMAIN t : p[j] \in AuditRecord /\ t[j] \in AuditRecord
  BY DEF Retold
<1>2. \A j \in DOMAIN t : p[j].field = t[j].field /\ p[j].payload = t[j].payload
  BY DEF Retold
<1>3. \A j \in DOMAIN t : p[j].tag = "UnknownField" <=> t[j].tag = "UnknownField"
  BY DEF Retold
<1>4. ASSUME NEW f \in RepeatedField PROVE Told(p, Keepers(f)) = Told(t, Keepers(f))
  <2>1. ASSUME NEW j \in DOMAIN t PROVE RetainedBy(f, p[j]) = RetainedBy(f, t[j])
    <3>1. p[j] = t[j] \/ (p[j].field # f /\ t[j].field # f)
      BY SlotShapes DEF Retold
    <3> QED BY <3>1 DEF RetainedBy
  <2>2. \A j \in DOMAIN t : Keepers(f)[p[j]] = Keepers(f)[t[j]]
    BY <1>1, <2>1 DEF Keepers
  <2> QED BY <1>1, <2>2, ToldSame
<1>5. Told(p, Unknowns) = Told(t, Unknowns)
  <2>1. ASSUME NEW j \in DOMAIN t PROVE UnknownEntries(p[j]) = UnknownEntries(t[j])
    <3>1. \/ p[j] = t[j]
          \/ /\ p[j].field = t[j].field /\ t[j].field \notin RepeatedField
             /\ p[j].tag \notin {"UnknownField", "UnknownMessage"}
             /\ t[j].tag \notin {"UnknownField", "UnknownMessage"}
      BY SlotShapes DEF Retold
    <3> QED BY <3>1 DEF UnknownEntries
  <2>2. \A j \in DOMAIN t : Unknowns[p[j]] = Unknowns[t[j]]
    BY <1>1, <2>1 DEF Unknowns
  <2> QED BY <1>1, <2>2, ToldSame
<1>6. \A S : Occurrences(p, S) = Occurrences(t, S)
  BY <1>1, <1>2, <1>3 DEF Occurrences
<1>7. \A f, k : Seen(p, f, k) = Seen(t, f, k)
  BY <1>1, <1>2 DEF Seen
<1> QED BY <1>2, <1>4, <1>5, <1>6, <1>7

\* Two trails that tell the same agree on the winning occurrence.
LEMMA RetoldWon ==
  ASSUME NEW t \in Seq(AuditRecord), NEW p \in Seq(AuditRecord), Retold(p, t), NEW f
  PROVE  /\ WonBy(p, f) <=> WonBy(t, f)
         /\ Occurrences(t, Slot(f)) # {} =>
              LastOccurrence(p, Slot(f)).payload = LastOccurrence(t, Slot(f)).payload
         /\ \A k : Seen(t, f, k) # {} => LastSeen(p, f, k).payload = LastSeen(t, f, k).payload
<1>1. /\ \A S : Occurrences(p, S) = Occurrences(t, S)
      /\ \A k : Seen(p, f, k) = Seen(t, f, k)
      /\ \A j \in DOMAIN t : p[j].field = t[j].field /\ p[j].payload = t[j].payload
  BY RetoldTells
<1>2. ASSUME Occurrences(t, Slot(f)) # {} PROVE Max(Occurrences(t, Slot(f))) \in DOMAIN t
  <2>1. Occurrences(t, Slot(f)) \subseteq DOMAIN t
    BY DEF Occurrences
  <2> QED BY <1>2, <2>1, LastIsPosition
<1>3. ASSUME NEW k, Seen(t, f, k) # {} PROVE Max(Seen(t, f, k)) \in DOMAIN t
  <2>1. Seen(t, f, k) \subseteq DOMAIN t
    BY DEF Seen
  <2> QED BY <1>3, <2>1, LastIsPosition
<1> QED BY <1>1, <1>2, <1>3 DEF WonBy, LastOccurrence, LastSeen

\* Two trails that tell the same have seen the same fields.
LEMMA RetoldSeen ==
  ASSUME NEW t \in Seq(AuditRecord), NEW p \in Seq(AuditRecord), Retold(p, t), NEW f, NEW k,
         Seen(t, f, k) # {}
  PROVE  LastSeen(p, f, k).payload = LastSeen(t, f, k).payload
<1>1. \A h : \A l : Seen(t, h, l) # {} => LastSeen(p, h, l).payload = LastSeen(t, h, l).payload
  BY RetoldWon, Zenon
<1> QED BY <1>1

\* A field in no oneof has won its slot once it occurs.
LEMMA LoneWon ==
  ASSUME NEW t \in Seq(AuditRecord), NEW f \in Field, Desc[f].oneof = None
  PROVE  WonBy(t, f) <=> Occurrences(t, Slot(f)) # {}
<1>1. Slot(f) = {f}
  BY DEF Slot, Siblings
<1>2. Occurrences(t, Slot(f)) \subseteq DOMAIN t
  BY DEF Occurrences
<1>3. ASSUME Occurrences(t, Slot(f)) # {} PROVE LastOccurrence(t, Slot(f)).field = f
  <2>1. Max(Occurrences(t, Slot(f))) \in Occurrences(t, Slot(f))
    BY <1>2, <1>3, LastIsPosition
  <2>2. t[Max(Occurrences(t, Slot(f)))].field \in Slot(f)
    BY <2>1 DEF Occurrences
  <2> QED BY <1>1, <2>2 DEF LastOccurrence
<1> QED BY <1>3 DEF WonBy

\* The winner in two trails is that of the second, if it has one.
LEMMA WonConcat ==
  ASSUME NEW t \in Seq(AuditRecord), NEW u \in Seq(AuditRecord), NEW f
  PROVE  /\ Occurrences(u, Slot(f)) # {} =>
              /\ WonBy(t \o u, f) <=> WonBy(u, f)
              /\ LastOccurrence(t \o u, Slot(f)) = LastOccurrence(u, Slot(f))
         /\ Occurrences(u, Slot(f)) = {} =>
              /\ WonBy(t \o u, f) <=> WonBy(t, f)
              /\ WonBy(t, f) => LastOccurrence(t \o u, Slot(f)) = LastOccurrence(t, Slot(f))
BY OccurrencesConcat DEF WonBy

-----------------------------------------------------------------------------
(* Nodes.                                                                  *)

\* The collections and the unknown fields of a node are what its trail tells.
CollectionsFollow(n, o) ==
  /\ \A f \in RepeatedField : Items(n.rep[f]) = Told(n.audit, Keepers(f))
  /\ \A f \in MapField, k \in Scalar :
       /\ n.map[f][k] # None <=> Seen(n.audit, f, k) # {}
       /\ Seen(n.audit, f, k) # {} => n.map[f][k] = LastSeen(n.audit, f, k).payload[2]
  /\ n.unknown = IF o.unknown_fields = "Preserve" THEN Told(n.audit, Unknowns) ELSE <<>>

\* A singular field of a node is what its trail tells; here are the submessages
\* of the node.
SingularFollows(n, here, f) ==
  /\ f \in ScalarField =>
       /\ n.scalar[f] # None <=> WonBy(n.audit, f)
       /\ WonBy(n.audit, f) => n.scalar[f] = LastOccurrence(n.audit, Slot(f)).payload[1]
  /\ f \in MessageField => (f \in here <=> WonBy(n.audit, f))

\* The collections and unknown fields of new are those of n and what u adds.
Adds(new, n, u, o) ==
  /\ \A f \in RepeatedField : Items(new.rep[f]) = Items(n.rep[f]) \o Told(u, Keepers(f))
  /\ \A f \in MapField, k \in Scalar :
       /\ Seen(u, f, k) = {} => new.map[f][k] = n.map[f][k]
       /\ Seen(u, f, k) # {} =>
            new.map[f][k] # None /\ new.map[f][k] = LastSeen(u, f, k).payload[2]
  /\ new.unknown = IF o.unknown_fields = "Preserve" THEN n.unknown \o Told(u, Unknowns)
                   ELSE n.unknown

\* A node goes on as its trail does.
LEMMA CollectionsExtended ==
  ASSUME NEW n, NEW new, NEW o,
         NEW t \in Seq(AuditRecord), NEW p \in Seq(AuditRecord), NEW u \in Seq(AuditRecord),
         n.audit = t, Retold(p, t), new.audit = p \o u,
         CollectionsFollow(n, o), Adds(new, n, u, o)
  PROVE  CollectionsFollow(new, o)
<1>1. ASSUME NEW f \in RepeatedField PROVE Items(new.rep[f]) = Told(new.audit, Keepers(f))
  <2>1. Told(p \o u, Keepers(f)) = Told(p, Keepers(f)) \o Told(u, Keepers(f))
    BY KeepersConcat
  <2>2. Told(p, Keepers(f)) = Told(t, Keepers(f))
    BY RetoldTells
  <2>3. Items(new.rep[f]) = Items(n.rep[f]) \o Told(u, Keepers(f))
    BY DEF Adds
  <2>4. Items(n.rep[f]) = Told(t, Keepers(f))
    BY DEF CollectionsFollow
  <2> QED BY <2>1, <2>2, <2>3, <2>4
<1>2. ASSUME NEW f \in MapField, NEW k \in Scalar
      PROVE  /\ new.map[f][k] # None <=> Seen(new.audit, f, k) # {}
             /\ Seen(new.audit, f, k) # {} =>
                  new.map[f][k] = LastSeen(new.audit, f, k).payload[2]
  <2>1. /\ n.map[f][k] # None <=> Seen(t, f, k) # {}
        /\ Seen(t, f, k) # {} => n.map[f][k] = LastSeen(t, f, k).payload[2]
    BY DEF CollectionsFollow
  <2>2. Seen(p, f, k) = Seen(t, f, k)
    BY RetoldTells
  <2>3. Seen(t, f, k) # {} => LastSeen(p, f, k).payload = LastSeen(t, f, k).payload
    BY RetoldSeen
  <2>4. /\ Seen(p \o u, f, k) = {} <=> Seen(p, f, k) = {} /\ Seen(u, f, k) = {}
        /\ Seen(u, f, k) # {} => LastSeen(p \o u, f, k) = LastSeen(u, f, k)
        /\ Seen(u, f, k) = {} /\ Seen(p, f, k) # {} =>
             LastSeen(p \o u, f, k) = LastSeen(p, f, k)
    BY SeenConcat
  <2>5. /\ Seen(u, f, k) = {} => new.map[f][k] = n.map[f][k]
        /\ Seen(u, f, k) # {} =>
             new.map[f][k] # None /\ new.map[f][k] = LastSeen(u, f, k).payload[2]
    BY DEF Adds
  <2> QED BY <2>1, <2>2, <2>3, <2>4, <2>5
<1>3. new.unknown = IF o.unknown_fields = "Preserve" THEN Told(new.audit, Unknowns) ELSE <<>>
  <2>1. Told(p \o u, Unknowns) = Told(p, Unknowns) \o Told(u, Unknowns)
    BY UnknownsConcat
  <2>2. Told(p, Unknowns) = Told(t, Unknowns)
    BY RetoldTells
  <2>3. n.unknown = IF o.unknown_fields = "Preserve" THEN Told(t, Unknowns) ELSE <<>>
    BY DEF CollectionsFollow
  <2>4. new.unknown = IF o.unknown_fields = "Preserve" THEN n.unknown \o Told(u, Unknowns)
                      ELSE n.unknown
    BY DEF Adds
  <2> QED BY <2>1, <2>2, <2>3, <2>4
<1> QED BY <1>1, <1>2, <1>3 DEF CollectionsFollow

\* The slot of f has the value that the record r of f brings; there are the
\* submessages of new, here those of n.
Takes(new, there, n, here, r, f) ==
  /\ r.field = f /\ r.tag # "UnknownField"
  /\ f \in ScalarField => new.scalar[f] # None /\ new.scalar[f] = r.payload[1]
  /\ f \in MessageField => f \in there
  /\ \A g \in Siblings(f) : /\ g \in ScalarField => new.scalar[g] = None
                            /\ g \in MessageField => g \notin there
  /\ \A g \in SingularField : g \notin Slot(f) =>
       /\ g \in ScalarField => new.scalar[g] = n.scalar[g]
       /\ g \in MessageField => (g \in there <=> g \in here)

\* The singular fields when the record of one of them is pushed.
LEMMA SlotExtended ==
  ASSUME NEW n, NEW new, NEW here, NEW there, NEW p \in Seq(AuditRecord), NEW r \in AuditRecord,
         n.audit \in Seq(AuditRecord), Retold(p, n.audit), new.audit = p \o <<r>>,
         NEW f \in SingularField, Takes(new, there, n, here, r, f),
         NEW g \in SingularField, SingularFollows(n, here, g)
  PROVE  SingularFollows(new, there, g)
<1> DEFINE t == n.audit
           u == <<r>>
<1>1. /\ Occurrences(u, Slot(g)) # {} => LastOccurrence(u, Slot(g)) = r
      /\ Occurrences(u, Slot(g)) # {} <=> r.field \in Slot(g) /\ r.tag # "UnknownField"
  BY LoneRecord
<1>2. u \in Seq(AuditRecord) /\ t \in Seq(AuditRecord) /\ Retold(p, t)
  OBVIOUS
<1>3. new.audit = p \o u
  OBVIOUS
<1> HIDE DEF u
<1>4. f \in Field /\ g \in Field /\ r.field = f /\ r.tag # "UnknownField"
  BY DEF SingularField, Takes
<1>5. CASE f \in Slot(g)
  <2>1. Slot(g) = Slot(f) /\ g \in Slot(f)
    BY <1>4, <1>5, SlotsAgree
  <2>2. LastOccurrence(p \o u, Slot(g)) = r /\ (WonBy(p \o u, g) <=> WonBy(u, g))
    BY <1>1, <1>2, <1>4, <1>5, WonConcat
  <2>3. WonBy(u, g) <=> g = f
    BY <1>1, <1>4, <1>5 DEF WonBy
  <2>4. g = f \/ g \in Siblings(f)
    BY <2>1 DEF Slot
  <2>5. f \notin Siblings(f)
    BY DEF Siblings
  <2> QED BY <1>3, <2>2, <2>3, <2>4, <2>5 DEF SingularFollows, Takes
<1>6. CASE f \notin Slot(g)
  <2>1. g \notin Slot(f)
    BY <1>4, <1>6, SlotsAgree
  <2>2. Occurrences(u, Slot(g)) = {}
    BY <1>1, <1>4, <1>6
  <2>3. /\ WonBy(p \o u, g) <=> WonBy(p, g)
        /\ WonBy(p, g) => LastOccurrence(p \o u, Slot(g)) = LastOccurrence(p, Slot(g))
    BY <1>2, <2>2, WonConcat
  <2>4. /\ WonBy(p, g) <=> WonBy(t, g)
        /\ WonBy(t, g) => LastOccurrence(p, Slot(g)).payload = LastOccurrence(t, Slot(g)).payload
    BY <1>2, RetoldWon DEF WonBy
  <2> HIDE DEF t
  <2>5. SingularFollows(n, here, g) /\ t = n.audit
    BY DEF t
  <2> QED BY <1>3, <2>1, <2>3, <2>4, <2>5 DEF SingularFollows, Takes
<1> QED BY <1>5, <1>6

\* A record of no singular field.
LEMMA SlotUntouched ==
  ASSUME NEW n, NEW new, NEW here, NEW p \in Seq(AuditRecord), NEW r \in AuditRecord,
         n.audit \in Seq(AuditRecord), Retold(p, n.audit), new.audit = p \o <<r>>,
         r.field \notin SingularField \/ r.tag = "UnknownField",
         new.scalar = n.scalar,
         NEW g \in SingularField, SingularFollows(n, here, g)
  PROVE  SingularFollows(new, here, g)
<1> DEFINE t == n.audit
           u == <<r>>
<1>1. Occurrences(u, Slot(g)) = {}
  BY LoneRecord, SlotShapes
<1>2. u \in Seq(AuditRecord) /\ t \in Seq(AuditRecord) /\ Retold(p, t)
  OBVIOUS
<1>3. new.audit = p \o u
  OBVIOUS
<1> HIDE DEF u
<1>4. /\ WonBy(p \o u, g) <=> WonBy(p, g)
      /\ WonBy(p, g) => LastOccurrence(p \o u, Slot(g)) = LastOccurrence(p, Slot(g))
  BY <1>1, <1>2, WonConcat
<1>5. /\ WonBy(p, g) <=> WonBy(t, g)
      /\ WonBy(t, g) => LastOccurrence(p, Slot(g)).payload = LastOccurrence(t, Slot(g)).payload
  BY <1>2, RetoldWon DEF WonBy
<1> HIDE DEF t
<1>6. SingularFollows(n, here, g) /\ t = n.audit
  BY DEF t
<1> QED BY <1>3, <1>4, <1>5, <1>6 DEF SingularFollows

\* Two nodes merged.
LEMMA MergedFollows ==
  ASSUME NEW old \in Node, NEW new \in Node, NEW o,
         CollectionsFollow(old, o), CollectionsFollow(new, o)
  PROVE  CollectionsFollow(MergeNode(old, new), o)
<1> DEFINE n == MergeNode(old, new)
<1>1. /\ n.audit = old.audit \o new.audit /\ n.unknown = old.unknown \o new.unknown
      /\ \A f \in RepeatedField : n.rep[f] = MergeRep(old.rep[f], new.rep[f])
      /\ \A f \in MapField, k \in Scalar :
           n.map[f][k] = IF new.map[f][k] = None THEN old.map[f][k] ELSE new.map[f][k]
  BY DEF MergeNode, MergeMap
<1>2. /\ old.audit \in Seq(AuditRecord) /\ new.audit \in Seq(AuditRecord)
      /\ old.unknown \in Seq(UnknownEntry) /\ new.unknown \in Seq(UnknownEntry)
      /\ old.rep \in [RepeatedField -> Seq(Value) \cup {None}]
      /\ new.rep \in [RepeatedField -> Seq(Value) \cup {None}]
  BY DEF Node
<1> HIDE DEF n
<1>3. ASSUME NEW f \in RepeatedField
      PROVE  Items(n.rep[f]) = Items(old.rep[f]) \o Told(new.audit, Keepers(f))
  <2>1. Items(new.rep[f]) = Told(new.audit, Keepers(f))
    BY DEF CollectionsFollow
  <2>2. old.rep[f] \in Seq(Value) \cup {None} /\ new.rep[f] \in Seq(Value) \cup {None}
    BY <1>2
  <2>3. Items(old.rep[f]) \in Seq(Value) /\ \A s \in Seq(Value) : s # None /\ s \o <<>> = s
    BY <2>2, ValueAssumption DEF Items, Value
  <2>4. CASE new.rep[f] = None
    BY <1>1, <2>1, <2>3, <2>4 DEF Items, MergeRep
  <2>5. CASE new.rep[f] # None
    <3>1. n.rep[f] = Items(old.rep[f]) \o new.rep[f] /\ Items(new.rep[f]) = new.rep[f]
      BY <1>1, <2>5 DEF MergeRep, Items
    <3>2. n.rep[f] \in Seq(Value)
      BY <2>2, <2>3, <2>5, <3>1, ConcatProperties
    <3>3. Items(n.rep[f]) = n.rep[f]
      BY <2>3, <3>2 DEF Items
    <3> QED BY <2>1, <3>1, <3>3
  <2> QED BY <2>4, <2>5
<1>4. ASSUME NEW f \in MapField, NEW k \in Scalar
      PROVE  /\ Seen(new.audit, f, k) = {} => n.map[f][k] = old.map[f][k]
             /\ Seen(new.audit, f, k) # {} =>
                  n.map[f][k] # None /\ n.map[f][k] = LastSeen(new.audit, f, k).payload[2]
  BY <1>1 DEF CollectionsFollow
<1>5. n.unknown = IF o.unknown_fields = "Preserve" THEN old.unknown \o Told(new.audit, Unknowns)
                  ELSE old.unknown
  <2>1. new.unknown = IF o.unknown_fields = "Preserve" THEN Told(new.audit, Unknowns) ELSE <<>>
    BY DEF CollectionsFollow
  <2>2. old.unknown \o <<>> = old.unknown
    BY <1>2, ConcatEmptySeq
  <2> QED BY <1>1, <2>1, <2>2
<1>6. Adds(n, old, new.audit, o)
  BY <1>3, <1>4, <1>5 DEF Adds
<1> DEFINE t == old.audit
           u == new.audit
<1>7. t \in Seq(AuditRecord) /\ u \in Seq(AuditRecord) /\ Retold(t, t)
      /\ old.audit = t /\ n.audit = t \o u /\ Adds(n, old, u, o)
  BY <1>1, <1>2, <1>6, SameRetold
<1> HIDE DEF t, u
<1>8. CollectionsFollow(n, o)
  BY <1>7, CollectionsExtended
<1> QED BY <1>8 DEF n

\* A singular field of two nodes that follow, merged, follows both.
LEMMA MergedSingular ==
  ASSUME NEW old \in Node, NEW new \in Node, NEW f \in SingularField, Desc[f].oneof = None,
         NEW here, NEW there, NEW both,
         SingularFollows(old, here, f), SingularFollows(new, there, f),
         f \in MessageField => (f \in both <=> f \in here \/ f \in there)
  PROVE  SingularFollows(MergeNode(old, new), both, f)
<1> DEFINE n == MergeNode(old, new)
           t == old.audit
           u == new.audit
<1>1. /\ n.audit = t \o u
      /\ f \in ScalarField => n.scalar[f] = IF new.scalar[f] = None THEN old.scalar[f] ELSE new.scalar[f]
  BY DEF MergeNode
<1>2. t \in Seq(AuditRecord) /\ u \in Seq(AuditRecord) /\ f \in Field /\ f \in ScalarField \cup MessageField
  BY DEF Node, SingularField, MessageField
<1>3. /\ Occurrences(u, Slot(f)) # {} => /\ WonBy(t \o u, f) <=> WonBy(u, f)
                                         /\ LastOccurrence(t \o u, Slot(f)) = LastOccurrence(u, Slot(f))
      /\ Occurrences(u, Slot(f)) = {} =>
              /\ WonBy(t \o u, f) <=> WonBy(t, f)
              /\ WonBy(t, f) => LastOccurrence(t \o u, Slot(f)) = LastOccurrence(t, Slot(f))
  BY <1>2, WonConcat
<1>4. WonBy(u, f) <=> Occurrences(u, Slot(f)) # {}
  BY <1>2, LoneWon
<1> HIDE DEF n
<1>5. SingularFollows(n, both, f)
  BY <1>1, <1>2, <1>3, <1>4 DEF SingularFollows
<1> QED BY <1>5 DEF n

-----------------------------------------------------------------------------
(* Messages.                                                               *)

\* The submessages of the message at an address, by field.
Members(m, a) == {g \in MessageField : Append(a, g) \in DOMAIN m}

\* A submessage is part of a submessage.
Closed(m) == \A a \in Seq(MessageField), g \in MessageField : Append(a, g) \in DOMAIN m => a \in DOMAIN m

FollowsAt(m, o, a) ==
  /\ CollectionsFollow(m[a], o)
  /\ \A f \in SingularField :
       a = <<>> \/ Desc[f].oneof = None => SingularFollows(m[a], Members(m, a), f)

Follows(m, o) == Closed(m) /\ \A a \in DOMAIN m : FollowsAt(m, o, a)

\* The submessages alone.
Inner(m, o) == Closed(m) /\ \A a \in DOMAIN m : a # <<>> => FollowsAt(m, o, a)

\* The same node at another address below the root.
LEMMA FollowsMoved ==
  ASSUME NEW m, NEW n, NEW o, NEW a, NEW b, b # <<>>, n[b] = m[a],
         Members(n, b) = Members(m, a), FollowsAt(m, o, a)
  PROVE  FollowsAt(n, o, b)
BY DEF FollowsAt

\* A message written only at its root follows, when its root does.
LEMMA RootFollows ==
  ASSUME NEW m, NEW new, NEW o, Inner(m, o), DOMAIN new = DOMAIN m,
         \A a \in DOMAIN m : a # <<>> => new[a] = m[a],
         CollectionsFollow(new[<<>>], o),
         \A f \in SingularField : SingularFollows(new[<<>>], Members(m, <<>>), f)
  PROVE  Follows(new, o)
<1>1. \A a : Members(new, a) = Members(m, a)
  BY DEF Members
<1>2. Closed(new)
  BY DEF Inner, Closed
<1>3. ASSUME NEW a \in DOMAIN new, a # <<>> PROVE FollowsAt(new, o, a)
  BY <1>1, <1>3, FollowsMoved DEF Inner
<1>4. FollowsAt(new, o, <<>>)
  BY <1>1 DEF FollowsAt
<1> QED BY <1>2, <1>3, <1>4 DEF Follows

\* A new message follows its trail.
LEMMA NewFollows ==
  ASSUME NEW o
  PROVE  Follows(New, o)
<1>1. DOMAIN New = {<<>>} /\ New[<<>>] = EmptyNode
  BY DEF New
<1>2. ASSUME NEW a \in Seq(MessageField), NEW g \in MessageField PROVE Append(a, g) \notin DOMAIN New
  BY <1>1
<1>3. Members(New, <<>>) = {} /\ Closed(New)
  <2>1. <<>> \in Seq(MessageField)
    OBVIOUS
  <2>2. Members(New, <<>>) = {}
    BY <1>2, <2>1, Zenon DEF Members
  <2>3. Closed(New)
    BY <1>2, Zenon DEF Closed
  <2> QED BY <2>2, <2>3
<1>4. /\ \A S : Occurrences(<<>>, S) = {} /\ \A f, k : Seen(<<>>, f, k) = {}
      /\ \A g : Told(<<>>, g) = <<>>
  BY ToldNothing DEF Occurrences, Seen
<1>5. CollectionsFollow(EmptyNode, o)
  <2>1. /\ EmptyNode.audit = <<>> /\ EmptyNode.unknown = <<>>
        /\ \A f \in RepeatedField : Items(EmptyNode.rep[f]) = <<>>
        /\ \A f \in MapField, k \in Scalar : EmptyNode.map[f][k] = None
    BY DEF EmptyNode, Items, NoEntry
  <2> QED BY <1>4, <2>1 DEF CollectionsFollow
<1>6. \A f \in SingularField : SingularFollows(EmptyNode, {}, f)
  <2>1. EmptyNode.audit = <<>> /\ \A f \in ScalarField : EmptyNode.scalar[f] = None
    BY DEF EmptyNode
  <2> QED BY <1>4, <2>1 DEF SingularFollows, WonBy
<1>7. FollowsAt(New, o, <<>>)
  BY <1>1, <1>3, <1>5, <1>6 DEF FollowsAt
<1> QED BY <1>1, <1>3, <1>7 DEF Follows

\* Displacing the siblings of f takes only them, and the submessages still follow.
LEMMA DisplacedFollow ==
  ASSUME NEW m, IsMessage(m), NEW o, Follows(m, o), NEW f \in Field
  PROVE  /\ Inner(Displace(m, f), o)
         /\ \A g \in MessageField : g \in Members(Displace(m, f), <<>>) <=>
                                      g \in Members(m, <<>>) /\ g \notin Siblings(f)
<1> DEFINE d == Displace(m, f)
<1>1. /\ DOMAIN d = {b \in DOMAIN m : \A g \in Siblings(f) : ~Under(g, b)}
      /\ \A a \in DOMAIN d : a # <<>> => d[a] = m[a]
  BY DisplaceParts
<1> HIDE DEF d
<1>2. ASSUME NEW a \in Seq(MessageField), a # <<>>, NEW g \in MessageField
      PROVE  \A h : Under(h, Append(a, g)) <=> Under(h, a)
  BY <1>2, ExtendedAddress DEF Under
<1>3. \A h : ~Under(h, <<>>)
  BY DEF Under
<1>4. Closed(d)
  BY <1>1, <1>2, <1>3 DEF Closed, Follows
<1>5. ASSUME NEW a \in DOMAIN d, a # <<>> PROVE FollowsAt(d, o, a)
  <2>1. a \in Seq(MessageField) /\ a \in DOMAIN m
    BY <1>1 DEF IsMessage
  <2>2. Members(d, a) = Members(m, a)
    BY <1>1, <1>2, <1>5, <2>1 DEF Members
  <2>3. FollowsAt(m, o, a)
    BY <2>1 DEF Follows
  <2> QED BY <1>1, <1>5, <2>2, <2>3, FollowsMoved
<1>6. ASSUME NEW g \in MessageField
      PROVE  g \in Members(d, <<>>) <=> g \in Members(m, <<>>) /\ g \notin Siblings(f)
  <2>1. \A h : Under(h, Append(<<>>, g)) <=> g = h
    BY DEF Under
  <2> QED BY <1>1, <2>1 DEF Members
<1> QED BY <1>4, <1>5, <1>6 DEF d, Inner

\* Where a merged message has its nodes from.
LEMMA MergedAddresses ==
  ASSUME NEW d, IsMessage(d), NEW sub, IsMessage(sub), NEW f \in MessageField
  PROVE  /\ \A a \in Seq(MessageField) : a \in DOMAIN MergeMessage(d, f, sub) <=>
              a \in DOMAIN d \/ (Under(f, a) /\ Tail(a) \in DOMAIN sub)
         /\ \A a \in DOMAIN MergeMessage(d, f, sub) :
              /\ a \in Seq(MessageField)
              /\ MergeMessage(d, f, sub)[a] =
                   IF ~Under(f, a) \/ Tail(a) \notin DOMAIN sub THEN d[a]
                   ELSE IF a \in DOMAIN d THEN MergeNode(d[a], sub[Tail(a)])
                   ELSE sub[Tail(a)]
<1> DEFINE n == MergeMessage(d, f, sub)
<1>1. DOMAIN n = DOMAIN d \cup {<<f>> \o b : b \in DOMAIN sub}
  BY MergeMessageTyped
<1>2. \A a \in DOMAIN n :
        n[a] = IF ~Under(f, a) \/ Tail(a) \notin DOMAIN sub THEN d[a]
               ELSE IF a \in DOMAIN d THEN MergeNode(d[a], sub[Tail(a)])
               ELSE sub[Tail(a)]
  BY DEF MergeMessage
<1> HIDE DEF n
<1>3. \A b \in DOMAIN sub : /\ <<f>> \o b \in Seq(MessageField)
                            /\ Under(f, <<f>> \o b) /\ Tail(<<f>> \o b) = b
  BY MergeParts DEF Under
<1>4. \A a \in Seq(MessageField) : Under(f, a) => a = <<f>> \o Tail(a)
  BY DEF Under
<1>5. DOMAIN d \subseteq Seq(MessageField)
  BY DEF IsMessage
<1>6. \A a \in Seq(MessageField) : a \in DOMAIN n <=>
              a \in DOMAIN d \/ (Under(f, a) /\ Tail(a) \in DOMAIN sub)
  BY <1>1, <1>3, <1>4
<1>7. \A a \in DOMAIN n : a \in Seq(MessageField)
  BY <1>1, <1>3, <1>5
<1> QED BY <1>2, <1>6, <1>7 DEF n

\* Merging a submessage that follows keeps the submessages following.
LEMMA MergedTree ==
  ASSUME NEW d, IsMessage(d), NEW sub, IsMessage(sub), NEW f \in MessageField, NEW o,
         Inner(d, o), Follows(sub, o)
  PROVE  /\ Inner(MergeMessage(d, f, sub), o)
         /\ \A g \in MessageField : g \in Members(MergeMessage(d, f, sub), <<>>) <=>
                                      g \in Members(d, <<>>) \/ g = f
<1> DEFINE n == MergeMessage(d, f, sub)
<1>1. /\ \A a \in Seq(MessageField) : a \in DOMAIN n <=>
              a \in DOMAIN d \/ (Under(f, a) /\ Tail(a) \in DOMAIN sub)
      /\ \A a \in DOMAIN n :
           /\ a \in Seq(MessageField)
           /\ n[a] = IF ~Under(f, a) \/ Tail(a) \notin DOMAIN sub THEN d[a]
                     ELSE IF a \in DOMAIN d THEN MergeNode(d[a], sub[Tail(a)])
                     ELSE sub[Tail(a)]
  BY MergedAddresses
<1> HIDE DEF n
<1>2. ASSUME NEW a \in Seq(MessageField), NEW g \in MessageField
      PROVE  /\ Append(a, g) \in Seq(MessageField)
             /\ a # <<>> => /\ Under(f, Append(a, g)) <=> Under(f, a)
                            /\ Tail(Append(a, g)) = Append(Tail(a), g)
                            /\ Tail(a) \in Seq(MessageField)
             /\ a = <<>> => /\ Under(f, Append(a, g)) <=> g = f
                            /\ Tail(Append(a, g)) = <<>>
  <2>1. Append(a, g) \in Seq(MessageField)
    OBVIOUS
  <2>2. CASE a # <<>>
    <3>1. Under(f, Append(a, g)) <=> Under(f, a)
      BY <2>2, ExtendedAddress DEF Under
    <3>2. Tail(a) \in Seq(MessageField) /\ Tail(Append(a, g)) = Append(Tail(a), g)
      BY <2>2
    <3> QED BY <2>1, <2>2, <3>1, <3>2
  <2>3. CASE a = <<>>
    BY <2>1, <2>3 DEF Under
  <2> QED BY <2>2, <2>3
<1>3. /\ Closed(sub) /\ <<>> \in DOMAIN sub /\ <<>> \in DOMAIN d
      /\ Closed(d) /\ \A a \in DOMAIN d : a # <<>> => FollowsAt(d, o, a)
  BY DEF Follows, Inner, IsMessage
<1>4. ASSUME NEW a \in Seq(MessageField), NEW g \in MessageField, Append(a, g) \in DOMAIN n
      PROVE  a \in DOMAIN n
  <2>1. CASE Append(a, g) \in DOMAIN d
    BY <1>1, <1>3, <2>1 DEF Closed
  <2>2. CASE Append(a, g) \notin DOMAIN d
    <3>1. Under(f, Append(a, g)) /\ Tail(Append(a, g)) \in DOMAIN sub
      BY <1>1, <1>2, <1>4, <2>2
    <3>2. CASE a = <<>>
      BY <1>1, <1>3, <3>2
    <3>3. CASE a # <<>>
      <4>1. Under(f, a) /\ Append(Tail(a), g) \in DOMAIN sub /\ Tail(a) \in Seq(MessageField)
        BY <1>2, <3>1, <3>3
      <4>2. Tail(a) \in DOMAIN sub
        BY <1>3, <4>1 DEF Closed
      <4> QED BY <1>1, <4>1, <4>2
    <3> QED BY <3>2, <3>3
  <2> QED BY <2>1, <2>2
<1>5. ASSUME NEW a \in DOMAIN n, a # <<>> PROVE FollowsAt(n, o, a)
  <2> DEFINE c == Tail(a)
  <2>1. /\ a \in Seq(MessageField) /\ c \in Seq(MessageField)
        /\ n[a] = IF ~Under(f, a) \/ c \notin DOMAIN sub THEN d[a]
                  ELSE IF a \in DOMAIN d THEN MergeNode(d[a], sub[c]) ELSE sub[c]
        /\ a \in DOMAIN d \/ (Under(f, a) /\ c \in DOMAIN sub)
    <3>1. a \in Seq(MessageField)
      BY <1>1
    <3>2. c \in Seq(MessageField)
      BY <1>5, <3>1
    <3> QED BY <1>1, <3>1, <3>2
  <2>2. \A g \in MessageField : g \in Members(n, a) <=>
            g \in Members(d, a) \/ (Under(f, a) /\ g \in Members(sub, c))
    <3> SUFFICES ASSUME NEW g \in MessageField
                 PROVE  g \in Members(n, a) <=>
                          g \in Members(d, a) \/ (Under(f, a) /\ g \in Members(sub, c))
      OBVIOUS
    <3> DEFINE e == Append(a, g)
    <3>1. /\ e \in Seq(MessageField) /\ (Under(f, e) <=> Under(f, a))
          /\ Tail(e) = Append(c, g)
      BY <1>2, <1>5, <2>1
    <3>2. e \in DOMAIN n <=> e \in DOMAIN d \/ (Under(f, e) /\ Tail(e) \in DOMAIN sub)
      BY <1>1, <3>1
    <3>3. /\ g \in Members(n, a) <=> e \in DOMAIN n
          /\ g \in Members(d, a) <=> e \in DOMAIN d
          /\ g \in Members(sub, c) <=> Append(c, g) \in DOMAIN sub
      BY DEF Members
    <3> HIDE DEF e, c
    <3> QED BY <3>1, <3>2, <3>3
  <2> HIDE DEF c
  <2>3. Members(n, a) \subseteq MessageField /\ Members(d, a) \subseteq MessageField
        /\ Members(sub, c) \subseteq MessageField
    BY DEF Members
  <2>4. CASE ~Under(f, a) \/ c \notin DOMAIN sub
    <3>1. Under(f, a) => Members(sub, c) = {}
      BY <1>3, <2>1, <2>4 DEF Closed, Members
    <3>2. Members(n, a) = Members(d, a)
      BY <2>2, <2>3, <3>1
    <3>3. a \in DOMAIN d /\ n[a] = d[a] /\ FollowsAt(d, o, a)
      BY <1>3, <1>5, <2>1, <2>4
    <3> QED BY <1>5, <3>2, <3>3, FollowsMoved
  <2>5. CASE Under(f, a) /\ c \in DOMAIN sub /\ a \notin DOMAIN d
    <3>1. Members(d, a) = {}
      BY <1>3, <2>1, <2>5 DEF Closed, Members
    <3>2. Members(n, a) = Members(sub, c)
      BY <2>2, <2>3, <2>5, <3>1
    <3>3. n[a] = sub[c] /\ FollowsAt(sub, o, c)
      BY <2>1, <2>5 DEF Follows
    <3> QED BY <1>5, <3>2, <3>3, FollowsMoved
  <2>6. CASE Under(f, a) /\ c \in DOMAIN sub /\ a \in DOMAIN d
    <3> DEFINE old == d[a]
               new == sub[c]
    <3>1. old \in Node /\ new \in Node
      BY <2>6 DEF IsMessage
    <3>2. FollowsAt(d, o, a) /\ FollowsAt(sub, o, c)
      BY <1>3, <1>5, <2>6 DEF Follows
    <3>3. CollectionsFollow(old, o) /\ CollectionsFollow(new, o)
      BY <3>2 DEF FollowsAt
    <3>4. \A g \in SingularField : Desc[g].oneof = None =>
            SingularFollows(old, Members(d, a), g) /\ SingularFollows(new, Members(sub, c), g)
      BY <3>2 DEF FollowsAt
    <3>5. n[a] = MergeNode(old, new)
      BY <2>1, <2>6
    <3> HIDE DEF old, new
    <3>6. CollectionsFollow(n[a], o)
      BY <3>1, <3>3, <3>5, MergedFollows
    <3>7. ASSUME NEW g \in SingularField, Desc[g].oneof = None
          PROVE  SingularFollows(n[a], Members(n, a), g)
      <4>1. SingularFollows(old, Members(d, a), g) /\ SingularFollows(new, Members(sub, c), g)
        BY <3>4, <3>7
      <4>2. g \in MessageField =>
              (g \in Members(n, a) <=> g \in Members(d, a) \/ g \in Members(sub, c))
        BY <2>2, <2>6
      <4> HIDE DEF Members
      <4>3. SingularFollows(MergeNode(old, new), Members(n, a), g)
        BY <3>1, <3>7, <4>1, <4>2, MergedSingular
      <4> QED BY <3>5, <4>3
    <3> QED BY <1>5, <3>6, <3>7 DEF FollowsAt
  <2> QED BY <2>1, <2>4, <2>5, <2>6
<1>6. ASSUME NEW g \in MessageField
      PROVE  g \in Members(n, <<>>) <=> g \in Members(d, <<>>) \/ g = f
  <2>1. /\ Append(<<>>, g) \in Seq(MessageField) /\ Tail(Append(<<>>, g)) = <<>>
        /\ Under(f, Append(<<>>, g)) <=> g = f
    <3>1. <<>> \in Seq(MessageField)
      OBVIOUS
    <3> QED BY <1>2, <3>1
  <2> QED BY <1>1, <1>3, <2>1 DEF Members
<1> QED BY <1>4, <1>5, <1>6 DEF n, Closed, Inner

-----------------------------------------------------------------------------
(* Occurrences.                                                            *)

\* The record pushed is well formed.
LEMMA PushedIsRecord ==
  ASSUME NEW p \in Seq(AuditRecord), NEW r, Append(p, r) \in Seq(AuditRecord)
  PROVE  r \in AuditRecord /\ Append(p, r) = p \o <<r>>
<1> DEFINE S == AuditRecord \cup {r}
           q == Append(p, r)
           n == Len(p)
<1>1. p \in Seq(S) /\ r \in S
  OBVIOUS
<1> HIDE DEF S
<1>2. n \in Nat /\ Len(q) = n + 1 /\ q[n + 1] = r /\ q = p \o <<r>>
  BY <1>1
<1> HIDE DEF n
<1>3. q \in Seq(AuditRecord)
  OBVIOUS
<1> HIDE DEF q
<1>4. PICK k \in Nat : k = n + 1
  BY <1>2
<1>5. k \in 1 .. Len(q) /\ q[k] = r
  BY <1>2, <1>4
<1>6. r \in AuditRecord
  BY <1>3, <1>5, ElementOfSeq
<1> QED BY <1>2, <1>6 DEF q

\* What one record tells.
LEMMA LoneTells ==
  ASSUME NEW r \in AuditRecord
  PROVE  /\ \A f \in RepeatedField : Told(<<r>>, Keepers(f)) = RetainedBy(f, r)
         /\ Told(<<r>>, Unknowns) = UnknownEntries(r)
<1>1. ASSUME NEW f \in RepeatedField PROVE Told(<<r>>, Keepers(f)) = RetainedBy(f, r)
  <2> DEFINE g == Keepers(f)
  <2>1. g \in [AuditRecord -> Seq(Datum)]
    BY KeepersTyped, SlotShapes
  <2>2. g[r] = RetainedBy(f, r)
    BY DEF Keepers
  <2> HIDE DEF g
  <2>3. Told(<<r>>, g) = g[r]
    BY <2>1, ToldOne
  <2> QED BY <2>2, <2>3 DEF g
<1>2. Told(<<r>>, Unknowns) = UnknownEntries(r)
  <2> DEFINE g == Unknowns
  <2>1. g \in [AuditRecord -> Seq(UnknownEntry)]
    BY UnknownsTyped
  <2>2. g[r] = UnknownEntries(r)
    BY DEF Unknowns
  <2> HIDE DEF g
  <2>3. Told(<<r>>, g) = g[r]
    BY <2>1, ToldOne
  <2> QED BY <2>2, <2>3 DEF g
<1> QED BY <1>1, <1>2

\* The collections and unknown fields of new are those of n and what r adds.
AddsRecord(new, n, r, o) ==
  /\ \A f \in RepeatedField : Items(new.rep[f]) = Items(n.rep[f]) \o RetainedBy(f, r)
  /\ \A f \in MapField, k \in Scalar :
       IF r.field = f /\ r.payload[1] = k
       THEN new.map[f][k] # None /\ new.map[f][k] = r.payload[2]
       ELSE new.map[f][k] = n.map[f][k]
  /\ new.unknown = IF o.unknown_fields = "Preserve" THEN n.unknown \o UnknownEntries(r)
                   ELSE n.unknown

\* What one more record adds to what a trail tells.
LEMMA RecordAdds ==
  ASSUME NEW new, NEW n, NEW r \in AuditRecord, NEW o, AddsRecord(new, n, r, o)
  PROVE  Adds(new, n, <<r>>, o)
<1> DEFINE u == <<r>>
<1>1. /\ \A f \in RepeatedField : Told(u, Keepers(f)) = RetainedBy(f, r)
      /\ Told(u, Unknowns) = UnknownEntries(r)
  BY LoneTells
<1>2. ASSUME NEW f, NEW k
      PROVE  /\ Seen(u, f, k) # {} <=> r.field = f /\ r.payload[1] = k
             /\ Seen(u, f, k) # {} => LastSeen(u, f, k) = r
  BY LoneSeen
<1> HIDE DEF u
<1>3. Adds(new, n, u, o)
  BY <1>1, <1>2 DEF Adds, AddsRecord
<1> QED BY <1>3 DEF u

\* A node whose collections grow by what one record tells follows.
LEMMA CollectionsPushed ==
  ASSUME NEW n, NEW new, NEW o, NEW p \in Seq(AuditRecord), NEW r \in AuditRecord,
         n.audit \in Seq(AuditRecord), Retold(p, n.audit), new.audit = p \o <<r>>,
         CollectionsFollow(n, o), AddsRecord(new, n, r, o)
  PROVE  CollectionsFollow(new, o)
<1> DEFINE t == n.audit
           u == <<r>>
<1>1. Adds(new, n, u, o)
  BY RecordAdds
<1>2. t \in Seq(AuditRecord) /\ u \in Seq(AuditRecord) /\ n.audit = t /\ Retold(p, t)
      /\ new.audit = p \o u
  OBVIOUS
<1> HIDE DEF t, u
<1> QED BY <1>1, <1>2, CollectionsExtended

\* A vector with nothing added.
LEMMA ItemsEmpty ==
  ASSUME NEW n \in Node, NEW f \in RepeatedField
  PROVE  /\ Items(n.rep[f]) \in Seq(Value)
         /\ Items(n.rep[f]) \o <<>> = Items(n.rep[f])
         /\ \A xs \in Seq(Value) : Items(Items(n.rep[f]) \o xs) = Items(n.rep[f]) \o xs
<1>1. n.rep[f] \in Seq(Value) \cup {None}
  BY DEF Node
<1>2. Items(n.rep[f]) \in Seq(Value)
  BY <1>1 DEF Items
<1> DEFINE x == Items(n.rep[f])
<1>3. x \in Seq(Value)
  BY <1>2
<1> HIDE DEF x
<1>4. x \o <<>> = x
  BY <1>3, ConcatEmptySeq
<1>5. \A xs \in Seq(Value) : x \o xs \in Seq(Value) /\ x \o xs # None
  BY <1>3, ConcatProperties, ValueAssumption DEF Value
<1>6. \A xs \in Seq(Value) : Items(x \o xs) = x \o xs
  BY <1>5 DEF Items
<1> QED BY <1>2, <1>4, <1>6 DEF x

\* A record of no collection.
LEMMA PlainAdds ==
  ASSUME NEW n \in Node, NEW new, NEW o, NEW r,
         new.rep = n.rep, new.map = n.map, new.unknown = n.unknown,
         r.field \in SingularField, r.tag \notin {"UnknownField", "UnknownMessage"}
  PROVE  AddsRecord(new, n, r, o)
<1>1. r.field \notin RepeatedField /\ r.field \notin MapField
  BY SlotShapes
<1>2. UnknownEntries(r) = <<>> /\ \A f \in RepeatedField : RetainedBy(f, r) = <<>>
  BY <1>1 DEF UnknownEntries, RetainedBy
<1>3. n.unknown \o <<>> = n.unknown
  BY ConcatEmptySeq DEF Node
<1> QED BY <1>1, <1>2, <1>3, ItemsEmpty DEF AddsRecord

\* What a kept unknown field adds.
LEMMA UnknownAdds ==
  ASSUME NEW n \in Node, NEW new, NEW o, NEW r,
         new.rep = n.rep, new.map = n.map,
         new.unknown = IF o.unknown_fields = "Preserve"
                       THEN n.unknown \o <<[field |-> r.field, payload |-> r.payload]>>
                       ELSE n.unknown,
         r.field \notin MapField, r.tag \in {"UnknownField", "UnknownMessage"}
  PROVE  AddsRecord(new, n, r, o)
<1>1. UnknownEntries(r) = <<[field |-> r.field, payload |-> r.payload]>>
      /\ \A f \in RepeatedField : RetainedBy(f, r) = <<>>
  BY DEF UnknownEntries, RetainedBy
<1> QED BY <1>1, ItemsEmpty DEF AddsRecord

\* What a repeated occurrence adds.
LEMMA ElementsAdd ==
  ASSUME NEW n \in Node, NEW new, NEW o, NEW r, NEW f \in RepeatedField, NEW xs \in Seq(Value),
         r.field = f, r.tag = "SchemaField", Retained(f, r.payload) = xs,
         new.rep = [n.rep EXCEPT ![f] = Items(n.rep[f]) \o xs], new.map = n.map,
         new.unknown = IF o.unknown_fields = "Preserve"
                       THEN n.unknown \o Undeclared(f, r.payload) ELSE n.unknown
  PROVE  AddsRecord(new, n, r, o)
<1>1. f \notin MapField /\ n.rep \in [RepeatedField -> Seq(Value) \cup {None}]
  BY SlotShapes DEF Node
<1>2. UnknownEntries(r) = Undeclared(f, r.payload)
      /\ \A g \in RepeatedField : RetainedBy(g, r) = IF g = f THEN xs ELSE <<>>
  BY DEF UnknownEntries, RetainedBy
<1>3. ASSUME NEW g \in RepeatedField PROVE Items(new.rep[g]) = Items(n.rep[g]) \o RetainedBy(g, r)
  <2>1. CASE g = f
    <3>1. new.rep[f] = Items(n.rep[f]) \o xs
      BY <1>1
    <3>2. Items(Items(n.rep[f]) \o xs) = Items(n.rep[f]) \o xs
      BY ItemsEmpty
    <3> QED BY <1>2, <2>1, <3>1, <3>2
  <2>2. CASE g # f
    <3>1. new.rep[g] = n.rep[g]
      BY <1>1, <2>2
    <3>2. Items(n.rep[g]) \o <<>> = Items(n.rep[g])
      BY ItemsEmpty
    <3> QED BY <1>2, <2>2, <3>1, <3>2
  <2> QED BY <2>1, <2>2
<1> QED BY <1>1, <1>2, <1>3 DEF AddsRecord

\* What a map entry adds.
LEMMA EntryAdds ==
  ASSUME NEW n \in Node, NEW new, NEW o, NEW r, NEW f \in MapField, NEW k \in Scalar, NEW v \in Value,
         r.field = f, r.tag \notin {"UnknownField", "UnknownMessage"}, r.payload = <<k, v>>,
         new.rep = n.rep, new.map = [n.map EXCEPT ![f] = PutEntry(n.map[f], k, v)],
         new.unknown = n.unknown
  PROVE  AddsRecord(new, n, r, o)
<1>1. f \notin RepeatedField /\ n.map \in [MapField -> Entries]
  BY SlotShapes DEF Node
<1>2. UnknownEntries(r) = <<>> /\ \A g \in RepeatedField : RetainedBy(g, r) = <<>>
  BY <1>1 DEF UnknownEntries, RetainedBy
<1>3. n.unknown \o <<>> = n.unknown
  BY ConcatEmptySeq DEF Node
<1>4. v # None /\ r.payload[1] = k /\ r.payload[2] = v
  BY ValueAssumption DEF Value
<1>5. \A g \in MapField, j \in Scalar :
        new.map[g][j] = IF g = f /\ j = k THEN v ELSE n.map[g][j]
  BY <1>1 DEF PutEntry, Entries
<1> QED BY <1>2, <1>3, <1>4, <1>5, ItemsEmpty DEF AddsRecord

\* An occurrence of no singular field.
LEMMA StoredAtRoot ==
  ASSUME NEW m, IsMessage(m), NEW new, IsMessage(new), NEW r, NEW o, Follows(m, o),
         NEW p \in Seq(AuditRecord), Retold(p, m[<<>>].audit), new[<<>>].audit = Append(p, r),
         DOMAIN new = DOMAIN m, \A a \in DOMAIN m : a # <<>> => new[a] = m[a],
         new[<<>>].scalar = m[<<>>].scalar,
         r.field \notin SingularField \/ r.tag = "UnknownField",
         AddsRecord(new[<<>>], m[<<>>], r, o)
  PROVE  Follows(new, o)
<1> DEFINE n == m[<<>>]
           x == new[<<>>]
           here == Members(m, <<>>)
<1>1. n \in Node /\ x \in Node /\ n.audit \in Seq(AuditRecord) /\ x.audit \in Seq(AuditRecord)
  BY DEF IsMessage, Node
<1>2. CollectionsFollow(n, o) /\ \A f \in SingularField : SingularFollows(n, here, f)
  BY DEF Follows, FollowsAt, IsMessage
<1>3. /\ Retold(p, n.audit) /\ x.audit = Append(p, r) /\ x.scalar = n.scalar
      /\ AddsRecord(x, n, r, o)
  OBVIOUS
<1>4. Inner(m, o)
  BY DEF Follows, Inner
<1> HIDE DEF n, x, here
<1>5. r \in AuditRecord /\ x.audit = p \o <<r>>
  BY <1>1, <1>3, PushedIsRecord
<1>6. CollectionsFollow(x, o)
  BY <1>1, <1>2, <1>3, <1>5, CollectionsPushed
<1>7. \A f \in SingularField : SingularFollows(x, here, f)
  BY <1>1, <1>2, <1>3, <1>5, SlotUntouched
<1> QED BY <1>4, <1>6, <1>7, RootFollows DEF x, here

\* An occurrence of the singular field f; b has the submessages that remain.
LEMMA StoredInSlot ==
  ASSUME NEW m, IsMessage(m), NEW new, IsMessage(new), NEW r, NEW o, Follows(m, o),
         NEW p \in Seq(AuditRecord), Retold(p, m[<<>>].audit), new[<<>>].audit = Append(p, r),
         NEW b, Inner(b, o), DOMAIN new = DOMAIN b, \A a \in DOMAIN b : a # <<>> => new[a] = b[a],
         NEW f \in SingularField,
         Takes(new[<<>>], Members(b, <<>>), m[<<>>], Members(m, <<>>), r, f),
         AddsRecord(new[<<>>], m[<<>>], r, o)
  PROVE  Follows(new, o)
<1> DEFINE n == m[<<>>]
           x == new[<<>>]
           here == Members(m, <<>>)
           there == Members(b, <<>>)
<1>1. n \in Node /\ x \in Node /\ n.audit \in Seq(AuditRecord) /\ x.audit \in Seq(AuditRecord)
  BY DEF IsMessage, Node
<1>2. CollectionsFollow(n, o) /\ \A g \in SingularField : SingularFollows(n, here, g)
  BY DEF Follows, FollowsAt, IsMessage
<1>3. /\ Retold(p, n.audit) /\ x.audit = Append(p, r)
      /\ Takes(x, there, n, here, r, f) /\ AddsRecord(x, n, r, o)
  OBVIOUS
<1> HIDE DEF n, x, here, there
<1>5. r \in AuditRecord /\ x.audit = p \o <<r>>
  BY <1>1, <1>3, PushedIsRecord
<1>6. CollectionsFollow(x, o)
  BY <1>1, <1>2, <1>3, <1>5, CollectionsPushed
<1>7. \A g \in SingularField : SingularFollows(x, there, g)
  BY <1>1, <1>2, <1>3, <1>5, SlotExtended
<1> QED BY <1>6, <1>7, RootFollows DEF x, there

\* An unknown field kept is followed.
LEMMA UnknownFollows ==
  ASSUME NEW m, IsMessage(m), Follows(m, options), NEW mid, NEW tag, NEW f, NEW payload, NEW bytes,
         IsMessage(PushAudit(mid, [tag |-> tag, field |-> f, payload |-> payload, bytes |-> bytes])),
         StoresEnumValue(m, mid, tag, f, payload) \/ StoresUnknown(m, mid, tag, f, payload)
  PROVE  Follows(PushAudit(mid, [tag |-> tag, field |-> f, payload |-> payload,
                                 bytes |-> bytes]), options)
<1> DEFINE r   == [tag |-> tag, field |-> f, payload |-> payload, bytes |-> bytes]
           new == PushAudit(mid, r)
           n   == m[<<>>]
           x   == new[<<>>]
           entries == <<[field |-> f, payload |-> payload]>>
<1>1. Rooted(m) /\ n \in Node /\ n.audit \in Seq(AuditRecord)
  BY MessageRooted DEF Trail, IsMessage
<1>2. Rewrites(new, m, n.scalar, n.rep, n.map, KeptUnknown(n.unknown, entries), Append(n.audit, r))
  <2> HIDE DEF r
  <2> QED BY <1>1, UnknownWrites
<1>3. /\ x.scalar = n.scalar /\ x.rep = n.rep /\ x.map = n.map
      /\ x.unknown = KeptUnknown(n.unknown, entries) /\ x.audit = Append(n.audit, r)
      /\ DOMAIN new = DOMAIN m /\ \A a \in DOMAIN m : a # <<>> => new[a] = m[a]
  <2> HIDE DEF r, new, n, entries
  <2> QED BY <1>2 DEF Rewrites
<1>4. /\ r.field \notin SingularField \/ r.tag = "UnknownField"
      /\ r.field \notin MapField /\ r.tag \in {"UnknownField", "UnknownMessage"}
      /\ entries = <<[field |-> r.field, payload |-> r.payload]>>
  BY ValueAssumption DEF StoresEnumValue, StoresUnknown, UnknownTag, SingularField, MapField
<1>5. IsMessage(new) /\ Retold(n.audit, n.audit)
  BY SameRetold
<1> HIDE DEF r, x, entries
<1>6. AddsRecord(x, n, r, options)
  BY <1>1, <1>3, <1>4, UnknownAdds DEF KeptUnknown
<1> HIDE DEF new
<1>7. Follows(new, options)
  BY <1>1, <1>3, <1>4, <1>5, <1>6, StoredAtRoot DEF x
<1> QED BY <1>7 DEF new, r

\* What a packed loop has read.
PackedFollows(fr, o) ==
  /\ Desc[fr.via].child = None
  /\ Items(fr.msg[<<>>].rep[fr.via]) = Retained(fr.via, fr.items)
  /\ fr.msg[<<>>].unknown = IF o.unknown_fields = "Preserve" THEN Undeclared(fr.via, fr.items)
                            ELSE <<>>

\* What a one-element payload tells.
LEMMA LoneElement ==
  ASSUME NEW f \in RepeatedField, Desc[f].child = None, NEW v \in Scalar, ~ClosedUnknown(f, v)
  PROVE  Retained(f, <<v>>) = <<v>> /\ Undeclared(f, <<v>>) = <<>>
<1>1. f \in Field /\ v \in Datum
  BY SlotShapes DEF Datum, Value
<1>2. <<v>> \in Seq(Datum)
  BY <1>1
<1> DEFINE g == Elements(f)
           h == Strays(f)
<1>3. /\ g \in [Datum -> Seq(Datum)] /\ h \in [Datum -> Seq(UnknownEntry)]
      /\ Retained(f, <<v>>) = Told(<<v>>, g) /\ Undeclared(f, <<v>>) = Told(<<v>>, h)
  BY <1>1, <1>2, PayloadTold
<1>4. g[v] = <<v>> /\ h[v] = <<>>
  BY <1>1 DEF Elements, Strays
<1> HIDE DEF g, h
<1>5. Told(<<v>>, g) = g[v]
  BY <1>1, <1>3, ToldOne
<1>6. Told(<<v>>, h) = h[v]
  BY <1>1, <1>3, ToldOne
<1> QED BY <1>3, <1>4, <1>5, <1>6

\* A repeated message retains one element.
LEMMA LoneMessage ==
  ASSUME NEW f \in RepeatedField, Desc[f].child # None
  PROVE  Retained(f, <<>>) = <<Elem>> /\ Undeclared(f, <<>>) = <<>>
<1>1. f \in Field /\ <<>> \in Seq(Datum)
  BY SlotShapes
<1>2. Undeclared(f, <<>>) = Told(<<>>, Strays(f))
  BY <1>1, PayloadTold
<1> QED BY <1>2, ToldNothing DEF Retained

\* A repeated value kept is followed.
LEMMA ElementFollows ==
  ASSUME NEW m, IsMessage(m), Follows(m, options), NEW mid, NEW tag, NEW f, NEW payload, NEW bytes,
         NEW fr, IsMessage(fr.msg), fr.kind = "packed" => PackedFollows(fr, options),
         IsMessage(PushAudit(mid, [tag |-> tag, field |-> f, payload |-> payload, bytes |-> bytes])),
         \/ StoresElement(m, mid, tag, f, payload) \/ StoresMessage(m, mid, tag, f, payload)
         \/ StoresPacked(m, mid, tag, f, payload, fr)
  PROVE  Follows(PushAudit(mid, [tag |-> tag, field |-> f, payload |-> payload,
                                 bytes |-> bytes]), options)
<1> DEFINE r   == [tag |-> tag, field |-> f, payload |-> payload, bytes |-> bytes]
           new == PushAudit(mid, r)
           n   == m[<<>>]
           x   == new[<<>>]
<1>1. Rooted(m) /\ n \in Node /\ n.audit \in Seq(AuditRecord) /\ n.unknown \in Seq(UnknownEntry)
  BY MessageRooted DEF Trail, IsMessage, Node
<1>2. f \in RepeatedField /\ r.field = f /\ r.tag = "SchemaField" /\ r.payload = payload
  BY DEF StoresElement, StoresMessage, StoresPacked
<1>3. IsMessage(new) /\ Retold(n.audit, n.audit) /\ f \notin SingularField
  BY <1>2, SameRetold, SlotShapes
<1>4. Items(n.rep[f]) \in Seq(Value) /\ n.unknown \o <<>> = n.unknown
  BY <1>1, <1>2, ItemsEmpty, ConcatEmptySeq
<1>5. ASSUME NEW xs \in Seq(Value), Retained(f, payload) = xs, Undeclared(f, payload) = <<>>,
             mid = SetRep(m, f, Items(n.rep[f]) \o xs)
      PROVE  Follows(new, options)
  <2> DEFINE ys == Items(n.rep[f]) \o xs
  <2>1. Rewrites(new, m, n.scalar, [n.rep EXCEPT ![f] = ys], n.map, n.unknown, Append(n.audit, r))
    <3> HIDE DEF r
    <3> QED BY <1>1, <1>5, RepWrites
  <2>2. /\ x.scalar = n.scalar /\ x.rep = [n.rep EXCEPT ![f] = ys] /\ x.map = n.map
        /\ x.unknown = n.unknown /\ x.audit = Append(n.audit, r)
        /\ DOMAIN new = DOMAIN m /\ \A a \in DOMAIN m : a # <<>> => new[a] = m[a]
    <3> HIDE DEF r, new, n, ys
    <3> QED BY <2>1 DEF Rewrites
  <2> HIDE DEF r, x
  <2>3. AddsRecord(x, n, r, options)
    BY <1>1, <1>2, <1>4, <1>5, <2>2, ElementsAdd
  <2> HIDE DEF new
  <2> QED BY <1>1, <1>2, <1>3, <2>2, <2>3, StoredAtRoot DEF x
<1>6. ASSUME StoresElement(m, mid, tag, f, payload) PROVE Follows(new, options)
  <2>1. PICK v \in Scalar : /\ ~ClosedUnknown(f, v) /\ payload = <<v>> /\ Desc[f].child = None
                            /\ mid = SetRep(m, f, Append(Items(n.rep[f]), v))
    BY <1>6 DEF StoresElement
  <2>2. Retained(f, payload) = <<v>> /\ Undeclared(f, payload) = <<>>
    BY <1>2, <2>1, LoneElement
  <2>3. <<v>> \in Seq(Value) /\ Append(Items(n.rep[f]), v) = Items(n.rep[f]) \o <<v>>
    BY <1>4 DEF Value
  <2> HIDE DEF n, new
  <2> QED BY <1>5, <2>1, <2>2, <2>3
<1>7. ASSUME StoresMessage(m, mid, tag, f, payload) PROVE Follows(new, options)
  <2>1. /\ payload = <<>> /\ Desc[f].child # None
        /\ mid = SetRep(m, f, Append(Items(n.rep[f]), Elem))
    BY <1>7 DEF StoresMessage
  <2>2. Retained(f, payload) = <<Elem>> /\ Undeclared(f, payload) = <<>>
    BY <1>2, <2>1, LoneMessage
  <2>3. <<Elem>> \in Seq(Value) /\ Append(Items(n.rep[f]), Elem) = Items(n.rep[f]) \o <<Elem>>
    BY <1>4 DEF Value
  <2> HIDE DEF n, new
  <2> QED BY <1>5, <2>1, <2>2, <2>3
<1>8. ASSUME StoresPacked(m, mid, tag, f, payload, fr) PROVE Follows(new, options)
  <2> DEFINE xs == Items(fr.msg[<<>>].rep[f])
             us == fr.msg[<<>>].unknown
             ys == Items(n.rep[f]) \o xs
  <2>1. /\ fr.kind = "packed" /\ f = fr.via /\ payload = fr.items
        /\ mid = SetRep(PushUnknown(m, us), f, ys)
    BY <1>8 DEF StoresPacked
  <2>2. Retained(f, payload) = xs
        /\ us = IF options.unknown_fields = "Preserve" THEN Undeclared(f, payload) ELSE <<>>
    BY <2>1 DEF PackedFollows
  <2>3. xs \in Seq(Value)
    BY <1>2, ItemsEmpty DEF IsMessage
  <2>4. Rewrites(new, m, n.scalar, [n.rep EXCEPT ![f] = ys], n.map, n.unknown \o us,
                 Append(n.audit, r))
    <3> HIDE DEF r, us, ys
    <3> QED BY <1>1, <2>1, PackedWrites
  <2>5. /\ x.scalar = n.scalar /\ x.rep = [n.rep EXCEPT ![f] = ys] /\ x.map = n.map
        /\ x.unknown = n.unknown \o us /\ x.audit = Append(n.audit, r)
        /\ DOMAIN new = DOMAIN m /\ \A a \in DOMAIN m : a # <<>> => new[a] = m[a]
    <3> HIDE DEF r, new, n, ys, us
    <3> QED BY <2>4 DEF Rewrites
  <2>6. x.unknown = IF options.unknown_fields = "Preserve" THEN n.unknown \o Undeclared(f, payload)
                    ELSE n.unknown
    <3> HIDE DEF x, n, us
    <3> QED BY <1>4, <2>2, <2>5
  <2> HIDE DEF r, x, us, xs
  <2>7. AddsRecord(x, n, r, options)
    BY <1>1, <1>2, <2>2, <2>3, <2>5, <2>6, ElementsAdd
  <2> HIDE DEF new
  <2> QED BY <1>1, <1>2, <1>3, <2>5, <2>7, StoredAtRoot DEF x
<1> HIDE DEF new, r
<1>9. Follows(new, options)
  BY <1>6, <1>7, <1>8
<1> QED BY <1>9 DEF new, r

\* A map entry kept is followed.
LEMMA EntryFollows ==
  ASSUME NEW m, IsMessage(m), Follows(m, options), NEW mid, NEW tag, NEW f, NEW payload, NEW bytes,
         IsMessage(PushAudit(mid, [tag |-> tag, field |-> f, payload |-> payload, bytes |-> bytes])),
         StoresEntry(m, mid, tag, f, payload)
  PROVE  Follows(PushAudit(mid, [tag |-> tag, field |-> f, payload |-> payload,
                                 bytes |-> bytes]), options)
<1> DEFINE r   == [tag |-> tag, field |-> f, payload |-> payload, bytes |-> bytes]
           new == PushAudit(mid, r)
           n   == m[<<>>]
           x   == new[<<>>]
<1>1. Rooted(m) /\ n \in Node /\ n.audit \in Seq(AuditRecord)
  BY MessageRooted DEF Trail, IsMessage
<1>2. f \in MapField /\ f \notin SingularField
  BY SlotShapes DEF StoresEntry
<1>3. PICK k \in Scalar, v \in Value :
        /\ payload = <<k, v>> /\ tag = OccurrenceTag(k \in Keys(n.map[f]), FALSE)
        /\ mid = DemoteDisplaced(SetMap(m, f, PutEntry(n.map[f], k, v)), f,
                                 k \in Keys(n.map[f]), FALSE)
  BY DEF StoresEntry
<1> DEFINE duplicate == k \in Keys(n.map[f])
           p == Prepared(n.audit, f, duplicate)
           entries == PutEntry(n.map[f], k, v)
<1>4. /\ r.field = f /\ r.payload = <<k, v>>
      /\ r.tag \notin {"UnknownField", "UnknownMessage"}
  BY <1>3 DEF OccurrenceTag
<1>5. p \in Seq(AuditRecord) /\ Retold(p, n.audit)
  <2> HIDE DEF duplicate, n
  <2> QED BY <1>1, <1>2, PreparedRetold
<1>6. Rewrites(new, m, n.scalar, n.rep, [n.map EXCEPT ![f] = entries], n.unknown, Append(p, r))
  <2> HIDE DEF r, entries
  <2>1. mid = DemoteDisplaced(SetMap(m, f, entries), f, duplicate, FALSE)
    BY <1>3 DEF entries
  <2> HIDE DEF duplicate
  <2> QED BY <1>1, <2>1, EntryWrites
<1>7. /\ x.scalar = n.scalar /\ x.rep = n.rep /\ x.map = [n.map EXCEPT ![f] = entries]
      /\ x.unknown = n.unknown /\ x.audit = Append(p, r)
      /\ DOMAIN new = DOMAIN m /\ \A a \in DOMAIN m : a # <<>> => new[a] = m[a]
  <2> HIDE DEF r, new, n, entries, p
  <2> QED BY <1>6 DEF Rewrites
<1>8. IsMessage(new)
  OBVIOUS
<1> HIDE DEF r, x, p
<1>9. AddsRecord(x, n, r, options)
  BY <1>1, <1>2, <1>4, <1>7, EntryAdds
<1> HIDE DEF new
<1>10. Follows(new, options)
  BY <1>1, <1>2, <1>4, <1>5, <1>7, <1>8, <1>9, StoredAtRoot DEF x
<1> QED BY <1>10 DEF new, r

\* A singular value kept is followed.
LEMMA ScalarFollows ==
  ASSUME NEW m, IsMessage(m), Follows(m, options), NEW mid, NEW tag, NEW f, NEW payload, NEW bytes,
         IsMessage(PushAudit(mid, [tag |-> tag, field |-> f, payload |-> payload, bytes |-> bytes])),
         StoresScalar(m, mid, tag, f, payload)
  PROVE  Follows(PushAudit(mid, [tag |-> tag, field |-> f, payload |-> payload,
                                 bytes |-> bytes]), options)
<1> DEFINE r   == [tag |-> tag, field |-> f, payload |-> payload, bytes |-> bytes]
           new == PushAudit(mid, r)
           n   == m[<<>>]
           x   == new[<<>>]
           b   == Displace(m, f)
           duplicate == Duplicate(m, f)
           p == Prepared(n.audit, f, duplicate)
<1>1. Rooted(m) /\ n \in Node /\ n.audit \in Seq(AuditRecord)
  BY MessageRooted DEF Trail, IsMessage
<1>2. f \in ScalarField /\ f \in SingularField /\ f \in Field /\ f \notin MessageField
  BY SlotShapes DEF StoresScalar, MessageField
<1>3. PICK v \in Scalar :
        /\ payload = <<v>> /\ tag = OccurrenceTag(duplicate, FALSE)
        /\ mid = DemoteDisplaced(SetScalar(b, f, v), f, duplicate, FALSE)
  BY DEF StoresScalar
<1>4. /\ r.field = f /\ r.payload[1] = v /\ v # None
      /\ r.tag \notin {"UnknownField", "UnknownMessage"}
  BY <1>3, ValueAssumption DEF OccurrenceTag
<1>5. p \in Seq(AuditRecord) /\ Retold(p, n.audit)
  <2> HIDE DEF duplicate, n
  <2> QED BY <1>1, <1>2, PreparedRetold
<1>6. Rewrites(new, b, [Displaced(n.scalar, f) EXCEPT ![f] = v], n.rep, n.map, n.unknown,
               Append(p, r))
  <2> HIDE DEF r, duplicate
  <2> QED BY <1>1, <1>3, ScalarWrites
<1>7. /\ x.scalar = [Displaced(n.scalar, f) EXCEPT ![f] = v] /\ x.rep = n.rep /\ x.map = n.map
      /\ x.unknown = n.unknown /\ x.audit = Append(p, r)
      /\ DOMAIN new = DOMAIN b /\ \A a \in DOMAIN b : a # <<>> => new[a] = b[a]
  <2> HIDE DEF r, new, n, b, p
  <2> QED BY <1>6 DEF Rewrites
<1>8. IsMessage(new)
  OBVIOUS
<1>9. Inner(b, options)
      /\ \A g \in MessageField : g \in Members(b, <<>>) <=>
                                   g \in Members(m, <<>>) /\ g \notin Siblings(f)
  BY <1>2, DisplacedFollow
<1>10. \A g \in ScalarField : x.scalar[g] = IF g = f THEN v ELSE IF g \in Siblings(f) THEN None
                                            ELSE n.scalar[g]
  <2> HIDE DEF x, n
  <2> QED BY <1>2, <1>7 DEF Displaced
<1> HIDE DEF r, x, p, b
<1>11. AddsRecord(x, n, r, options)
  BY <1>1, <1>2, <1>4, <1>7, PlainAdds
<1>12. Takes(x, Members(b, <<>>), n, Members(m, <<>>), r, f)
  BY <1>2, <1>4, <1>9, <1>10 DEF Takes, Slot, Siblings
<1> HIDE DEF new
<1>13. Follows(new, options)
  BY <1>2, <1>5, <1>7, <1>8, <1>9, <1>11, <1>12, StoredInSlot DEF x
<1> QED BY <1>13 DEF new, r

\* A submessage kept, merged or not, is followed.
LEMMA SubmessageFollows ==
  ASSUME NEW m, IsMessage(m), Follows(m, options), NEW mid, NEW tag, NEW f, NEW payload, NEW bytes,
         NEW fr, IsMessage(fr.msg), fr.kind # "packed" => Follows(fr.msg, options),
         IsMessage(PushAudit(mid, [tag |-> tag, field |-> f, payload |-> payload, bytes |-> bytes])),
         StoresSubmessage(m, mid, tag, f, payload, fr)
  PROVE  Follows(PushAudit(mid, [tag |-> tag, field |-> f, payload |-> payload,
                                 bytes |-> bytes]), options)
<1> DEFINE r   == [tag |-> tag, field |-> f, payload |-> payload, bytes |-> bytes]
           new == PushAudit(mid, r)
           n   == m[<<>>]
           x   == new[<<>>]
           d   == Displace(m, f)
           b   == MergeMessage(d, f, fr.msg)
           duplicate == Duplicate(m, f)
<1>1. Rooted(m) /\ n \in Node /\ n.audit \in Seq(AuditRecord)
  BY MessageRooted DEF Trail, IsMessage
<1>2. f \in MessageField /\ f \in SingularField /\ f \in Field /\ f \notin ScalarField
  BY SlotShapes DEF StoresSubmessage
<1>3. /\ fr.kind = "message" /\ tag = OccurrenceTag(duplicate, duplicate)
      /\ mid = DemoteDisplaced(b, f, duplicate, duplicate)
  BY DEF StoresSubmessage
<1>4. r.field = f /\ r.tag \notin {"UnknownField", "UnknownMessage"}
  BY <1>3 DEF OccurrenceTag
<1>5. Retold(n.audit, n.audit)
  BY SameRetold
<1>6. Rewrites(new, b, Displaced(n.scalar, f), n.rep, n.map, n.unknown, Append(n.audit, r))
  <2> HIDE DEF r, duplicate
  <2> QED BY <1>1, <1>3, SubmessageWrites
<1>7. /\ x.scalar = Displaced(n.scalar, f) /\ x.rep = n.rep /\ x.map = n.map
      /\ x.unknown = n.unknown /\ x.audit = Append(n.audit, r)
      /\ DOMAIN new = DOMAIN b /\ \A a \in DOMAIN b : a # <<>> => new[a] = b[a]
  <2> HIDE DEF r, new, n, b
  <2> QED BY <1>6 DEF Rewrites
<1>8. IsMessage(new)
  OBVIOUS
<1>9. IsMessage(d) /\ Inner(d, options)
      /\ \A g \in MessageField : g \in Members(d, <<>>) <=>
                                   g \in Members(m, <<>>) /\ g \notin Siblings(f)
  BY <1>2, DisplacedFollow, DisplaceParts
<1>10. \A g \in ScalarField : x.scalar[g] = IF g \in Siblings(f) THEN None ELSE n.scalar[g]
  <2> HIDE DEF x, n
  <2> QED BY <1>7 DEF Displaced
<1> HIDE DEF r, x, d
<1>11. Inner(b, options)
       /\ \A g \in MessageField : g \in Members(b, <<>>) <=> g \in Members(d, <<>>) \/ g = f
  BY <1>2, <1>3, <1>9, MergedTree
<1> HIDE DEF b
<1>12. AddsRecord(x, n, r, options)
  BY <1>1, <1>2, <1>4, <1>7, PlainAdds
<1>13. Takes(x, Members(b, <<>>), n, Members(m, <<>>), r, f)
  BY <1>2, <1>4, <1>9, <1>10, <1>11 DEF Takes, Slot, Siblings
<1> HIDE DEF new
<1>14. Follows(new, options)
  BY <1>1, <1>2, <1>5, <1>7, <1>8, <1>11, <1>12, <1>13, StoredInSlot DEF x
<1> QED BY <1>14 DEF new, r

-----------------------------------------------------------------------------
(* Activations.                                                            *)

FrameFollows(fr, o) ==
  IF fr.kind = "packed" THEN PackedFollows(fr, o) ELSE Follows(fr.msg, o)

FollowInv == \A i \in DOMAIN stack : FrameFollows(stack[i], options)

\* No step changes the options of the call.
LEMMA OptionsKept ==
  ASSUME [Next]_vars
  PROVE  options' = options
<1>1. ASSUME NEW x, NEW y, NEW tag, NEW f, NEW payload, NEW size, NEW counted,
             Commit(x, y, tag, f, payload, size, counted)
      PROVE  options' = options
  BY <1>1 DEF Commit, Fail
<1>2. ASSUME NEW x, Advance(x) PROVE options' = options
  BY <1>2 DEF Advance
<1>3. ASSUME Fail PROVE options' = options
  BY <1>3 DEF Fail
<1>4. ASSUME NEW x, NEW y, NEW wire, NEW size, NEW counted, CommitUnknown(x, y, wire, size, counted)
      PROVE  options' = options
  BY <1>1, <1>3, <1>4 DEF CommitUnknown
<1>5. ASSUME NEW type, NEW n, Decode(type, n) PROVE options' = options
  BY <1>3, <1>5 DEF Decode
<1>6. CASE CountField \/ Malformed \/ Unterminated
  BY <1>3, <1>6 DEF CountField, Malformed, Unterminated
<1>7. ASSUME NEW f, NEW v, UnknownEnumValue(f, v) \/ SingularScalar(f, v) \/ UnpackedElement(f, v)
      PROVE  options' = options
  BY <1>1, <1>3, <1>7 DEF UnknownEnumValue, SingularScalar, UnpackedElement
<1>8. ASSUME NEW f, NEW n, BeginPacked(f, n) \/ BeginMessage(f, n) \/ BeginEntry(f, n)
      PROVE  options' = options
  BY <1>2, <1>3, <1>8 DEF BeginPacked, BeginMessage, BeginEntry
<1>9. ASSUME NEW v, PackedElement(v) \/ EntryKey(v) \/ EntryScalar(v) PROVE options' = options
  BY <1>2, <1>3, <1>9 DEF PackedElement, EntryKey, EntryScalar
<1>10. CASE EndPacked \/ EndSubmessage \/ EndElement \/ EndRoot \/ EndEntryMessage \/ EndEntry
  BY <1>1, <1>3, <1>10 DEF EndPacked, EndSubmessage, EndElement, EndRoot, EndEntryMessage, EndEntry
<1>11. ASSUME NEW wire, NEW n, Skip(wire, n) PROVE options' = options
  BY <1>2, <1>4, <1>11 DEF Skip
<1>12. ASSUME NEW n, BeginEntryMessage(n) \/ SkipBytes(n) PROVE options' = options
  BY <1>2, <1>3, <1>11, <1>12 DEF BeginEntryMessage, SkipBytes
<1>13. CASE SkipScalar \/ BeginGroup \/ EndGroup
  BY <1>2, <1>3, <1>4, <1>11, <1>13 DEF SkipScalar, BeginGroup, EndGroup
<1>14. CASE Terminated \/ UNCHANGED vars
  BY <1>14 DEF Terminated, vars
<1> QED BY <1>5, <1>6, <1>7, <1>8, <1>9, <1>10, <1>12, <1>13, <1>14 DEF Next

\* One record more tells what it tells at the end.
LEMMA ToldPushed ==
  ASSUME NEW R, NEW S, NEW g \in [R -> Seq(S)], NEW t \in Seq(R), NEW v \in R
  PROVE  Told(t \o <<v>>, g) = Told(t, g) \o g[v]
<1> DEFINE u == <<v>>
<1>1. u \in Seq(R)
  OBVIOUS
<1>2. Told(u, g) = g[v]
  BY ToldOne
<1> HIDE DEF u
<1>3. Told(t \o u, g) = Told(t, g) \o Told(u, g)
  BY <1>1, ToldConcat
<1> QED BY <1>2, <1>3 DEF u

\* A packed element: one more of the payload, kept or sent to the unknown fields.
LEMMA ReadFollows ==
  ASSUME NEW old, IsMessage(old.msg), PackedFollows(old, options),
         old.via \in RepeatedField, old.items \in Seq(Scalar),
         NEW fr, fr.kind = old.kind, fr.via = old.via, ReadsElement(fr, old)
  PROVE  PackedFollows(fr, options)
<1> DEFINE m  == old.msg
           n  == m[<<>>]
           f  == old.via
           t  == old.items
           x  == fr.msg[<<>>]
<1>1. Rooted(m) /\ n \in Node /\ n.unknown \in Seq(UnknownEntry) /\ f \in Field /\ f \in RepeatedField
      /\ Desc[f].child = None
  BY MessageRooted, SlotShapes DEF IsMessage, Node, PackedFollows
<1>2. PICK v \in Scalar :
        /\ fr.items = Append(t, v)
        /\ fr.msg = IF ClosedUnknown(f, v)
                    THEN KeepUnknown(m, <<[field |-> f, payload |-> <<v>>]>>)
                    ELSE SetRep(m, f, Append(Items(n.rep[f]), v))
  BY DEF ReadsElement
<1>3. v \in Datum /\ t \in Seq(Datum) /\ <<v>> \in Seq(Datum) /\ fr.items = t \o <<v>>
      /\ t \o <<v>> \in Seq(Datum)
  <2>1. v \in Datum /\ t \in Seq(Datum)
    BY DEF Datum, Value
  <2>2. fr.items = Append(t, v)
    BY <1>2
  <2> HIDE DEF t
  <2>3. <<v>> \in Seq(Datum) /\ Append(t, v) = t \o <<v>> /\ t \o <<v>> \in Seq(Datum)
    BY <2>1
  <2> QED BY <2>1, <2>2, <2>3
<1>4. /\ Items(n.rep[f]) = Retained(f, t)
      /\ n.unknown = IF options.unknown_fields = "Preserve" THEN Undeclared(f, t) ELSE <<>>
  BY DEF PackedFollows
<1> DEFINE g == Elements(f)
           h == Strays(f)
<1>5. /\ g \in [Datum -> Seq(Datum)] /\ h \in [Datum -> Seq(UnknownEntry)]
      /\ Retained(f, t) = Told(t, g) /\ Undeclared(f, t) = Told(t, h)
      /\ Retained(f, t \o <<v>>) = Told(t \o <<v>>, g) /\ Undeclared(f, t \o <<v>>) = Told(t \o <<v>>, h)
      /\ Told(t, g) \in Seq(Datum) /\ Told(t, h) \in Seq(UnknownEntry)
  BY <1>1, <1>3, PayloadTold
<1>6. /\ g[v] = IF ClosedUnknown(f, v) THEN <<>> ELSE <<v>>
      /\ h[v] = IF ClosedUnknown(f, v) THEN <<[field |-> f, payload |-> <<v>>]>> ELSE <<>>
  BY <1>3 DEF Elements, Strays
<1> HIDE DEF g, h, t
<1>7. Told(t \o <<v>>, g) = Told(t, g) \o g[v] /\ Told(t \o <<v>>, h) = Told(t, h) \o h[v]
  <2>1. t \in Seq(Datum) /\ v \in Datum /\ g \in [Datum -> Seq(Datum)]
        /\ h \in [Datum -> Seq(UnknownEntry)]
    BY <1>3, <1>5
  <2>2. Told(t \o <<v>>, g) = Told(t, g) \o g[v]
    BY <2>1, ToldPushed
  <2>3. Told(t \o <<v>>, h) = Told(t, h) \o h[v]
    BY <2>1, ToldPushed
  <2> QED BY <2>2, <2>3
<1>9. Told(t, g) \o <<>> = Told(t, g) /\ Told(t, h) \o <<>> = Told(t, h)
  BY <1>5, ConcatEmptySeq
<1>10. Rewrites(m, m, n.scalar, n.rep, n.map, n.unknown, n.audit)
  BY <1>1, NothingWritten
<1>11. CASE ClosedUnknown(f, v)
  <2> DEFINE entries == <<[field |-> f, payload |-> <<v>>]>>
  <2>1. fr.msg = KeepUnknown(m, entries)
    BY <1>2, <1>11
  <2> HIDE DEF entries, m, n
  <2>2. Rewrites(KeepUnknown(m, entries), m, n.scalar, n.rep, n.map, KeptUnknown(n.unknown, entries),
                 n.audit)
    BY <1>10, PolicyWrites
  <2>3. x.rep = n.rep /\ x.unknown = KeptUnknown(n.unknown, entries)
    BY <2>1, <2>2 DEF Rewrites
  <2>4. Items(x.rep[f]) = Retained(f, fr.items)
    BY <1>3, <1>4, <1>5, <1>6, <1>7, <1>9, <1>11, <2>3
  <2>5. x.unknown = IF options.unknown_fields = "Preserve" THEN Undeclared(f, fr.items) ELSE <<>>
    BY <1>3, <1>4, <1>5, <1>6, <1>7, <1>11, <2>3 DEF KeptUnknown, entries
  <2> QED BY <1>1, <2>4, <2>5 DEF PackedFollows
<1>12. CASE ~ClosedUnknown(f, v)
  <2> DEFINE xs == Items(n.rep[f]) \o <<v>>
  <2>1. /\ Items(n.rep[f]) \in Seq(Value) /\ <<v>> \in Seq(Value)
        /\ Append(Items(n.rep[f]), v) = xs /\ Items(xs) = xs
    <3>1. Items(n.rep[f]) \in Seq(Value) /\ v \in Value /\ <<v>> \in Seq(Value)
      BY <1>1, ItemsEmpty DEF Value
    <3>2. Append(Items(n.rep[f]), v) = xs
      <4> HIDE DEF n
      <4> QED BY <3>1
    <3> QED BY <1>1, <3>1, <3>2, ItemsEmpty
  <2>2. fr.msg = SetRep(m, f, xs)
    BY <1>2, <1>12, <2>1
  <2> HIDE DEF m, xs
  <2>3. Rewrites(SetRep(m, f, xs), m, n.scalar, [n.rep EXCEPT ![f] = xs], n.map, n.unknown, n.audit)
    <3> HIDE DEF n
    <3> QED BY <1>10, RootWrites
  <2>4. x.rep = [n.rep EXCEPT ![f] = xs] /\ x.unknown = n.unknown
    <3> HIDE DEF n
    <3> QED BY <2>2, <2>3 DEF Rewrites
  <2>5. x.rep[f] = xs
    BY <1>1, <2>4 DEF Node
  <2> HIDE DEF n
  <2>6. Items(x.rep[f]) = Retained(f, fr.items)
    BY <1>3, <1>4, <1>5, <1>6, <1>7, <1>12, <2>1, <2>5 DEF xs
  <2>7. x.unknown = IF options.unknown_fields = "Preserve" THEN Undeclared(f, fr.items) ELSE <<>>
    BY <1>3, <1>4, <1>5, <1>6, <1>7, <1>9, <1>12, <2>4
  <2> QED BY <1>1, <2>6, <2>7 DEF PackedFollows
<1> QED BY <1>11, <1>12

\* A fresh activation follows.
LEMMA FreshFollows ==
  ASSUME NEW fr, Fresh(fr), fr.kind = "packed" => fr.via \in RepeatedField, NEW o
  PROVE  FrameFollows(fr, o)
<1>1. CASE fr.kind = "packed"
  <2> DEFINE f == fr.via
  <2>1. f \in RepeatedField /\ f \in Field /\ Desc[f].child = None /\ <<>> \in Seq(Datum)
    BY <1>1, SlotShapes DEF Fresh
  <2> HIDE DEF f
  <2>2. Retained(f, <<>>) = Told(<<>>, Elements(f)) /\ Undeclared(f, <<>>) = Told(<<>>, Strays(f))
    BY <2>1, PayloadTold
  <2>3. Retained(f, <<>>) = <<>> /\ Undeclared(f, <<>>) = <<>>
    BY <2>2, ToldNothing
  <2>4. New[<<>>].unknown = <<>> /\ Items(New[<<>>].rep[f]) = <<>>
    BY <2>1 DEF New, EmptyNode, Items
  <2> QED BY <1>1, <2>1, <2>3, <2>4 DEF FrameFollows, PackedFollows, Fresh, f
<1>2. CASE fr.kind # "packed"
  BY <1>2, NewFollows DEF FrameFollows, Fresh
<1> QED BY <1>1, <1>2

\* An activation that stores an occurrence follows.
LEMMA StoredFollows ==
  ASSUME Inv, FollowInv, NEW k \in 1 .. Len(stack), Follows(stack[k].msg, options),
         NEW mid, NEW tag, NEW f, NEW payload, NEW bytes, Stores(k, mid, tag, f, payload),
         IsMessage(PushAudit(mid, [tag |-> tag, field |-> f, payload |-> payload, bytes |-> bytes]))
  PROVE  Follows(PushAudit(mid, [tag |-> tag, field |-> f, payload |-> payload,
                                 bytes |-> bytes]), options)
<1> DEFINE m == stack[k].msg
           fr == stack[k + 1]
<1>1. IsMessage(m) /\ Follows(m, options)
  BY Activations
<1>2. CASE StoresAlone(m, mid, tag, f, payload)
  <2>1. \E callee : IsMessage(callee.msg) /\ callee.kind # "packed"
    <3>1. IsMessage([msg |-> m, kind |-> "message"].msg) /\ [msg |-> m, kind |-> "message"].kind # "packed"
      BY <1>1
    <3> QED BY <3>1
  <2> HIDE DEF m
  <2> QED BY <1>1, <1>2, <2>1, UnknownFollows, ElementFollows, ScalarFollows, EntryFollows
          DEF StoresAlone
<1>3. ASSUME k + 1 \in 1 .. Len(stack),
             \/ StoresPacked(m, mid, tag, f, payload, fr)
             \/ StoresSubmessage(m, mid, tag, f, payload, fr)
      PROVE  Follows(PushAudit(mid, [tag |-> tag, field |-> f, payload |-> payload,
                                     bytes |-> bytes]), options)
  <2>1. IsMessage(fr.msg) /\ FrameFollows(fr, options)
    BY <1>3, Activations DEF FollowInv
  <2>2. /\ fr.kind = "packed" => PackedFollows(fr, options)
        /\ fr.kind # "packed" => Follows(fr.msg, options)
    BY <2>1 DEF FrameFollows
  <2> HIDE DEF m, fr
  <2> QED BY <1>1, <1>3, <2>1, <2>2, ElementFollows, SubmessageFollows
<1> QED BY <1>2, <1>3 DEF Stores

\* Every step keeps every activation following.
LEMMA StepFollows ==
  ASSUME Inv, Inv2, Inv3, Inv', FollowInv, [Next]_vars
  PROVE  FollowInv'
<1> SUFFICES ASSUME NEW i \in DOMAIN stack' PROVE FrameFollows(stack'[i], options')
  BY DEF FollowInv
<1> DEFINE fr == stack'[i]
<1>1. options' = options
  BY OptionsKept
<1>2. Fresh(fr) \/ (i \in DOMAIN stack /\ Turn(i, fr))
  BY EachMoves, EveryStepMoves
<1>3. IsMessage(fr.msg) /\ (fr.kind = "packed" => fr.via \in RepeatedField)
  <2>1. StackOK(stack', Limit')
    BY DEF Inv
  <2> DEFINE s == stack'
             l == Limit'
  <2>2. StackOK(s, l) /\ i \in DOMAIN s
    BY <2>1
  <2> HIDE DEF s, l
  <2>3. s \in Seq(Frame) /\ i \in 1 .. Len(s)
    BY <2>2 DEF StackOK
  <2>4. Sound(s[i], l)
    BY <2>2, <2>3 DEF StackOK
  <2>5. IsMessage(s[i].msg) /\ (s[i].kind = "packed" => s[i].via \in RepeatedField)
    BY <2>4 DEF Sound, Fits
  <2> QED BY <2>5 DEF s
<1> HIDE DEF fr
<1>4. CASE Fresh(fr)
  BY <1>1, <1>3, <1>4, FreshFollows DEF fr
<1>5. CASE i \in DOMAIN stack /\ Turn(i, fr)
  <2> DEFINE old == stack[i]
  <2>1. /\ i \in 1 .. Len(stack) /\ old \in Frame /\ IsMessage(old.msg)
        /\ FrameFollows(old, options)
    BY <1>5, Activations DEF FollowInv
  <2>2. fr.kind = old.kind /\ fr.via = old.via /\ old.items \in Seq(Scalar)
    BY <1>5, <2>1 DEF Turn, Frame
  <2>3. CASE fr.msg = old.msg /\ fr.items = old.items
    BY <1>1, <2>1, <2>2, <2>3 DEF FrameFollows, PackedFollows, fr
  <2>4. CASE ReadsElement(fr, old)
    <3> HIDE DEF old
    <3>1. old.kind = "packed" /\ old.via \in RepeatedField /\ PackedFollows(old, options)
      BY <1>3, <2>1, <2>2, <2>4 DEF ReadsElement, FrameFollows
    <3>2. PackedFollows(fr, options)
      BY <2>1, <2>2, <2>4, <3>1, ReadFollows
    <3> QED BY <1>1, <2>2, <3>1, <3>2 DEF FrameFollows, fr
  <2>5. ASSUME old.kind # "packed",
               \E mid, tag, f, payload :
                 /\ Stores(i, mid, tag, f, payload)
                 /\ fr.msg = PushAudit(mid, [tag |-> tag, field |-> f, payload |-> payload,
                                             bytes |-> audit_bytes' - audit_bytes])
        PROVE  FrameFollows(fr, options')
    <3>1. Follows(stack[i].msg, options)
      BY <2>1, <2>5 DEF FrameFollows
    <3>2. Follows(fr.msg, options)
      <4> DEFINE bytes == audit_bytes' - audit_bytes
      <4>1. PICK mid, tag, f, payload :
              /\ Stores(i, mid, tag, f, payload)
              /\ fr.msg = PushAudit(mid, [tag |-> tag, field |-> f, payload |-> payload,
                                          bytes |-> bytes])
        BY <2>5
      <4> HIDE DEF bytes
      <4> QED BY <1>3, <2>1, <3>1, <4>1, StoredFollows
    <3> QED BY <1>1, <2>2, <2>5, <3>2 DEF FrameFollows
  <2> QED BY <1>5, <2>3, <2>4, <2>5 DEF Turn, fr
<1> QED BY <1>2, <1>4, <1>5 DEF fr

\* Activations that follow are what the property says of the stack.
LEMMA FollowedContents ==
  ASSUME Inv, FollowInv
  PROVE  ContentsFollowHistory
<1> SUFFICES ASSUME NEW i \in MessageFrames, NEW a \in DOMAIN stack[i].msg
             PROVE  /\ FieldsFollowHistory(stack[i].msg, a)
                    /\ UnknownFollowsHistory(stack[i].msg, a)
  BY DEF ContentsFollowHistory
<1> DEFINE m == stack[i].msg
           n == m[a]
           t == n.audit
<1>1. IsMessage(m) /\ Follows(m, options)
  BY Activations DEF FollowInv, FrameFollows, MessageFrames
<1>2. n \in Node /\ t \in Seq(AuditRecord) /\ FollowsAt(m, options, a)
  BY <1>1 DEF IsMessage, Node, Follows
<1>3. /\ \A f : FlattenSeq([j \in DOMAIN t |-> RetainedBy(f, t[j])]) = Told(t, Keepers(f))
      /\ FlattenSeq([j \in DOMAIN t |-> UnknownEntries(t[j])]) = Told(t, Unknowns)
  BY <1>2, TrailTold
<1>4. CollectionsFollow(n, options)
  BY <1>2 DEF FollowsAt
<1>5. UnknownFollowsHistory(m, a)
  BY <1>3, <1>4 DEF CollectionsFollow, UnknownFollowsHistory
<1>6. \A f \in RepeatedField : RepeatedFollowsHistory(m, a, f)
  BY <1>3, <1>4 DEF CollectionsFollow, RepeatedFollowsHistory
<1>7. \A f \in MapField : MapFollowsHistory(m, a, f)
  BY <1>4 DEF CollectionsFollow, MapFollowsHistory, LastSeen
<1>8. ASSUME NEW f \in SingularField, a = <<>> \/ Desc[f].oneof = None
      PROVE  SingularFollowsHistory(m, a, f)
  <2>1. SingularFollows(n, Members(m, a), f)
    BY <1>2, <1>8 DEF FollowsAt
  <2>2. HasAt(m, a, f) <=> \/ f \in ScalarField /\ n.scalar[f] # None
                           \/ f \in MessageField /\ f \in Members(m, a)
    BY SlotShapes DEF HasAt, Members
  <2>3. f \in ScalarField \/ f \in MessageField
    BY DEF MessageField
  <2>4. f \in ScalarField => f \notin MessageField
    BY DEF MessageField
  <2> HIDE DEF m
  <2> QED BY <2>1, <2>2, <2>3, <2>4 DEF SingularFollows, SingularFollowsHistory
<1> QED BY <1>5, <1>6, <1>7, <1>8 DEF FieldsFollowHistory

\* Everything a decode retains is what the merge rules make of the occurrences
\* its trail records, except for the oneof members of merged submessages, which
\* merge_message does not displace.
THEOREM ContentsAreHistory == Spec => []ContentsFollowHistory
<1>1. Init => Inv3 /\ FollowInv
  BY DEF Init, Inv3, FollowInv
<1>2. Inv /\ Inv' /\ Inv2 /\ Inv3 /\ FollowInv /\ [Next]_vars => Inv3' /\ FollowInv'
  BY EveryStepGrows, StepFollows DEF Step, Inv3
<1>3. Inv /\ FollowInv => ContentsFollowHistory
  BY FollowedContents
<1> QED BY <1>1, <1>2, <1>3, Invariance, Retention, PTL DEF Spec
-----------------------------------------------------------------------------
(* Sums over finite sets.                                                  *)

Some(s) == CHOOSE x \in s : TRUE

\* What SumFunctionOnSet(w, s) is made of, with the sums G of smaller sets.
SumFrom(G, w, s) == IF s = {} THEN 0 ELSE w[Some(s)] + G[s \ {Some(s)}]

\* The terms of the sum over S are naturals.
Terms(w, S) == \A x \in S : w[x] \in Nat

\* G holds the sums of w over the sets of Q.
Summing(G, w, Q) == G = [s \in Q |-> SumFrom(G, w, s)]

\* The subsets of S with at most n members.
Smaller(S, n) == {s \in SUBSET S : Cardinality(s) <= n}

\* A finite nonempty set without the element the sum takes first is one smaller.
LEMMA SomeOfFinite ==
  ASSUME NEW s, IsFiniteSet(s), s # {}
  PROVE  /\ Some(s) \in s /\ IsFiniteSet(s \ {Some(s)})
         /\ Cardinality(s) \in Nat \ {0} /\ Cardinality(s \ {Some(s)}) = Cardinality(s) - 1
<1>1. Some(s) \in s
  BY DEF Some
<1>2. Cardinality(s) \in Nat /\ Cardinality(s) # 0
  BY FS_CardinalityType, FS_EmptySet
<1> QED BY <1>1, <1>2, FS_RemoveElement

\* A sum over the parts of at most n elements extends to n + 1.
LEMMA SummingLonger ==
  ASSUME NEW S, IsFiniteSet(S), NEW w, NEW n \in Nat, NEW G, Summing(G, w, Smaller(S, n))
  PROVE  \E H : Summing(H, w, Smaller(S, n + 1))
<1> DEFINE Q == Smaller(S, n)
           R == Smaller(S, n + 1)
           H == [s \in R |-> IF s \in Q THEN G[s] ELSE SumFrom(G, w, s)]
<1>1. ASSUME NEW s \in R
      PROVE  s # {} => s \ {Some(s)} \in Q /\ s \ {Some(s)} \in R
  <2> SUFFICES ASSUME s # {} PROVE s \ {Some(s)} \in Q /\ s \ {Some(s)} \in R
    OBVIOUS
  <2>1. s \in SUBSET S /\ IsFiniteSet(s) /\ Cardinality(s) <= n + 1
    BY FS_Subset DEF Smaller
  <2>2. /\ Cardinality(s) \in Nat \ {0} /\ Cardinality(s \ {Some(s)}) = Cardinality(s) - 1
    BY <2>1, SomeOfFinite
  <2>3. Cardinality(s \ {Some(s)}) <= n /\ Cardinality(s \ {Some(s)}) <= n + 1
    BY <2>1, <2>2
  <2> QED BY <2>1, <2>3 DEF Smaller
<1>2. \A s \in Q : G[s] = SumFrom(G, w, s)
  BY DEF Summing
<1> HIDE DEF Q, R
<1>3. \A s \in R : H[s] = SumFrom(G, w, s)
  BY <1>2
<1>4. \A s \in R : s \in Q => H[s] = G[s]
  OBVIOUS
<1>5. DOMAIN H = R /\ H = [s \in DOMAIN H |-> H[s]]
  OBVIOUS
<1> HIDE DEF H
<1>6. ASSUME NEW s \in R PROVE SumFrom(G, w, s) = SumFrom(H, w, s)
  BY <1>1, <1>4 DEF SumFrom
<1>7. H = [s \in R |-> SumFrom(H, w, s)]
  BY <1>3, <1>5, <1>6
<1> QED BY <1>7 DEF Summing, R

\* Every finite set has a sum over its parts.
LEMMA SummingExists ==
  ASSUME NEW S, IsFiniteSet(S), NEW w
  PROVE  \E G : Summing(G, w, SUBSET S)
<1>1. ASSUME NEW n \in Nat PROVE \E G : Summing(G, w, Smaller(S, n))
  <2> DEFINE T == {k \in Nat : ~ \E G : Summing(G, w, Smaller(S, k))}
  <2> SUFFICES ASSUME T # {} PROVE FALSE
    OBVIOUS
  <2>1. T \subseteq Nat
    OBVIOUS
  <2>2. \A k \in Nat : k \in T <=> ~ \E G : Summing(G, w, Smaller(S, k))
    OBVIOUS
  <2> HIDE DEF T
  <2>3. PICK k \in T : \A j \in T : k <= j
    BY <2>1, Least
  <2>4. k # 0
    <3> DEFINE G == [s \in Smaller(S, 0) |-> 0]
    <3>1. \A s \in Smaller(S, 0) : s = {}
      <4> TAKE s \in Smaller(S, 0)
      <4>1. s \in SUBSET S /\ IsFiniteSet(s) /\ Cardinality(s) <= 0
        BY FS_Subset DEF Smaller
      <4>2. Cardinality(s) \in Nat
        BY <4>1, FS_CardinalityType
      <4> QED BY <4>1, <4>2, FS_EmptySet
    <3>2. \A s \in Smaller(S, 0) : SumFrom(G, w, s) = 0
      BY <3>1 DEF SumFrom
    <3>3. Summing(G, w, Smaller(S, 0))
      BY <3>2 DEF Summing
    <3> QED BY <2>1, <2>2, <2>3, <3>3
  <2>5. k - 1 \in Nat /\ ~(k <= k - 1) /\ k - 1 + 1 = k
    BY <2>1, <2>3, <2>4
  <2>6. PICK G : Summing(G, w, Smaller(S, k - 1))
    BY <2>2, <2>3, <2>5
  <2>7. \E H : Summing(H, w, Smaller(S, k - 1 + 1))
    BY <2>5, <2>6, SummingLonger
  <2> QED BY <2>1, <2>2, <2>3, <2>5, <2>7
<1>2. Cardinality(S) \in Nat /\ Smaller(S, Cardinality(S)) = SUBSET S
  BY FS_CardinalityType, FS_Subset DEF Smaller
<1> QED BY <1>1, <1>2

\* Two ways to sum agree on the sets that both sum.
LEMMA SummingUnique ==
  ASSUME NEW S, IsFiniteSet(S), NEW T, NEW w, NEW G, NEW H,
         Terms(w, S),
         Summing(G, w, SUBSET S), Summing(H, w, SUBSET T),
         NEW s0 \in SUBSET S, s0 \in SUBSET T
  PROVE  G[s0] = H[s0] /\ G[s0] \in Nat
<1> DEFINE Wrong(s) == s \in SUBSET S /\ s \in SUBSET T /\ ~(G[s] = H[s] /\ G[s] \in Nat)
           N == {n \in Nat : \E s : Wrong(s) /\ n = Cardinality(s)}
<1> SUFFICES ASSUME Wrong(s0) PROVE FALSE
  OBVIOUS
<1>1. N \subseteq Nat
  OBVIOUS
<1>2. \A s : Wrong(s) => s \in SUBSET S /\ s \in SUBSET T /\ IsFiniteSet(s)
                         /\ Cardinality(s) \in N
  BY FS_Subset, FS_CardinalityType
<1>3. \A n \in N : \E s : Wrong(s) /\ n = Cardinality(s)
  OBVIOUS
<1> HIDE DEF N
<1>4. PICK n \in N : \A k \in N : n <= k
  BY <1>1, <1>2, Least
<1>5. PICK s : Wrong(s) /\ n = Cardinality(s)
  BY <1>3
<1>6. G[s] = SumFrom(G, w, s) /\ H[s] = SumFrom(H, w, s)
  BY <1>2, <1>5 DEF Summing
<1>7. CASE s = {}
  BY <1>5, <1>6, <1>7 DEF SumFrom
<1>8. CASE s # {}
  <2> DEFINE t == s \ {Some(s)}
  <2>1. Some(s) \in s /\ Cardinality(s) \in Nat \ {0} /\ Cardinality(t) = Cardinality(s) - 1
    BY <1>2, <1>5, <1>8, SomeOfFinite
  <2>2. t \in SUBSET S /\ t \in SUBSET T
    BY <1>2, <1>5
  <2>3. Cardinality(t) \notin N
    BY <1>4, <1>5, <2>1
  <2>4. ~Wrong(t)
    BY <1>2, <2>3
  <2>5. G[t] = H[t] /\ G[t] \in Nat
    BY <2>2, <2>4
  <2>6. w[Some(s)] \in Nat
    BY <1>2, <1>5, <2>1 DEF Terms
  <2>7. G[s] = w[Some(s)] + G[t] /\ H[s] = w[Some(s)] + H[t]
    BY <1>6, <1>8 DEF SumFrom
  <2>8. G[s] = H[s] /\ G[s] \in Nat
    BY <2>5, <2>6, <2>7
  <2> QED BY <1>5, <2>8
<1> QED BY <1>7, <1>8

\* The library's sum is the one over the parts.
LEMMA SumByParts ==
  ASSUME NEW S, IsFiniteSet(S), NEW w
  PROVE  \E G : Summing(G, w, SUBSET S) /\ SumFunctionOnSet(w, S) = G[S]
<1> DEFINE G == CHOOSE H : Summing(H, w, SUBSET S)
<1>1. Summing(G, w, SUBSET S)
  BY SummingExists
<1>2. SumFunctionOnSet(w, S) = G[S]
  BY DEF SumFunctionOnSet, FoldFunctionOnSet, MapThenFoldSet, Summing, SumFrom, Some
<1> HIDE DEF G
<1> QED BY <1>1, <1>2

\* A sum of naturals is a natural.
LEMMA SumTyped ==
  ASSUME NEW S, IsFiniteSet(S), NEW w, Terms(w, S)
  PROVE  SumFunctionOnSet(w, S) \in Nat
<1>1. PICK G : Summing(G, w, SUBSET S) /\ SumFunctionOnSet(w, S) = G[S]
  BY SumByParts
<1>2. S \in SUBSET S
  OBVIOUS
<1>3. G[S] \in Nat
  BY <1>1, <1>2, SummingUnique
<1> QED BY <1>1, <1>3

\* Nothing sums to zero.
LEMMA SumNothing ==
  ASSUME NEW w
  PROVE  SumFunctionOnSet(w, {}) = 0
<1>1. PICK G : Summing(G, w, SUBSET {}) /\ SumFunctionOnSet(w, {}) = G[{}]
  BY SumByParts, FS_EmptySet
<1>2. {} \in SUBSET {}
  OBVIOUS
<1> QED BY <1>1, <1>2 DEF Summing, SumFrom

\* A sum is one of its terms and the sum of the others.
LEMMA SumSome ==
  ASSUME NEW S, IsFiniteSet(S), S # {}, NEW w, Terms(w, S)
  PROVE  SumFunctionOnSet(w, S) = w[Some(S)] + SumFunctionOnSet(w, S \ {Some(S)})
<1> DEFINE T == S \ {Some(S)}
<1>1. IsFiniteSet(T) /\ T \in SUBSET T /\ T \in SUBSET S /\ S \in SUBSET S
  BY SomeOfFinite
<1> HIDE DEF T
<1>2. PICK G : Summing(G, w, SUBSET S) /\ SumFunctionOnSet(w, S) = G[S]
  BY SumByParts
<1>3. PICK H : Summing(H, w, SUBSET T) /\ SumFunctionOnSet(w, T) = H[T]
  BY <1>1, SumByParts
<1>5. G[T] = H[T]
  BY <1>1, <1>2, <1>3, SummingUnique
<1>6. G[S] = w[Some(S)] + G[T]
  BY <1>1, <1>2 DEF Summing, SumFrom, T
<1> QED BY <1>2, <1>3, <1>5, <1>6 DEF T

\* Any member can be set apart.
LEMMA SumWithout ==
  ASSUME NEW S, IsFiniteSet(S), NEW w, Terms(w, S), NEW y \in S
  PROVE  SumFunctionOnSet(w, S) = w[y] + SumFunctionOnSet(w, S \ {y})
<1> DEFINE Wrong(s) == /\ s \in SUBSET S
                       /\ \E z \in s : SumFunctionOnSet(w, s) # w[z] + SumFunctionOnSet(w, s \ {z})
           N == {n \in Nat : \E s : Wrong(s) /\ n = Cardinality(s)}
<1> SUFFICES ASSUME Wrong(S) PROVE FALSE
  OBVIOUS
<1>1. N \subseteq Nat
  OBVIOUS
<1>2. \A s : Wrong(s) => s \in SUBSET S /\ IsFiniteSet(s) /\ Cardinality(s) \in N
  BY FS_Subset, FS_CardinalityType
<1>3. \A n \in N : \E s : Wrong(s) /\ n = Cardinality(s)
  OBVIOUS
<1> HIDE DEF N
<1>4. PICK n \in N : \A k \in N : n <= k
  BY <1>1, <1>2, Least
<1>5. PICK s : Wrong(s) /\ n = Cardinality(s)
  BY <1>3
<1>6. PICK z \in s : SumFunctionOnSet(w, s) # w[z] + SumFunctionOnSet(w, s \ {z})
  BY <1>5
<1>7. IsFiniteSet(s) /\ s # {} /\ s \in SUBSET S /\ Terms(w, s)
  BY <1>2, <1>5, <1>6 DEF Terms
<1> DEFINE x == Some(s)
<1>8. /\ x \in s /\ Cardinality(s) \in Nat
      /\ SumFunctionOnSet(w, s) = w[x] + SumFunctionOnSet(w, s \ {x})
  BY <1>7, SumSome, SomeOfFinite
<1> HIDE DEF x
<1>9. z # x
  BY <1>6, <1>8
<1>10. ASSUME NEW v \in s, NEW u \in s \ {v}
       PROVE  SumFunctionOnSet(w, s \ {v}) = w[u] + SumFunctionOnSet(w, (s \ {v}) \ {u})
  <2>1. IsFiniteSet(s \ {v}) /\ Cardinality(s \ {v}) = Cardinality(s) - 1
        /\ s \ {v} \in SUBSET S
    BY <1>7, FS_RemoveElement
  <2>2. Cardinality(s \ {v}) \notin N
    BY <1>4, <1>5, <1>8, <2>1
  <2>3. ~Wrong(s \ {v})
    BY <1>2, <2>2
  <2> QED BY <2>1, <2>3
<1>11. /\ SumFunctionOnSet(w, s \ {x}) = w[z] + SumFunctionOnSet(w, (s \ {x}) \ {z})
       /\ SumFunctionOnSet(w, s \ {z}) = w[x] + SumFunctionOnSet(w, (s \ {z}) \ {x})
  BY <1>8, <1>9, <1>10
<1>12. (s \ {z}) \ {x} = (s \ {x}) \ {z}
  OBVIOUS
<1>13. SumFunctionOnSet(w, (s \ {x}) \ {z}) \in Nat /\ w[x] \in Nat /\ w[z] \in Nat
  <2>1. IsFiniteSet((s \ {x}) \ {z}) /\ Terms(w, (s \ {x}) \ {z})
    BY <1>7, FS_RemoveElement DEF Terms
  <2>2. SumFunctionOnSet(w, (s \ {x}) \ {z}) \in Nat
    BY <2>1, SumTyped
  <2> QED BY <1>6, <1>7, <1>8, <2>2 DEF Terms
<1> DEFINE a == w[x]
           b == w[z]
           c == SumFunctionOnSet(w, (s \ {x}) \ {z})
           d == SumFunctionOnSet(w, s \ {z})
           e == SumFunctionOnSet(w, s \ {x})
           g == SumFunctionOnSet(w, s)
<1>14. a \in Nat /\ b \in Nat /\ c \in Nat /\ g = a + e /\ e = b + c /\ d = a + c /\ g # b + d
  BY <1>6, <1>8, <1>11, <1>12, <1>13
<1> HIDE DEF a, b, c, d, e, g
<1> QED BY <1>14

\* A sum is at most another one whose terms include its own.
LEMMA SumWithin ==
  ASSUME NEW S, IsFiniteSet(S), NEW w, Terms(w, S),
         NEW R, NEW v, NEW g, \A r \in R : g[r] \in S /\ v[r] = w[g[r]],
         \A r, q \in R : g[r] = g[q] => r = q
  PROVE  /\ IsFiniteSet(R) /\ Cardinality(R) <= Cardinality(S)
         /\ SumFunctionOnSet(v, R) <= SumFunctionOnSet(w, S)
<1>1. ASSUME NEW s \in SUBSET S, NEW q, \A r \in q : g[r] \in s, q \in SUBSET R
      PROVE  IsFiniteSet(q) /\ Cardinality(q) <= Cardinality(s) /\ Cardinality(q) \in Nat
  <2> DEFINE f == [r \in q |-> g[r]]
  <2>1. f \in Injection(q, s)
    <3>1. f \in [q -> s] /\ \A a, b \in q : f[a] = f[b] => a = b
      BY <1>1
    <3> HIDE DEF f
    <3> QED BY <3>1 DEF Injection, IsInjective
  <2>2. IsFiniteSet(s)
    BY FS_Subset
  <2> QED BY <2>1, <2>2, FS_Injection, FS_CardinalityType
<1>2. IsFiniteSet(R) /\ Cardinality(R) <= Cardinality(S)
  BY <1>1
<1> DEFINE Wrong(q) == /\ q \in SUBSET R
                       /\ \E s \in SUBSET S :
                            /\ \A r \in q : g[r] \in s
                            /\ ~(SumFunctionOnSet(v, q) <= SumFunctionOnSet(w, s))
           N == {n \in Nat : \E q : Wrong(q) /\ n = Cardinality(q)}
<1> SUFFICES ASSUME Wrong(R) PROVE FALSE
  BY <1>2
<1>3. N \subseteq Nat
  OBVIOUS
<1>4. \A q : Wrong(q) => q \in SUBSET R /\ IsFiniteSet(q) /\ Cardinality(q) \in N
  BY <1>1
<1>5. \A n \in N : \E q : Wrong(q) /\ n = Cardinality(q)
  OBVIOUS
<1> HIDE DEF N
<1>6. PICK n \in N : \A k \in N : n <= k
  BY <1>3, <1>4, Least
<1>7. PICK q : Wrong(q) /\ n = Cardinality(q)
  BY <1>5
<1>8. PICK s \in SUBSET S : /\ \A r \in q : g[r] \in s
                            /\ ~(SumFunctionOnSet(v, q) <= SumFunctionOnSet(w, s))
  BY <1>7
<1>9. /\ IsFiniteSet(q) /\ q \in SUBSET R /\ IsFiniteSet(s)
      /\ Terms(w, s)
      /\ Terms(v, q)
  BY <1>4, <1>7, FS_Subset DEF Terms
<1>10. SumFunctionOnSet(w, s) \in Nat
  BY <1>9, SumTyped
<1>11. q # {}
  <2>1. CASE q = {}
    BY <1>8, <1>10, <2>1, SumNothing
  <2> QED BY <2>1
<1>12. PICK r \in q : TRUE
  BY <1>11
<1> DEFINE y == g[r]
           a == SumFunctionOnSet(v, q \ {r})
           b == SumFunctionOnSet(w, s \ {y})
<1>13. SumFunctionOnSet(v, q) = v[r] + a
  BY <1>9, SumWithout
<1>14. y \in s
  BY <1>8
<1>15. SumFunctionOnSet(w, s) = w[y] + b
  <2> HIDE DEF y
  <2> QED BY <1>9, <1>14, SumWithout
<1>16. v[r] = w[y] /\ w[y] \in Nat
  BY <1>9, <1>14 DEF Terms
<1>17. a \in Nat /\ b \in Nat
  <2>1. /\ IsFiniteSet(q \ {r}) /\ IsFiniteSet(s \ {y})
        /\ Terms(v, q \ {r}) /\ Terms(w, s \ {y})
    BY <1>9, FS_RemoveElement DEF Terms
  <2> QED BY <1>9, <2>1, SumTyped
<1>18. a <= b
  <2>1. Cardinality(q \ {r}) = Cardinality(q) - 1 /\ Cardinality(q) \in Nat
    BY <1>9, FS_RemoveElement, FS_CardinalityType
  <2>2. Cardinality(q \ {r}) \notin N
    BY <1>6, <1>7, <2>1
  <2>3. ~Wrong(q \ {r})
    BY <1>4, <2>2
  <2>4. q \ {r} \in SUBSET R /\ s \ {y} \in SUBSET S /\ \A x \in q \ {r} : g[x] \in s \ {y}
    BY <1>8, <1>9
  <2> QED BY <2>3, <2>4
<1> HIDE DEF a, b, y
<1>19. v[r] + a <= w[y] + b
  BY <1>16, <1>17, <1>18
<1> QED BY <1>8, <1>13, <1>15, <1>19

-----------------------------------------------------------------------------
(* The records of a stack.                                                 *)

RecordsOf(s) ==
  UNION {UNION {{<<i, a, j>> : j \in DOMAIN s[i].msg[a].audit} :
                  a \in DOMAIN s[i].msg} : i \in DOMAIN s}

BytesOf(s) == [r \in RecordsOf(s) |-> s[r[1]].msg[r[2]].audit[r[3]].bytes]

\* The record at the position j of the trail at the address a of m.
RecordAt(m, a, j) == a \in DOMAIN m /\ j \in DOMAIN m[a].audit

\* The places where a stack has records.
LEMMA RecordPlaces ==
  ASSUME NEW s
  PROVE  /\ \A i, a, j : <<i, a, j>> \in RecordsOf(s) <=> i \in DOMAIN s /\ RecordAt(s[i].msg, a, j)
         /\ \A r \in RecordsOf(s) : /\ r = <<r[1], r[2], r[3]>>
                                    /\ r[1] \in DOMAIN s /\ RecordAt(s[r[1]].msg, r[2], r[3])
                                    /\ BytesOf(s)[r] = s[r[1]].msg[r[2]].audit[r[3]].bytes
<1>1. \A i, a, j : <<i, a, j>> \in RecordsOf(s) <=> i \in DOMAIN s /\ RecordAt(s[i].msg, a, j)
  BY DEF RecordsOf, RecordAt
<1>2. \A r \in RecordsOf(s) : \E i, a, j : r = <<i, a, j>>
  BY DEF RecordsOf
<1>3. ASSUME NEW r \in RecordsOf(s) PROVE r = <<r[1], r[2], r[3]>>
  BY <1>2
<1> QED BY <1>1, <1>3 DEF BytesOf

\* Records have a natural number of bytes.
LEMMA BytesTyped ==
  ASSUME NEW s, \A i \in DOMAIN s : IsMessage(s[i].msg)
  PROVE  Terms(BytesOf(s), RecordsOf(s))
<1> SUFFICES ASSUME NEW r \in RecordsOf(s) PROVE BytesOf(s)[r] \in Nat
  BY DEF Terms
<1> DEFINE m == s[r[1]].msg
           t == m[r[2]].audit
<1>1. /\ r[1] \in DOMAIN s /\ RecordAt(m, r[2], r[3]) /\ BytesOf(s)[r] = t[r[3]].bytes
  BY RecordPlaces
<1>2. IsMessage(m)
  BY <1>1
<1> HIDE DEF m
<1>3. m[r[2]] \in Node
  BY <1>1, <1>2 DEF IsMessage, RecordAt
<1>4. t \in Seq(AuditRecord) /\ r[3] \in DOMAIN t
  BY <1>1, <1>3 DEF Node, RecordAt
<1> HIDE DEF t
<1>5. t[r[3]] \in AuditRecord
  BY <1>4
<1> QED BY <1>1, <1>5 DEF AuditRecord

\* The stack s and its records are paid for by the counters n and b.
Pays(s, n, b) ==
  /\ IsFiniteSet(RecordsOf(s))
  /\ Cardinality(RecordsOf(s)) + Len(s) <= n + 1
  /\ SumFunctionOnSet(BytesOf(s), RecordsOf(s)) <= b

\* The record at r in t is the one at q in s, moved.
SameBytes(t, r, s, q) == q \in RecordsOf(s) /\ BytesOf(t)[r] = BytesOf(s)[q]

\* The records R of t all come from s.
LEMMA RecordsCarried ==
  ASSUME NEW s, IsFiniteSet(RecordsOf(s)), \A i \in DOMAIN s : IsMessage(s[i].msg),
         NEW t, NEW R, NEW g, \A r \in R : SameBytes(t, r, s, g[r]),
         \A r, q \in R : g[r] = g[q] => r = q
  PROVE  /\ IsFiniteSet(R) /\ Cardinality(R) <= Cardinality(RecordsOf(s))
         /\ SumFunctionOnSet(BytesOf(t), R) <= SumFunctionOnSet(BytesOf(s), RecordsOf(s))
<1> DEFINE S == RecordsOf(s)
           w == BytesOf(s)
           v == BytesOf(t)
<1>1. IsFiniteSet(S) /\ Terms(w, S)
  BY BytesTyped
<1>2. \A r \in R : g[r] \in S /\ v[r] = w[g[r]]
  BY DEF SameBytes
<1> HIDE DEF S, w, v
<1>3. /\ IsFiniteSet(R) /\ Cardinality(R) <= Cardinality(S)
      /\ SumFunctionOnSet(v, R) <= SumFunctionOnSet(w, S)
  BY <1>1, <1>2, SumWithin
<1> QED BY <1>3 DEF S, w, v

\* Two messages with the same records, or the first with fewer.
Fewer(new, m) ==
  \A a \in DOMAIN new : \A j \in DOMAIN new[a].audit :
    RecordAt(m, a, j) /\ new[a].audit[j].bytes = m[a].audit[j].bytes

\* A step that keeps no record keeps records.
LEMMA NothingRecorded ==
  ASSUME NEW s, \A i \in DOMAIN s : IsMessage(s[i].msg), NEW n, NEW b, Pays(s, n, b),
         NEW t, \A i \in DOMAIN t : \/ i \in DOMAIN s /\ Fewer(t[i].msg, s[i].msg)
                                    \/ \A a, j : ~RecordAt(t[i].msg, a, j)
  PROVE  /\ IsFiniteSet(RecordsOf(t)) /\ Cardinality(RecordsOf(t)) <= Cardinality(RecordsOf(s))
         /\ SumFunctionOnSet(BytesOf(t), RecordsOf(t)) <= SumFunctionOnSet(BytesOf(s), RecordsOf(s))
<1> DEFINE g == [r \in RecordsOf(t) |-> r]
<1>1. ASSUME NEW r \in RecordsOf(t) PROVE SameBytes(t, r, s, r)
  <2> DEFINE i == r[1]
             a == r[2]
             j == r[3]
  <2>1. /\ r = <<i, a, j>> /\ i \in DOMAIN t /\ RecordAt(t[i].msg, a, j)
        /\ BytesOf(t)[r] = t[i].msg[a].audit[j].bytes
    BY RecordPlaces
  <2>2. /\ i \in DOMAIN s /\ RecordAt(s[i].msg, a, j)
        /\ t[i].msg[a].audit[j].bytes = s[i].msg[a].audit[j].bytes
    BY <2>1 DEF Fewer, RecordAt
  <2> HIDE DEF i, a, j
  <2>3. r \in RecordsOf(s)
    BY <2>1, <2>2, RecordPlaces
  <2>4. BytesOf(s)[r] = s[i].msg[a].audit[j].bytes
    BY <2>3, RecordPlaces DEF i, a, j
  <2> QED BY <2>1, <2>2, <2>3, <2>4 DEF SameBytes
<1>2. \A r \in RecordsOf(t) : SameBytes(t, r, s, g[r])
  BY <1>1
<1>3. \A r, q \in RecordsOf(t) : g[r] = g[q] => r = q
  OBVIOUS
<1> HIDE DEF g
<1> QED BY <1>2, <1>3, RecordsCarried DEF Pays

\* The records already at the address a of m.
Before(m, a) == IF a \in DOMAIN m THEN Len(m[a].audit) ELSE 0

\* The record at (a, j) of new comes from sub, now the field f of m.
FromCallee(new, m, f, sub, a, j) ==
  /\ ~RecordAt(m, a, j) /\ a \in Seq(MessageField) /\ Under(f, a)
  /\ RecordAt(sub, Tail(a), j - Before(m, a)) /\ j \in Nat /\ Before(m, a) \in Nat
  /\ new[a].audit[j].bytes = sub[Tail(a)].audit[j - Before(m, a)].bytes

\* The record at (a, j) of new is one of m.
FromSelf(new, m, a, j) ==
  RecordAt(m, a, j) /\ new[a].audit[j].bytes = m[a].audit[j].bytes

\* new has one record more than m, the last of its root, and maybe those of
\* its callee sub.
OneMore(new, m, n, f, sub, merged) ==
  /\ <<>> \in DOMAIN new
  /\ \A a \in DOMAIN new : \A j \in DOMAIN new[a].audit :
       \/ a = <<>> /\ j = n
       \/ FromSelf(new, m, a, j)
       \/ merged /\ FromCallee(new, m, f, sub, a, j)

\* A step that keeps a record keeps one.
LEMMA OneRecorded ==
  ASSUME NEW s, \A i \in DOMAIN s : IsMessage(s[i].msg), IsFiniteSet(RecordsOf(s)),
         NEW k \in Nat \ {0}, k \in DOMAIN s,
         NEW t, k \in DOMAIN t, \A i \in DOMAIN t : IsMessage(t[i].msg),
         \A i \in DOMAIN t : i \in 1 .. k \/ \A a, j : ~RecordAt(t[i].msg, a, j),
         \A i \in 1 .. k - 1 : i \in DOMAIN s /\ t[i] = s[i],
         NEW n, NEW f, NEW merged \in BOOLEAN, merged => k + 1 \in DOMAIN s,
         OneMore(t[k].msg, s[k].msg, n, f, s[k + 1].msg, merged),
         n \in DOMAIN t[k].msg[<<>>].audit
  PROVE  /\ IsFiniteSet(RecordsOf(t))
         /\ Cardinality(RecordsOf(t)) <= Cardinality(RecordsOf(s)) + 1
         /\ SumFunctionOnSet(BytesOf(t), RecordsOf(t))
              <= SumFunctionOnSet(BytesOf(s), RecordsOf(s)) + t[k].msg[<<>>].audit[n].bytes
<1> DEFINE new  == <<k, <<>>, n>>
           R    == RecordsOf(t) \ {new}
           From(r) == <<k + 1, Tail(r[2]), r[3] - Before(s[k].msg, r[2])>>
           g    == [r \in R |-> IF r \in RecordsOf(s) THEN r ELSE From(r)]
           InPlace(r)  == r \in RecordsOf(s) /\ BytesOf(t)[r] = BytesOf(s)[r]
           Moved(r) == /\ merged /\ r \notin RecordsOf(s) /\ r[1] = k
                       /\ FromCallee(t[k].msg, s[k].msg, f, s[k + 1].msg, r[2], r[3])
                       /\ BytesOf(t)[r] = t[k].msg[r[2]].audit[r[3]].bytes
<1>1. ASSUME NEW r \in R PROVE r = <<r[1], r[2], r[3]>> /\ r[1] \in 1 .. k /\ (InPlace(r) \/ Moved(r))
  <2> DEFINE i == r[1]
             a == r[2]
             j == r[3]
  <2>1. /\ r = <<i, a, j>> /\ i \in 1 .. k /\ RecordAt(t[i].msg, a, j)
        /\ BytesOf(t)[r] = t[i].msg[a].audit[j].bytes
    <3>1. /\ r = <<i, a, j>> /\ i \in DOMAIN t /\ RecordAt(t[i].msg, a, j)
          /\ BytesOf(t)[r] = t[i].msg[a].audit[j].bytes
      BY RecordPlaces
    <3> HIDE DEF i, a, j
    <3> QED BY <3>1
  <2>2. \A q \in RecordsOf(s) : BytesOf(s)[q] = s[q[1]].msg[q[2]].audit[q[3]].bytes
    BY RecordPlaces
  <2>3. r \in RecordsOf(s) <=> i \in DOMAIN s /\ RecordAt(s[i].msg, a, j)
    <3> HIDE DEF i, a, j
    <3>1. <<i, a, j>> \in RecordsOf(s) <=> i \in DOMAIN s /\ RecordAt(s[i].msg, a, j)
      BY RecordPlaces
    <3> QED BY <2>1, <3>1
  <2>4. r # new
    OBVIOUS
  <2>5. r \in RecordsOf(s) => BytesOf(s)[r] = s[i].msg[a].audit[j].bytes
    BY <2>2
  <2> HIDE DEF i, a, j
  <2>6. CASE i # k
    <3>1. i \in DOMAIN s /\ t[i] = s[i]
      BY <2>1, <2>6
    <3> QED BY <2>1, <2>3, <2>5, <3>1 DEF i, a, j
  <2>7. CASE i = k
    <3>1. ~(a = <<>> /\ j = n)
      BY <2>1, <2>4, <2>7
    <3>2. \/ FromSelf(t[k].msg, s[k].msg, a, j)
          \/ merged /\ FromCallee(t[k].msg, s[k].msg, f, s[k + 1].msg, a, j)
      BY <2>1, <2>7, <3>1 DEF OneMore, RecordAt
    <3>3. CASE FromSelf(t[k].msg, s[k].msg, a, j)
      <4>1. r \in RecordsOf(s)
        BY <2>3, <2>7, <3>3 DEF FromSelf
      <4>2. InPlace(r)
        BY <2>1, <2>5, <2>7, <3>3, <4>1 DEF FromSelf
      <4> QED BY <2>1, <4>2 DEF i, a, j
    <3>4. CASE merged /\ FromCallee(t[k].msg, s[k].msg, f, s[k + 1].msg, a, j)
      <4>1. r \notin RecordsOf(s)
        BY <2>3, <2>7, <3>4 DEF FromCallee
      <4>2. Moved(r)
        BY <2>1, <2>7, <3>4, <4>1 DEF i, a, j
      <4> QED BY <2>1, <4>2 DEF i, a, j
    <3> QED BY <3>2, <3>3, <3>4
  <2> QED BY <2>6, <2>7
<1>2. ASSUME NEW r \in R, Moved(r) PROVE SameBytes(t, r, s, From(r))
  <2>1. /\ k + 1 \in DOMAIN s /\ RecordAt(s[k + 1].msg, Tail(r[2]), r[3] - Before(s[k].msg, r[2]))
        /\ BytesOf(t)[r] = s[k + 1].msg[Tail(r[2])].audit[r[3] - Before(s[k].msg, r[2])].bytes
    BY <1>2 DEF FromCallee
  <2> DEFINE b == Tail(r[2])
             h == r[3] - Before(s[k].msg, r[2])
  <2>2. k + 1 \in DOMAIN s /\ RecordAt(s[k + 1].msg, b, h)
        /\ BytesOf(t)[r] = s[k + 1].msg[b].audit[h].bytes
    BY <2>1
  <2> HIDE DEF b, h
  <2>3. <<k + 1, b, h>> \in RecordsOf(s)
    BY <2>2, RecordPlaces
  <2>4. BytesOf(s)[<<k + 1, b, h>>] = s[k + 1].msg[b].audit[h].bytes
    BY <2>3 DEF BytesOf
  <2> QED BY <2>2, <2>3, <2>4 DEF SameBytes, b, h
<1>3. \A r \in R : g[r] = IF r \in RecordsOf(s) THEN r ELSE From(r)
  OBVIOUS
<1> HIDE DEF g, R
<1>4. ASSUME NEW r \in R PROVE SameBytes(t, r, s, g[r])
  <2>1. CASE InPlace(r)
    BY <1>3, <2>1 DEF SameBytes
  <2>2. CASE Moved(r)
    <3>1. g[r] = From(r)
      BY <1>3, <2>2
    <3> HIDE DEF From, Moved
    <3> QED BY <1>2, <2>2, <3>1
  <2> QED BY <1>1, <2>1, <2>2
<1>5. ASSUME NEW r \in R, NEW q \in R, g[r] = g[q] PROVE r = q
  <2>1. CASE InPlace(r) /\ InPlace(q)
    BY <1>3, <1>5, <2>1
  <2>2. CASE Moved(r) /\ Moved(q)
    <3>1. From(r) = From(q)
      BY <1>3, <1>5, <2>2
    <3>2. /\ Tail(r[2]) = Tail(q[2])
          /\ r[3] - Before(s[k].msg, r[2]) = q[3] - Before(s[k].msg, q[2])
      BY <3>1
    <3>3. /\ r[2] \in Seq(MessageField) /\ q[2] \in Seq(MessageField)
          /\ r[2] # <<>> /\ q[2] # <<>> /\ Head(r[2]) = Head(q[2])
          /\ r[3] \in Nat /\ q[3] \in Nat
          /\ Before(s[k].msg, r[2]) \in Nat /\ Before(s[k].msg, q[2]) \in Nat
      BY <2>2 DEF FromCallee, Under
    <3>4. r[2] = q[2]
      <4> DEFINE u == r[2]
                 v == q[2]
      <4>1. /\ u \in Seq(MessageField) /\ v \in Seq(MessageField) /\ u # <<>> /\ v # <<>>
            /\ Head(u) = Head(v) /\ Tail(u) = Tail(v)
        BY <3>2, <3>3
      <4> HIDE DEF u, v
      <4>2. u = <<Head(u)>> \o Tail(u) /\ v = <<Head(v)>> \o Tail(v)
        BY <4>1
      <4>3. u = v
        BY <4>1, <4>2
      <4> QED BY <4>3 DEF u, v
    <3>5. r[3] = q[3]
      BY <3>2, <3>3, <3>4
    <3>6. r = <<r[1], r[2], r[3]>> /\ q = <<q[1], q[2], q[3]>>
      BY <1>1
    <3>7. r[1] = k /\ q[1] = k
      BY <2>2
    <3> QED BY <3>4, <3>5, <3>6, <3>7
  <2>3. ASSUME NEW x \in R, NEW y \in R, InPlace(x), Moved(y) PROVE g[x] # g[y]
    <3>1. g[x] = x /\ g[y] = From(y)
      BY <1>3, <2>3
    <3>2. x[1] \in 1 .. k /\ From(y)[1] = k + 1
      BY <1>1
    <3> QED BY <3>1, <3>2
  <2> QED BY <1>1, <1>5, <2>1, <2>2, <2>3
<1>6. /\ IsFiniteSet(R) /\ Cardinality(R) <= Cardinality(RecordsOf(s))
      /\ SumFunctionOnSet(BytesOf(t), R) <= SumFunctionOnSet(BytesOf(s), RecordsOf(s))
  BY <1>4, <1>5, RecordsCarried
<1>7. new \in RecordsOf(t) /\ BytesOf(t)[new] = t[k].msg[<<>>].audit[n].bytes
  <2>1. k \in DOMAIN t /\ RecordAt(t[k].msg, <<>>, n)
    BY DEF OneMore, RecordAt
  <2>2. new \in RecordsOf(t)
    BY <2>1, RecordPlaces
  <2> QED BY <2>2 DEF BytesOf
<1> HIDE DEF new
<1>8. RecordsOf(t) = R \cup {new} /\ new \notin R
  BY <1>7 DEF R
<1>9. IsFiniteSet(RecordsOf(t)) /\ Cardinality(RecordsOf(t)) = Cardinality(R) + 1
  BY <1>6, <1>8, FS_AddElement
<1>10. Terms(BytesOf(t), RecordsOf(t)) /\ Terms(BytesOf(s), RecordsOf(s))
  BY BytesTyped
<1>11. SumFunctionOnSet(BytesOf(t), RecordsOf(t)) = BytesOf(t)[new] + SumFunctionOnSet(BytesOf(t), R)
  <2>1. RecordsOf(t) \ {new} = R
    BY <1>8
  <2> QED BY <1>7, <1>9, <1>10, <2>1, SumWithout
<1> DEFINE a == SumFunctionOnSet(BytesOf(t), RecordsOf(t))
           b == SumFunctionOnSet(BytesOf(t), R)
           c == SumFunctionOnSet(BytesOf(s), RecordsOf(s))
           d == BytesOf(t)[new]
<1>12. b \in Nat /\ c \in Nat /\ d \in Nat
  <2>1. Terms(BytesOf(t), R)
    BY <1>8, <1>10 DEF Terms
  <2> QED BY <1>6, <1>7, <1>10, <2>1, SumTyped DEF Terms
<1>13. a = d + b /\ b <= c
  BY <1>6, <1>11
<1>14. a <= c + d
  <2> HIDE DEF a, b, c, d
  <2> QED BY <1>12, <1>13
<1>15. Cardinality(RecordsOf(t)) <= Cardinality(RecordsOf(s)) + 1
  <2>1. Cardinality(R) \in Nat /\ Cardinality(RecordsOf(s)) \in Nat
    BY <1>6, FS_CardinalityType
  <2> QED BY <1>6, <1>9, <2>1
<1> QED BY <1>7, <1>9, <1>14, <1>15

-----------------------------------------------------------------------------
(* One record per occurrence.                                              *)

\* A trail with records of the same sizes.
SameSizes(t, old) ==
  /\ t \in Seq(AuditRecord) /\ Len(t) = Len(old)
  /\ \A j \in 1 .. Len(old) : t[j].bytes = old[j].bytes

\* A demotion changes no size.
LEMMA PreparedSizes ==
  ASSUME NEW old \in Seq(AuditRecord), NEW f, NEW demoted
  PROVE  SameSizes(old, old) /\ SameSizes(Prepared(old, f, demoted), old)
<1> DEFINE t == Demote(old, Slot(f))
<1>1. SameSizes(old, old)
  BY DEF SameSizes
<1>2. SameSizes(t, old)
  <2>1. /\ t \in Seq(AuditRecord) /\ Len(t) = Len(old) /\ DOMAIN old = 1 .. Len(old)
        /\ \/ t = old
           \/ \E k \in DOMAIN old : /\ t[k] = [old[k] EXCEPT !.tag = "DuplicateDiscarded"]
                                    /\ \A j \in DOMAIN old : j # k => t[j] = old[j]
    <3>1. /\ t \in Seq(AuditRecord) /\ Len(t) = Len(old) /\ DOMAIN old = 1 .. Len(old)
          /\ \/ t = old
             \/ \E k \in DOMAIN old :
                  /\ Live(old[k]) /\ old[k].field \in Slot(f)
                  /\ t[k] = [old[k] EXCEPT !.tag = "DuplicateDiscarded"]
                  /\ \A j \in DOMAIN old : j # k => t[j] = old[j]
      BY DemotedRecord
    <3> HIDE DEF t
    <3> QED BY <3>1
  <2> HIDE DEF t
  <2>2. CASE t = old
    BY <1>1, <2>2
  <2>3. CASE \E k \in DOMAIN old : /\ t[k] = [old[k] EXCEPT !.tag = "DuplicateDiscarded"]
                                   /\ \A j \in DOMAIN old : j # k => t[j] = old[j]
    <3>1. PICK k \in DOMAIN old : /\ t[k] = [old[k] EXCEPT !.tag = "DuplicateDiscarded"]
                                  /\ \A j \in DOMAIN old : j # k => t[j] = old[j]
      BY <2>3
    <3>2. old[k] \in AuditRecord
      OBVIOUS
    <3>3. t[k].bytes = old[k].bytes
      BY <3>1, <3>2 DEF AuditRecord
    <3>4. \A j \in 1 .. Len(old) : t[j].bytes = old[j].bytes
      BY <2>1, <3>1, <3>3
    <3> QED BY <2>1, <3>4 DEF SameSizes
  <2> QED BY <2>1, <2>2, <2>3
<1> QED BY <1>1, <1>2 DEF Prepared

\* The parts of a trail with one record more.
LEMMA PushedParts ==
  ASSUME NEW t \in Seq(AuditRecord), NEW record
  PROVE  /\ Len(t) \in Nat /\ DOMAIN Append(t, record) = 1 .. Len(t) + 1
         /\ Append(t, record)[Len(t) + 1] = record
         /\ \A j \in 1 .. Len(t) : Append(t, record)[j] = t[j]
<1> DEFINE S == AuditRecord \cup {record}
<1>1. t \in Seq(S) /\ record \in S /\ Len(t) \in Nat
  OBVIOUS
<1> HIDE DEF S
<1> QED BY <1>1, AppendProperties

\* d is m, maybe without some of its submessages.
Pruned(d, m) == \A a \in DOMAIN d : a \in DOMAIN m /\ d[a].audit = m[a].audit

\* new is m with the record kept last at its root, and maybe those of its
\* callee sub.
KeepsOne(new, m, f, sub, merged, record) ==
  LET n == Len(Trail(m)) + 1
  IN  /\ OneMore(new, m, n, f, sub, merged)
      /\ n \in DOMAIN Trail(new) /\ Trail(new)[n] = record

\* A record pushed at the root.
LEMMA PushedOneMore ==
  ASSUME NEW m, IsMessage(m), NEW d, Pruned(d, m), NEW new, NEW t, NEW record,
         SameSizes(t, Trail(m)), \E s, r, e, u : Rewrites(new, d, s, r, e, u, Append(t, record)),
         NEW f, NEW sub
  PROVE  KeepsOne(new, m, f, sub, FALSE, record)
<1> DEFINE n == Len(Trail(m)) + 1
<1>1. /\ Trail(new) = Append(t, record) /\ <<>> \in DOMAIN new /\ DOMAIN new = DOMAIN d
      /\ \A a \in DOMAIN d : a # <<>> => new[a] = d[a]
  BY DEF Rewrites, Rooted, Trail
<1>2. Trail(m) \in Seq(AuditRecord) /\ <<>> \in DOMAIN m
  BY MessageRooted DEF Rooted
<1>3. /\ Len(t) = Len(Trail(m)) /\ Len(t) \in Nat /\ DOMAIN Trail(new) = 1 .. Len(t) + 1
      /\ Trail(new)[Len(t) + 1] = record
      /\ \A j \in 1 .. Len(t) : Trail(new)[j].bytes = Trail(m)[j].bytes
      /\ DOMAIN Trail(m) = 1 .. Len(t)
  BY <1>1, <1>2, PushedParts DEF SameSizes
<1>4. ASSUME NEW a \in DOMAIN new, NEW j \in DOMAIN new[a].audit
      PROVE  (a = <<>> /\ j = n) \/ FromSelf(new, m, a, j)
  <2>1. CASE a = <<>>
    <3>1. j \in 1 .. Len(t) + 1
      BY <1>3, <2>1 DEF Trail
    <3>2. CASE j = n
      BY <2>1, <3>2
    <3>3. CASE j \in 1 .. Len(t)
      BY <1>2, <1>3, <2>1, <3>3 DEF FromSelf, RecordAt, Trail
    <3> QED BY <1>3, <3>1, <3>2, <3>3
  <2>2. CASE a # <<>>
    <3>1. new[a].audit = m[a].audit /\ a \in DOMAIN m
      BY <1>1, <2>2 DEF Pruned
    <3> QED BY <3>1 DEF FromSelf, RecordAt
  <2> QED BY <2>1, <2>2
<1>5. OneMore(new, m, n, f, sub, FALSE)
  BY <1>1, <1>4 DEF OneMore
<1>6. n \in DOMAIN Trail(new) /\ Trail(new)[n] = record
  BY <1>3
<1> QED BY <1>5, <1>6 DEF KeepsOne

\* Displacing the siblings of f prunes.
LEMMA DisplacedPruned ==
  ASSUME NEW m, IsMessage(m), NEW f \in Field
  PROVE  Pruned(m, m) /\ Pruned(Displace(m, f), m)
<1> DEFINE d == Displace(m, f)
<1>1. /\ DOMAIN d = {b \in DOMAIN m : \A g \in Siblings(f) : ~Under(g, b)}
      /\ \A a \in DOMAIN d : a # <<>> => d[a] = m[a]
      /\ d[<<>>].audit = m[<<>>].audit
  BY DisplaceParts
<1> HIDE DEF d
<1>2. Pruned(d, m)
  BY <1>1 DEF Pruned
<1> QED BY <1>2 DEF d, Pruned

\* An occurrence that stores no submessage adds its record.
LEMMA AloneOneMore ==
  ASSUME NEW m, IsMessage(m), NEW mid, NEW tag, NEW f, NEW payload, NEW fr, NEW record, NEW sub,
         StoresAlone(m, mid, tag, f, payload) \/ StoresPacked(m, mid, tag, f, payload, fr)
  PROVE  KeepsOne(PushAudit(mid, record), m, f, sub, FALSE, record)
<1> DEFINE new == PushAudit(mid, record)
           Goal == KeepsOne(new, m, f, sub, FALSE, record)
<1>1. Rooted(m) /\ Trail(m) \in Seq(AuditRecord) /\ Trail(m) = m[<<>>].audit
  BY MessageRooted DEF Trail
<1>2. Pruned(m, m)
  BY DEF Pruned
<1> SUFFICES Goal
  OBVIOUS
<1>3. ASSUME NEW t, NEW d, Pruned(d, m), SameSizes(t, Trail(m)),
             \E s, r, e, u : Rewrites(new, d, s, r, e, u, Append(t, record))
      PROVE  Goal
  <2> HIDE DEF new
  <2> QED BY <1>3, PushedOneMore
<1>4. CASE StoresEnumValue(m, mid, tag, f, payload) \/ StoresUnknown(m, mid, tag, f, payload)
  <2>1. Rewrites(new, m, m[<<>>].scalar, m[<<>>].rep, m[<<>>].map,
                 KeptUnknown(m[<<>>].unknown, <<[field |-> f, payload |-> payload]>>),
                 Append(Trail(m), record))
    BY <1>1, <1>4, UnknownWrites
  <2>2. \E s, r, e, u : Rewrites(new, m, s, r, e, u, Append(Trail(m), record))
    BY <2>1
  <2>3. SameSizes(Trail(m), Trail(m))
    BY <1>1, PreparedSizes
  <2> HIDE DEF new, Goal
  <2> QED BY <1>2, <1>3, <2>2, <2>3
<1>5. CASE StoresScalar(m, mid, tag, f, payload)
  <2>1. PICK v : mid = DemoteDisplaced(SetScalar(Displace(m, f), f, v), f, Duplicate(m, f), FALSE)
    BY <1>5 DEF StoresScalar
  <2>2. f \in Field
    BY <1>5 DEF StoresScalar, ScalarField, SingularField
  <2>3. Rewrites(new, Displace(m, f), [Displaced(m[<<>>].scalar, f) EXCEPT ![f] = v],
                 m[<<>>].rep, m[<<>>].map, m[<<>>].unknown,
                 Append(Prepared(Trail(m), f, Duplicate(m, f)), record))
    BY <1>1, <2>1, ScalarWrites
  <2>4. SameSizes(Prepared(Trail(m), f, Duplicate(m, f)), Trail(m)) /\ Pruned(Displace(m, f), m)
    BY <1>1, <2>2, PreparedSizes, DisplacedPruned
  <2>5. \E s, r, e, u : Rewrites(new, Displace(m, f), s, r, e, u,
                                 Append(Prepared(Trail(m), f, Duplicate(m, f)), record))
    BY <2>3
  <2> HIDE DEF new, Goal
  <2> QED BY <1>3, <2>4, <2>5
<1>6. CASE StoresElement(m, mid, tag, f, payload) \/ StoresMessage(m, mid, tag, f, payload)
  <2>1. PICK xs : mid = SetRep(m, f, xs)
    BY <1>6 DEF StoresElement, StoresMessage
  <2>2. Rewrites(new, m, m[<<>>].scalar, [m[<<>>].rep EXCEPT ![f] = xs], m[<<>>].map,
                 m[<<>>].unknown, Append(Trail(m), record))
    BY <1>1, <2>1, RepWrites
  <2>3. \E s, r, e, u : Rewrites(new, m, s, r, e, u, Append(Trail(m), record))
    BY <2>2
  <2>4. SameSizes(Trail(m), Trail(m))
    BY <1>1, PreparedSizes
  <2> HIDE DEF new, Goal
  <2> QED BY <1>2, <1>3, <2>3, <2>4
<1>7. CASE StoresEntry(m, mid, tag, f, payload)
  <2>1. PICK entries, duplicate : mid = DemoteDisplaced(SetMap(m, f, entries), f, duplicate, FALSE)
    BY <1>7 DEF StoresEntry
  <2>2. Rewrites(new, m, m[<<>>].scalar, m[<<>>].rep, [m[<<>>].map EXCEPT ![f] = entries],
                 m[<<>>].unknown, Append(Prepared(Trail(m), f, duplicate), record))
    BY <1>1, <2>1, EntryWrites
  <2>3. \E s, r, e, u : Rewrites(new, m, s, r, e, u,
                                 Append(Prepared(Trail(m), f, duplicate), record))
    BY <2>2
  <2>4. SameSizes(Prepared(Trail(m), f, duplicate), Trail(m))
    BY <1>1, PreparedSizes
  <2> HIDE DEF new, Goal
  <2> QED BY <1>2, <1>3, <2>3, <2>4
<1>8. CASE StoresPacked(m, mid, tag, f, payload, fr)
  <2>1. PICK kept, xs : mid = SetRep(PushUnknown(m, kept), f, xs)
    BY <1>8 DEF StoresPacked
  <2>2. Rewrites(new, m, m[<<>>].scalar, [m[<<>>].rep EXCEPT ![f] = xs], m[<<>>].map,
                 m[<<>>].unknown \o kept, Append(Trail(m), record))
    BY <1>1, <2>1, PackedWrites
  <2>3. \E s, r, e, u : Rewrites(new, m, s, r, e, u, Append(Trail(m), record))
    BY <2>2
  <2>4. SameSizes(Trail(m), Trail(m))
    BY <1>1, PreparedSizes
  <2> HIDE DEF new, Goal
  <2> QED BY <1>2, <1>3, <2>3, <2>4
<1> HIDE DEF new, Goal
<1> QED BY <1>4, <1>5, <1>6, <1>7, <1>8 DEF StoresAlone

\* A submessage brings its records with it.
LEMMA MergedOneMore ==
  ASSUME NEW m, IsMessage(m), NEW mid, NEW tag, NEW f, NEW payload, NEW fr, IsMessage(fr.msg),
         NEW record, StoresSubmessage(m, mid, tag, f, payload, fr)
  PROVE  KeepsOne(PushAudit(mid, record), m, f, fr.msg, TRUE, record)
<1> DEFINE new == PushAudit(mid, record)
           n   == Len(Trail(m)) + 1
           sub == fr.msg
           d   == Displace(m, f)
           merged == MergeMessage(d, f, sub)
<1>1. f \in MessageField /\ f \in Field /\ IsMessage(sub)
  BY DEF StoresSubmessage, MessageField, SingularField
<1>2. IsMessage(d) /\ Pruned(d, m)
  BY <1>1, DisplaceParts, DisplacedPruned
<1>3. /\ DOMAIN d = {b \in DOMAIN m : \A g \in Siblings(f) : ~Under(g, b)}
      /\ \A a \in DOMAIN d : a # <<>> => d[a] = m[a]
  BY <1>1, DisplaceParts
<1>4. Rewrites(new, merged, Displaced(m[<<>>].scalar, f), m[<<>>].rep, m[<<>>].map,
               m[<<>>].unknown, Append(Trail(m), record))
  BY MessageRooted, SubmessageWrites DEF StoresSubmessage, Trail
<1> HIDE DEF d
<1>5. /\ \A a \in Seq(MessageField) : a \in DOMAIN merged <=>
              a \in DOMAIN d \/ (Under(f, a) /\ Tail(a) \in DOMAIN sub)
      /\ \A a \in DOMAIN merged :
           /\ a \in Seq(MessageField)
           /\ merged[a] = IF ~Under(f, a) \/ Tail(a) \notin DOMAIN sub THEN d[a]
                          ELSE IF a \in DOMAIN d THEN MergeNode(d[a], sub[Tail(a)])
                          ELSE sub[Tail(a)]
  BY <1>1, <1>2, MergedAddresses
<1> HIDE DEF new, merged, sub
<1>6. /\ Trail(new) = Append(Trail(m), record) /\ <<>> \in DOMAIN new /\ DOMAIN new = DOMAIN merged
      /\ \A a \in DOMAIN merged : a # <<>> => new[a] = merged[a]
  BY <1>4 DEF Rewrites, Rooted, Trail
<1>7. Trail(m) \in Seq(AuditRecord) /\ <<>> \in DOMAIN m
  BY MessageRooted DEF Rooted
<1>8. /\ Len(Trail(m)) \in Nat /\ DOMAIN Trail(new) = 1 .. n /\ Trail(new)[n] = record
      /\ \A j \in 1 .. Len(Trail(m)) : Trail(new)[j] = Trail(m)[j]
      /\ DOMAIN Trail(m) = 1 .. Len(Trail(m))
  BY <1>6, <1>7, PushedParts
<1>9. ASSUME NEW a \in DOMAIN new, NEW j \in DOMAIN new[a].audit
      PROVE  (a = <<>> /\ j = n) \/ FromSelf(new, m, a, j) \/ FromCallee(new, m, f, sub, a, j)
  <2>1. CASE a = <<>>
    <3>1. j \in 1 .. n
      BY <1>8, <2>1 DEF Trail
    <3>2. CASE j = n
      BY <2>1, <3>2
    <3>3. CASE j \in 1 .. Len(Trail(m))
      BY <1>7, <1>8, <2>1, <3>3 DEF FromSelf, RecordAt, Trail
    <3> QED BY <1>8, <3>1, <3>2, <3>3
  <2>2. CASE a # <<>>
    <3>1. /\ new[a] = merged[a] /\ a \in Seq(MessageField)
          /\ merged[a] = IF ~Under(f, a) \/ Tail(a) \notin DOMAIN sub THEN d[a]
                         ELSE IF a \in DOMAIN d THEN MergeNode(d[a], sub[Tail(a)])
                         ELSE sub[Tail(a)]
          /\ a \in DOMAIN d \/ (Under(f, a) /\ Tail(a) \in DOMAIN sub)
      BY <1>5, <1>6, <2>2
    <3>2. a \in DOMAIN d => a \in DOMAIN m /\ d[a] = m[a]
      BY <1>3, <2>2
    <3>3. CASE ~Under(f, a) \/ Tail(a) \notin DOMAIN sub
      BY <3>1, <3>2, <3>3 DEF FromSelf, RecordAt
    <3>4. CASE Under(f, a) /\ Tail(a) \in DOMAIN sub
      <4> DEFINE b == sub[Tail(a)].audit
      <4>1. b \in Seq(AuditRecord)
        BY <1>1, <3>4 DEF IsMessage, Node
      <4>2. a \in DOMAIN m => a \in DOMAIN d
        <5>1. \A g \in Siblings(f) : ~Under(g, a)
          BY <3>4 DEF Siblings, Under
        <5> QED BY <1>3, <5>1
      <4>3. CASE a \in DOMAIN d
        <5> DEFINE c == m[a].audit
        <5>1. a \in DOMAIN m /\ d[a] = m[a]
          BY <3>2, <4>3
        <5>2. c \in Seq(AuditRecord)
          BY <5>1 DEF IsMessage, Node
        <5>3. new[a].audit = c \o b
          <6>1. new[a] = MergeNode(m[a], sub[Tail(a)])
            BY <3>1, <3>4, <4>3, <5>1
          <6>2. \A x, y : MergeNode(x, y).audit = x.audit \o y.audit
            BY DEF MergeNode
          <6> HIDE DEF b, c
          <6>3. new[a].audit = m[a].audit \o sub[Tail(a)].audit
            BY <6>1, <6>2
          <6> QED BY <6>3 DEF b, c
        <5>4. Before(m, a) = Len(c)
          BY <5>1 DEF Before
        <5>5. RecordAt(m, a, j) <=> j \in DOMAIN c
          BY <5>1 DEF RecordAt
        <5>6. \A h : RecordAt(sub, Tail(a), h) <=> h \in DOMAIN b
          BY <3>4 DEF RecordAt
        <5> HIDE DEF b, c
        <5>7. /\ Len(c) \in Nat /\ Len(b) \in Nat
              /\ DOMAIN c = 1 .. Len(c) /\ DOMAIN b = 1 .. Len(b)
              /\ j \in 1 .. Len(c) + Len(b)
              /\ j \in 1 .. Len(c) => new[a].audit[j] = c[j]
              /\ j \notin 1 .. Len(c) => new[a].audit[j] = b[j - Len(c)]
          BY <4>1, <5>2, <5>3
        <5>8. CASE j \in 1 .. Len(c)
          BY <5>5, <5>7, <5>8 DEF FromSelf, c
        <5>9. CASE j \notin 1 .. Len(c)
          <6>1. j - Len(c) \in 1 .. Len(b) /\ j \in Nat
            BY <5>7, <5>9
          <6>2. RecordAt(sub, Tail(a), j - Len(c)) /\ ~RecordAt(m, a, j)
            BY <5>5, <5>6, <5>7, <5>9, <6>1
          <6>3. new[a].audit[j].bytes = sub[Tail(a)].audit[j - Len(c)].bytes
            BY <5>7, <5>9 DEF b
          <6>4. FromCallee(new, m, f, sub, a, j)
            BY <3>1, <3>4, <5>4, <5>7, <6>1, <6>2, <6>3 DEF FromCallee
          <6> QED BY <6>4
        <5> QED BY <5>8, <5>9
      <4>4. CASE a \notin DOMAIN d
        <5>1. a \notin DOMAIN m /\ new[a] = sub[Tail(a)]
          BY <3>1, <3>4, <4>2, <4>4
        <5>2. Before(m, a) = 0 /\ ~RecordAt(m, a, j)
          BY <5>1 DEF Before, RecordAt
        <5>3. j \in DOMAIN b /\ j \in Nat /\ j - 0 = j
          <6>1. j \in DOMAIN b
            BY <5>1
          <6> HIDE DEF b
          <6> QED BY <4>1, <6>1
        <5>4. RecordAt(sub, Tail(a), j)
          BY <3>4, <5>3 DEF RecordAt
        <5>5. FromCallee(new, m, f, sub, a, j)
          BY <3>1, <3>4, <5>1, <5>2, <5>3, <5>4 DEF FromCallee
        <5> QED BY <5>5
      <4> QED BY <4>3, <4>4
    <3> QED BY <3>3, <3>4
  <2> QED BY <2>1, <2>2
<1>10. OneMore(new, m, n, f, sub, TRUE)
  BY <1>6, <1>9 DEF OneMore
<1>11. n \in DOMAIN Trail(new) /\ Trail(new)[n] = record
  BY <1>8
<1> QED BY <1>10, <1>11 DEF new, sub, KeepsOne

-----------------------------------------------------------------------------
(* The counters.                                                           *)

\* What a step does to the counters, and to the stack when it counts nothing.
Counts ==
  /\ options' = options
  /\ \/ field_occurrences' = field_occurrences + 1
        /\ field_occurrences < options.max_field_occurrences
     \/ /\ field_occurrences' = field_occurrences
        /\ \/ stack' = <<>> \/ stack = <<>> \/ Len(stack') <= Len(stack)
  /\ audit_bytes' \in Nat /\ audit_bytes <= audit_bytes'
  /\ audit_bytes' = audit_bytes \/ audit_bytes' <= options.max_audit_bytes

\* An error counts nothing.
LEMMA FailCounts ==
  ASSUME Inv, Fail
  PROVE  Counts
BY DEF Fail, Counts, Inv

\* The next occurrence of the loop is counted, within the limit.
LEMMA AdvanceCounts ==
  ASSUME Inv, ~TooMany, NEW frames, Advance(frames)
  PROVE  Counts
<1>1. options \in DecodeOptions
  BY OptionsAssumption DEF Inv
<1>2. options.max_field_occurrences \in Nat
  BY <1>1 DEF DecodeOptions
<1> QED BY <1>2 DEF Advance, TooMany, Counts, Inv

\* A frame put back after n others are over.
LEMMA PopLength ==
  ASSUME Inv, NEW n \in 1 .. Len(stack), NEW fr
  PROVE  Len(Append(Below(n), fr)) <= Len(stack)
<1>1. /\ stack \in Seq(Frame) /\ Len(stack) \in Nat /\ Len(stack) - n \in 0 .. Len(stack)
      /\ n \in Nat /\ Len(stack) - n + 1 <= Len(stack)
  BY Activations
<1>2. Below(n) \in Seq(Frame) /\ Len(Below(n)) = Len(stack) - n
  BY <1>1, PrefixProperties DEF Below
<1> DEFINE S == Frame \cup {fr}
           b == Below(n)
<1>3. b \in Seq(S) /\ fr \in S
  BY <1>2
<1> HIDE DEF S, b
<1>4. Len(Append(b, fr)) = Len(b) + 1
  BY <1>3, AppendProperties
<1> QED BY <1>1, <1>2, <1>4 DEF b

\* An occurrence kept is counted, and its bytes, within the limits.
LEMMA CommitCounts ==
  ASSUME Inv, NEW n \in 1 .. Len(stack), NEW fr, NEW tag, NEW f, NEW payload,
         NEW size \in Nat, NEW counted \in {0, 1}, counted = 1 => ~TooMany,
         Commit(Below(n), fr, tag, f, payload, size, counted)
  PROVE  Counts
<1> DEFINE bytes  == IF options.audit_mode = "Full" THEN size ELSE 0
           record == [tag |-> tag, field |-> f, payload |-> payload, bytes |-> bytes]
           new    == [fr EXCEPT !.msg = PushAudit(@, record)]
<1>1. CASE Fail
  BY <1>1, FailCounts
<1>2. CASE ~Fail
  <2>1. /\ ~(bytes > 0 /\ AuditFull(bytes)) /\ stack' = Append(Below(n), new)
        /\ audit_bytes' = audit_bytes + bytes
        /\ field_occurrences' = field_occurrences + counted /\ options' = options
    BY <1>2 DEF Commit
  <2>2. Len(stack') <= Len(stack)
    <3> HIDE DEF new
    <3> QED BY <2>1, PopLength
  <2>3. options \in DecodeOptions
    BY OptionsAssumption DEF Inv
  <2>4. /\ options.max_field_occurrences \in Nat /\ options.max_audit_bytes \in Nat
        /\ field_occurrences \in Nat /\ audit_bytes \in Nat /\ bytes \in Nat
    BY <2>3 DEF DecodeOptions, Inv
  <2> HIDE DEF bytes, new, record
  <2>5. /\ audit_bytes' \in Nat /\ audit_bytes <= audit_bytes'
        /\ audit_bytes' = audit_bytes \/ audit_bytes' <= options.max_audit_bytes
    BY <2>1, <2>4 DEF AuditFull
  <2>6. CASE counted = 1
    BY <2>1, <2>4, <2>5, <2>6 DEF Counts, TooMany
  <2>7. CASE counted = 0
    BY <2>1, <2>2, <2>4, <2>5, <2>7 DEF Counts
  <2> QED BY <2>6, <2>7
<1> QED BY <1>1, <1>2

\* A step that touches no counter.
LEMMA UncountedCounts ==
  ASSUME Inv, options' = options, field_occurrences' = field_occurrences,
         audit_bytes' = audit_bytes,
         stack = <<>> \/ Len(stack') <= Len(stack)
  PROVE  Counts
BY DEF Counts, Inv

\* The stack of a decoder at work.
LEMMA StackHeights ==
  ASSUME Inv, status = "decoding"
  PROVE  /\ Len(stack) \in Nat /\ 1 \in 1 .. Len(stack)
         /\ Len(stack) > 1 => 2 \in 1 .. Len(stack)
         /\ Top.left \in Nat /\ Top.size \in Nat
         /\ Top.kind = "group" => Top.left <= Top.size
         /\ Top.kind # "message" \/ Top.via # None => Len(stack) > 1
<1>1. Len(stack) \in Nat /\ stack # <<>> /\ stack \in Seq(Frame)
  BY Activations DEF Inv
<1>2. Top \in Frame /\ Sound(Top, Limit)
  BY ReadingProperties
<1>3. Len(stack) # 0
  BY <1>1
<1>4. Top.kind # "message" \/ Top.via # None => Len(stack) > 1
  BY EndingHasCaller
<1> QED BY <1>1, <1>2, <1>3, <1>4 DEF Sound, Frame

\* Reading half an entry counts one occurrence.
LEMMA ReadCounts ==
  ASSUME Inv, NEW f \in Field, NEW v \in Scalar,
         UnknownEnumValue(f, v) \/ SingularScalar(f, v) \/ UnpackedElement(f, v)
  PROVE  Counts
<1>1. status = "decoding" /\ ~TooMany
  BY DEF UnknownEnumValue, SingularScalar, UnpackedElement, Starts, Reading
<1>2. CASE Fail
  BY <1>2, FailCounts
<1>3. \/ Fail
      \/ \E fr, tag, payload : Commit(Below(1), fr, tag, f, payload, 2, 1)
  BY DEF UnknownEnumValue, SingularScalar, UnpackedElement
<1>4. 1 \in 1 .. Len(stack) /\ 2 \in Nat /\ 1 \in {0, 1}
  BY <1>1, StackHeights
<1> QED BY <1>1, <1>2, <1>3, <1>4, CommitCounts

\* Beginning an activation counts one occurrence.
LEMMA BeginCounts ==
  ASSUME Inv, NEW f, NEW n, NEW v,
         \/ BeginPacked(f, n) \/ BeginMessage(f, n) \/ BeginEntry(f, n)
         \/ EntryKey(v) \/ EntryScalar(v) \/ BeginEntryMessage(n) \/ BeginGroup
  PROVE  Counts
<1>1. ~TooMany
  BY DEF BeginPacked, BeginMessage, BeginEntry, EntryKey, EntryScalar, BeginEntryMessage,
         BeginGroup, Starts, Reading
<1>2. Fail \/ \E frames : Advance(frames)
  BY DEF BeginPacked, BeginMessage, BeginEntry, EntryKey, EntryScalar, BeginEntryMessage,
         BeginGroup
<1> QED BY <1>1, <1>2, FailCounts, AdvanceCounts

\* An element of a packed occurrence is not counted: the occurrence was.
LEMMA PackedElementCounts ==
  ASSUME Inv, NEW v, PackedElement(v)
  PROVE  Counts
<1>1. \/ Fail
      \/ /\ \E fr : stack' = Append(Below(1), fr)
         /\ options' = options /\ field_occurrences' = field_occurrences
         /\ audit_bytes' = audit_bytes
  BY DEF PackedElement
<1>2. 1 \in 1 .. Len(stack)
  BY StackHeights DEF PackedElement, Packing
<1> QED BY <1>1, <1>2, FailCounts, PopLength, UncountedCounts

\* Ending an activation counts nothing, and the caller keeps the record.
LEMMA EndCounts ==
  ASSUME Inv, EndPacked \/ EndSubmessage \/ EndElement \/ EndEntry \/ EndEntryMessage
  PROVE  Counts
<1>1. status = "decoding"
  BY DEF EndPacked, EndSubmessage, EndElement, EndEntry, EndEntryMessage, Packing, Ends
<1>2. Len(stack) > 1
  <2>1. CASE EndPacked \/ EndEntry
    BY <1>1, <2>1, StackHeights DEF EndPacked, EndEntry, Packing
  <2>2. CASE EndSubmessage \/ EndElement
    BY <2>2 DEF EndSubmessage, EndElement
  <2>3. CASE EndEntryMessage
    <3>1. Top.via # None
      BY <2>3, ValueAssumption DEF EndEntryMessage, MapField
    <3> QED BY <1>1, <3>1, StackHeights
  <2> QED BY <2>1, <2>2, <2>3
<1>3. 2 \in 1 .. Len(stack) /\ Top.size \in Nat /\ 0 \in {0, 1} /\ 0 # 1
  BY <1>1, <1>2, StackHeights
<1>4. \/ Fail
      \/ \E fr, tag, f, payload : Commit(Below(2), fr, tag, f, payload, Top.size, 0)
      \/ /\ \E fr : stack' = Append(Below(2), fr)
         /\ options' = options /\ field_occurrences' = field_occurrences
         /\ audit_bytes' = audit_bytes
  BY DEF EndPacked, EndSubmessage, EndElement, EndEntry, EndEntryMessage
<1>5. CASE \E fr, tag, f, payload : Commit(Below(2), fr, tag, f, payload, Top.size, 0)
  BY <1>3, <1>5, CommitCounts
<1>6. CASE /\ \E fr : stack' = Append(Below(2), fr)
           /\ options' = options /\ field_occurrences' = field_occurrences
           /\ audit_bytes' = audit_bytes
  BY <1>3, <1>6, PopLength, UncountedCounts
<1> QED BY <1>4, <1>5, <1>6, FailCounts

\* A skipped value is counted once.
LEMMA SkipCounts ==
  ASSUME Inv, SkipScalar \/ EndGroup \/ \E n \in Nat : SkipBytes(n)
  PROVE  Counts
<1>1. status = "decoding" /\ ~TooMany
  BY DEF SkipScalar, EndGroup, SkipBytes, Reading
<1>2. 1 \in 1 .. Len(stack)
  BY <1>1, StackHeights
<1>3. ASSUME NEW wire, NEW size \in Nat, Skip(wire, size) PROVE Counts
  <2>1. \/ Fail
        \/ \E fr, tag : Commit(Below(1), fr, tag, None, <<wire>>, size, 1)
        \/ \E frames : Advance(frames)
    BY <1>3 DEF Skip, CommitUnknown
  <2>2. 1 \in {0, 1}
    OBVIOUS
  <2> QED BY <1>1, <1>2, <2>1, <2>2, FailCounts, CommitCounts, AdvanceCounts
<1>4. CASE SkipScalar
  BY <1>3, <1>4 DEF SkipScalar
<1>5. ASSUME NEW n \in Nat, SkipBytes(n) PROVE Counts
  <2>1. n + 2 \in Nat
    OBVIOUS
  <2> QED BY <1>3, <1>5, <2>1, FailCounts DEF SkipBytes
<1>6. CASE EndGroup
  <2> DEFINE size == Top.size - (Top.left - 1)
  <2>1. Top.kind = "group"
    BY <1>6 DEF EndGroup, Reading
  <2>2. size \in Nat /\ 2 \in 1 .. Len(stack)
    BY <1>1, <2>1, StackHeights
  <2>3. \/ Fail
        \/ \E fr, tag : Commit(Below(2), fr, tag, None, <<WireGroup>>, size, 1)
        \/ \E frames : Advance(frames)
    BY <1>6 DEF EndGroup, CommitUnknown
  <2>4. 1 \in {0, 1}
    OBVIOUS
  <2> HIDE DEF size
  <2> QED BY <1>1, <2>2, <2>3, <2>4, FailCounts, CommitCounts, AdvanceCounts
<1> QED BY <1>4, <1>5, <1>6

\* Every step counts so.
LEMMA EveryStepCounts ==
  ASSUME Inv, Inv3, [Next]_vars
  PROVE  Counts
<1>0. 0 .. MaxInput \subseteq Nat
  BY InputAssumption
<1>1. ASSUME NEW type, NEW n, Decode(type, n) PROVE Counts
  <2>1. stack = <<>>
    BY <1>1 DEF Decode, Inv3
  <2> QED BY <1>1, <2>1, FailCounts, UncountedCounts DEF Decode
<1>2. CASE CountField \/ Malformed \/ Unterminated
  BY <1>2, FailCounts DEF CountField, Malformed, Unterminated
<1>3. CASE EndRoot \/ Terminated \/ UNCHANGED vars
  <2>1. \/ Fail
        \/ /\ options' = options /\ field_occurrences' = field_occurrences
           /\ audit_bytes' = audit_bytes /\ stack' = stack
    BY <1>3 DEF EndRoot, Terminated, vars
  <2>2. Len(stack) <= Len(stack)
    BY Activations
  <2> QED BY <2>1, <2>2, FailCounts, UncountedCounts
<1>4. ASSUME NEW f \in Field, NEW v \in Scalar,
             UnknownEnumValue(f, v) \/ SingularScalar(f, v) \/ UnpackedElement(f, v)
      PROVE  Counts
  BY <1>4, ReadCounts
<1>5. ASSUME NEW f, NEW n, BeginPacked(f, n) \/ BeginMessage(f, n) \/ BeginEntry(f, n)
      PROVE  Counts
  BY <1>5, BeginCounts
<1>6. ASSUME NEW v, EntryKey(v) \/ EntryScalar(v) PROVE Counts
  BY <1>6, BeginCounts
<1>7. ASSUME NEW n \in 0 .. MaxInput, BeginEntryMessage(n) \/ SkipBytes(n) PROVE Counts
  BY <1>0, <1>7, BeginCounts, SkipCounts
<1>8. ASSUME NEW v, PackedElement(v) PROVE Counts
  BY <1>8, PackedElementCounts
<1>9. CASE EndPacked \/ EndSubmessage \/ EndElement \/ EndEntry \/ EndEntryMessage
  BY <1>9, EndCounts
<1>10. CASE SkipScalar \/ EndGroup
  BY <1>10, SkipCounts
<1>11. CASE BeginGroup
  BY <1>11, BeginCounts
<1> QED BY <1>1, <1>2, <1>3, <1>4, <1>5, <1>6, <1>7, <1>8, <1>9, <1>10, <1>11 DEF Next

-----------------------------------------------------------------------------
(* Every step pays for what it keeps.                                      *)

\* A fresh activation has no record.
LEMMA FreshHasNone ==
  ASSUME NEW fr, Fresh(fr)
  PROVE  \A a, j : ~RecordAt(fr.msg, a, j)
<1>1. fr.msg = New /\ DOMAIN New = {<<>>} /\ New[<<>>] = EmptyNode
  BY DEF Fresh, New
<1>2. DOMAIN EmptyNode.audit = {}
  BY DEF EmptyNode
<1> QED BY <1>1, <1>2 DEF RecordAt

\* An activation that keeps no record in this step.
LEMMA QuietFewer ==
  ASSUME NEW old, IsMessage(old.msg), NEW fr, fr.msg = old.msg \/ ReadsElement(fr, old)
  PROVE  Fewer(fr.msg, old.msg)
<1> DEFINE m == old.msg
           x == fr.msg
<1>1. \/ x = m
      \/ \E entries : x = KeepUnknown(m, entries)
      \/ \E f, xs : x = SetRep(m, f, xs)
  BY DEF ReadsElement
<1>2. Rooted(m)
  BY MessageRooted
<1> HIDE DEF m, x
<1>3. Rewrites(m, m, m[<<>>].scalar, m[<<>>].rep, m[<<>>].map, m[<<>>].unknown, m[<<>>].audit)
  BY <1>2, NothingWritten
<1>4. \E s, r, e, u : Rewrites(x, m, s, r, e, u, m[<<>>].audit)
  <2>1. CASE x = m
    BY <1>3, <2>1
  <2>2. ASSUME NEW entries, x = KeepUnknown(m, entries)
        PROVE  \E s, r, e, u : Rewrites(x, m, s, r, e, u, m[<<>>].audit)
    <3>1. Rewrites(KeepUnknown(m, entries), m, m[<<>>].scalar, m[<<>>].rep, m[<<>>].map,
                   KeptUnknown(m[<<>>].unknown, entries), m[<<>>].audit)
      BY <1>3, PolicyWrites
    <3> QED BY <2>2, <3>1
  <2>3. ASSUME NEW f, NEW xs, x = SetRep(m, f, xs)
        PROVE  \E s, r, e, u : Rewrites(x, m, s, r, e, u, m[<<>>].audit)
    <3>1. Rewrites(SetRep(m, f, xs), m, m[<<>>].scalar, [m[<<>>].rep EXCEPT ![f] = xs],
                   m[<<>>].map, m[<<>>].unknown, m[<<>>].audit)
      BY <1>3, RootWrites
    <3> QED BY <2>3, <3>1
  <2> QED BY <1>1, <2>1, <2>2, <2>3
<1>5. DOMAIN x = DOMAIN m /\ \A a \in DOMAIN m : x[a].audit = m[a].audit
  BY <1>4 DEF Rewrites
<1>6. Fewer(x, m)
  BY <1>5 DEF Fewer, RecordAt
<1> QED BY <1>6 DEF x, m

\* The activation fr takes the place of the k-th in the stack t, with at most
\* a fresh one above it.
Resumed(t, k, fr) ==
  /\ k \in 1 .. Len(stack) /\ k \in DOMAIN t /\ t[k] = fr
  /\ Len(t) \in Nat /\ Len(t) <= Len(stack) + 1
  /\ \A i \in 1 .. k - 1 : i \in DOMAIN stack /\ t[i] = stack[i]
  /\ \A i \in DOMAIN t : i \in 1 .. k \/ Fresh(t[i])

\* The activation that goes on is resumed, with or without a callee.
LEMMA TurnResumes ==
  ASSUME Inv, NEW k \in 1 .. Len(stack), NEW fr, NEW callee, Fresh(callee)
  PROVE  /\ Resumed(Append(SubSeq(stack, 1, k - 1), fr), k, fr)
         /\ Resumed(Append(Append(SubSeq(stack, 1, k - 1), fr), callee), k, fr)
<1> DEFINE below == SubSeq(stack, 1, k - 1)
           S     == Frame \cup {fr, callee}
           t     == Append(below, fr)
           u     == Append(t, callee)
<1>1. /\ stack \in Seq(Frame) /\ Len(stack) \in Nat /\ DOMAIN stack = 1 .. Len(stack)
      /\ k - 1 \in 0 .. Len(stack) /\ k \in Nat
  BY Activations
<1>2. below \in Seq(Frame) /\ Len(below) = k - 1 /\ \A j \in 1 .. k - 1 : below[j] = stack[j]
  BY <1>1, PrefixProperties
<1>3. below \in Seq(S) /\ fr \in S /\ callee \in S
  BY <1>2
<1> HIDE DEF below, S
<1>4. /\ t \in Seq(S) /\ Len(t) = k /\ t[k] = fr /\ DOMAIN t = 1 .. k
      /\ \A j \in 1 .. k - 1 : t[j] = stack[j]
  <2>1. /\ t \in Seq(S) /\ Len(t) = Len(below) + 1 /\ t[Len(below) + 1] = fr
        /\ \A j \in 1 .. Len(below) : t[j] = below[j]
    BY <1>3, AppendProperties
  <2>2. DOMAIN t = 1 .. Len(t)
    BY <2>1, LenProperties
  <2> QED BY <1>1, <1>2, <2>1, <2>2
<1> HIDE DEF t
<1>5. /\ u \in Seq(S) /\ Len(u) = k + 1 /\ DOMAIN u = 1 .. k + 1 /\ u[k + 1] = callee
      /\ \A j \in 1 .. k : u[j] = t[j]
  <2>1. /\ u \in Seq(S) /\ Len(u) = Len(t) + 1 /\ u[Len(t) + 1] = callee
        /\ \A j \in 1 .. Len(t) : u[j] = t[j]
    BY <1>3, <1>4, AppendProperties
  <2>2. DOMAIN u = 1 .. Len(u)
    BY <2>1, LenProperties
  <2> QED BY <1>1, <1>4, <2>1, <2>2
<1>6. \A i \in 1 .. k - 1 : i \in DOMAIN stack /\ i \in 1 .. k
  BY <1>1
<1>7. Resumed(t, k, fr)
  BY <1>1, <1>4, <1>6 DEF Resumed
<1> HIDE DEF u
<1>8. Resumed(u, k, fr)
  <2>1. k \in DOMAIN u /\ u[k] = fr
    BY <1>1, <1>4, <1>5
  <2>2. \A i \in 1 .. k - 1 : i \in DOMAIN stack /\ u[i] = stack[i]
    BY <1>4, <1>5, <1>6
  <2>3. \A i \in DOMAIN u : i \in 1 .. k \/ Fresh(u[i])
    <3> TAKE i \in DOMAIN u
    <3>1. i \in 1 .. k \/ i = k + 1
      BY <1>1, <1>5
    <3> QED BY <1>5, <3>1
  <2>4. Len(u) \in Nat /\ Len(u) <= Len(stack) + 1
    BY <1>1, <1>5
  <2> QED BY <2>1, <2>2, <2>3, <2>4 DEF Resumed
<1> QED BY <1>7, <1>8 DEF t, u, below

\* Where a step leaves the stack.
LEMMA MovesResume ==
  ASSUME Inv, Moves
  PROVE  \/ stack' = <<>> \/ stack' = stack
         \/ \E k, fr : Turn(k, fr) /\ Resumed(stack', k, fr)
         \/ \E callee : Fresh(callee) /\ stack' = Append(stack, callee)
<1>1. ASSUME NEW k \in 1 .. Len(stack), NEW fr, Turn(k, fr),
             \/ stack' = Append(SubSeq(stack, 1, k - 1), fr)
             \/ \E callee : /\ Fresh(callee)
                            /\ stack' = Append(Append(SubSeq(stack, 1, k - 1), fr), callee)
      PROVE  Turn(k, fr) /\ Resumed(stack', k, fr)
  <2>1. \E callee : Fresh(callee)
    BY FreshFrames
  <2>2. CASE stack' = Append(SubSeq(stack, 1, k - 1), fr)
    BY <1>1, <2>1, <2>2, TurnResumes
  <2>3. CASE \E callee : /\ Fresh(callee)
                         /\ stack' = Append(Append(SubSeq(stack, 1, k - 1), fr), callee)
    BY <1>1, <2>3, TurnResumes
  <2> QED BY <1>1, <2>2, <2>3
<1> QED BY <1>1 DEF Moves

CountersInv ==
  /\ Pays(stack, field_occurrences, audit_bytes)
  /\ field_occurrences <= options.max_field_occurrences
  /\ audit_bytes <= options.max_audit_bytes

\* The messages of a stack.
LEMMA StackMessages ==
  ASSUME NEW s, NEW l, StackOK(s, l)
  PROVE  /\ s \in Seq(Frame) /\ Len(s) \in Nat /\ DOMAIN s = 1 .. Len(s)
         /\ \A i \in DOMAIN s : IsMessage(s[i].msg)
<1>1. s \in Seq(Frame) /\ Len(s) \in Nat /\ DOMAIN s = 1 .. Len(s)
  BY DEF StackOK
<1>2. \A i \in DOMAIN s : IsMessage(s[i].msg)
  BY <1>1 DEF StackOK, Sound, Fits
<1> QED BY <1>1, <1>2

\* The places of a stack and the sum of its bytes are numbers.
LEMMA PaysTyped ==
  ASSUME NEW s, \A i \in DOMAIN s : IsMessage(s[i].msg), IsFiniteSet(RecordsOf(s))
  PROVE  /\ Cardinality(RecordsOf(s)) \in Nat
         /\ SumFunctionOnSet(BytesOf(s), RecordsOf(s)) \in Nat
BY BytesTyped, FS_CardinalityType, SumTyped

\* A step without a record.
LEMMA QuietPays ==
  ASSUME Inv, NEW t, NEW l, StackOK(t, l), NEW n \in Nat, NEW b \in Nat,
         Pays(stack, field_occurrences, audit_bytes), audit_bytes <= b,
         \A i \in DOMAIN t : \/ i \in DOMAIN stack /\ Fewer(t[i].msg, stack[i].msg)
                             \/ \A a, j : ~RecordAt(t[i].msg, a, j),
         \/ Len(t) + field_occurrences <= Len(stack) + n
         \/ stack = <<>> /\ Len(t) <= 1
  PROVE  Pays(t, n, b)
<1>1. /\ \A i \in DOMAIN stack : IsMessage(stack[i].msg) /\ Len(stack) \in Nat
      /\ field_occurrences \in Nat /\ audit_bytes \in Nat
  BY Activations DEF Inv
<1>2. Len(t) \in Nat /\ \A i \in DOMAIN t : IsMessage(t[i].msg)
  BY StackMessages
<1> DEFINE s == stack
           c == Cardinality(RecordsOf(s))
           d == Cardinality(RecordsOf(t))
           x == SumFunctionOnSet(BytesOf(s), RecordsOf(s))
           y == SumFunctionOnSet(BytesOf(t), RecordsOf(t))
<1>3. IsFiniteSet(RecordsOf(s)) /\ c + Len(s) <= field_occurrences + 1 /\ x <= audit_bytes
  BY DEF Pays
<1>4. IsFiniteSet(RecordsOf(t)) /\ d <= c /\ y <= x
  BY <1>1, NothingRecorded
<1>5. c \in Nat /\ x \in Nat
  BY <1>1, <1>3, PaysTyped
<1>6. d \in Nat /\ y \in Nat
  BY <1>2, <1>4, PaysTyped
<1>7. s = <<>> => c = 0
  <2>1. RecordsOf(<<>>) = {}
    BY DEF RecordsOf
  <2> QED BY <2>1, FS_EmptySet
<1>8. Len(t) + field_occurrences <= Len(s) + n \/ (s = <<>> /\ Len(t) <= 1)
  OBVIOUS
<1> HIDE DEF c, d, x, y, s
<1>9. d + Len(t) <= n + 1 /\ y <= b
  BY <1>1, <1>2, <1>3, <1>4, <1>5, <1>6, <1>7, <1>8 DEF s
<1> QED BY <1>4, <1>9 DEF Pays, d, y

\* A step with a record.
LEMMA RecordPays ==
  ASSUME Inv, NEW t, NEW l, StackOK(t, l), NEW n \in Nat, NEW b \in Nat, NEW k, NEW fr,
         Pays(stack, field_occurrences, audit_bytes), audit_bytes <= b, Resumed(t, k, fr),
         Len(t) + field_occurrences < Len(stack) + n,
         NEW mid, NEW tag, NEW f, NEW payload, Stores(k, mid, tag, f, payload),
         fr.msg = PushAudit(mid, [tag |-> tag, field |-> f, payload |-> payload,
                                  bytes |-> b - audit_bytes])
  PROVE  Pays(t, n, b)
<1> DEFINE record == [tag |-> tag, field |-> f, payload |-> payload, bytes |-> b - audit_bytes]
           m   == stack[k].msg
           new == PushAudit(mid, record)
           p   == Len(Trail(m)) + 1
           sub == stack[k + 1].msg
<1>1. /\ \A i \in DOMAIN stack : IsMessage(stack[i].msg)
      /\ Len(stack) \in Nat /\ DOMAIN stack = 1 .. Len(stack)
      /\ field_occurrences \in Nat /\ audit_bytes \in Nat
  BY Activations DEF Inv
<1>2. Len(t) \in Nat /\ \A i \in DOMAIN t : IsMessage(t[i].msg)
  BY StackMessages
<1>3. /\ k \in 1 .. Len(stack) /\ k \in DOMAIN stack /\ k \in Nat \ {0} /\ IsMessage(m)
      /\ k \in DOMAIN t /\ t[k] = fr
  BY <1>1 DEF Resumed
<1>4. \A i \in DOMAIN t : i \in 1 .. k \/ \A a, j : ~RecordAt(t[i].msg, a, j)
  BY FreshHasNone DEF Resumed
<1>5. \A i \in 1 .. k - 1 : i \in DOMAIN stack /\ t[i] = stack[i]
  BY DEF Resumed
<1>6. record.bytes = b - audit_bytes
  OBVIOUS
<1> HIDE DEF record
<1>7. \E merged \in BOOLEAN : /\ KeepsOne(new, m, f, sub, merged, record)
                              /\ merged => k + 1 \in DOMAIN stack
  <2>1. CASE StoresAlone(m, mid, tag, f, payload) \/ StoresPacked(m, mid, tag, f, payload, stack[k + 1])
    <3> HIDE DEF m, sub
    <3>1. KeepsOne(PushAudit(mid, record), m, f, sub, FALSE, record)
      BY <1>3, <2>1, AloneOneMore
    <3> QED BY <3>1
  <2>2. CASE k + 1 \in 1 .. Len(stack) /\ StoresSubmessage(m, mid, tag, f, payload, stack[k + 1])
    <3>1. IsMessage(sub) /\ k + 1 \in DOMAIN stack
      BY <1>1, <2>2
    <3> DEFINE callee == stack[k + 1]
    <3>2. StoresSubmessage(m, mid, tag, f, payload, callee) /\ IsMessage(callee.msg)
      BY <2>2, <3>1
    <3> HIDE DEF m, callee
    <3>3. KeepsOne(PushAudit(mid, record), m, f, callee.msg, TRUE, record)
      BY <1>3, <3>2, MergedOneMore
    <3> QED BY <3>1, <3>3 DEF callee
  <2> QED BY <2>1, <2>2 DEF Stores
<1>8. fr.msg = new
  BY DEF record
<1> DEFINE s == stack
           c == Cardinality(RecordsOf(s))
           d == Cardinality(RecordsOf(t))
           x == SumFunctionOnSet(BytesOf(s), RecordsOf(s))
           y == SumFunctionOnSet(BytesOf(t), RecordsOf(t))
<1>9. IsFiniteSet(RecordsOf(s)) /\ c + Len(s) <= field_occurrences + 1 /\ x <= audit_bytes
  BY DEF Pays
<1>10. IsFiniteSet(RecordsOf(t)) /\ d <= c + 1 /\ y <= x + (b - audit_bytes)
  <2>1. PICK merged \in BOOLEAN : /\ OneMore(new, m, p, f, sub, merged)
                                  /\ merged => k + 1 \in DOMAIN stack
                                  /\ p \in DOMAIN Trail(new) /\ Trail(new)[p] = record
    BY <1>7 DEF KeepsOne
  <2> HIDE DEF p, new
  <2>2. /\ OneMore(t[k].msg, stack[k].msg, p, f, stack[k + 1].msg, merged)
        /\ p \in DOMAIN t[k].msg[<<>>].audit
        /\ t[k].msg[<<>>].audit[p].bytes = b - audit_bytes
    BY <1>3, <1>6, <1>8, <2>1 DEF Trail
  <2>3. /\ IsFiniteSet(RecordsOf(t)) /\ d <= c + 1
        /\ y <= x + t[k].msg[<<>>].audit[p].bytes
    BY <1>1, <1>2, <1>3, <1>4, <1>5, <1>9, <2>1, <2>2, OneRecorded
  <2> HIDE DEF d, c, x, y
  <2> QED BY <2>2, <2>3
<1>11. c \in Nat /\ x \in Nat
  BY <1>1, <1>9, PaysTyped
<1>12. d \in Nat /\ y \in Nat
  BY <1>2, <1>10, PaysTyped
<1>13. Len(t) + field_occurrences < Len(s) + n
  OBVIOUS
<1> HIDE DEF c, d, x, y, s
<1>14. d + Len(t) <= n + 1 /\ y <= b
  BY <1>1, <1>2, <1>9, <1>10, <1>11, <1>12, <1>13 DEF s
<1> QED BY <1>10, <1>14 DEF Pays, d, y

\* Every step pays for what it keeps.
LEMMA StepPays ==
  ASSUME Inv, Inv', Inv2, Inv3, CountersInv, [Next]_vars
  PROVE  CountersInv'
<1>1. Counts /\ Moves
  BY EveryStepCounts, EveryStepMoves
<1>2. Inv /\ Pays(stack, field_occurrences, audit_bytes)
      /\ field_occurrences <= options.max_field_occurrences
      /\ audit_bytes <= options.max_audit_bytes
  BY DEF CountersInv
<1>3. /\ options \in DecodeOptions /\ field_occurrences \in Nat /\ audit_bytes \in Nat
      /\ options.max_field_occurrences \in Nat /\ options.max_audit_bytes \in Nat
  BY OptionsAssumption DEF Inv, DecodeOptions
<1>4. /\ field_occurrences' \in Nat /\ field_occurrences <= field_occurrences'
      /\ audit_bytes' \in Nat /\ audit_bytes <= audit_bytes'
      /\ field_occurrences' <= options'.max_field_occurrences
      /\ audit_bytes' <= options'.max_audit_bytes
  BY <1>1, <1>2, <1>3 DEF Counts
<1> DEFINE t == stack'
           l == Limit'
           n == field_occurrences'
           b == audit_bytes'
<1>5. StackOK(t, l)
  BY DEF Inv
<1>6. n \in Nat /\ b \in Nat /\ audit_bytes <= b /\ field_occurrences <= n
  BY <1>4
<1>7. /\ \A i \in DOMAIN stack : IsMessage(stack[i].msg) /\ stack[i] \in Frame
      /\ stack \in Seq(Frame) /\ Len(stack) \in Nat /\ DOMAIN stack = 1 .. Len(stack)
  BY <1>2, Activations
<1>8. Len(t) \in Nat /\ DOMAIN t = 1 .. Len(t)
  BY <1>5, StackMessages
<1>9. \A i \in DOMAIN stack : Fewer(stack[i].msg, stack[i].msg)
  BY DEF Fewer, RecordAt
<1>10. \/ t = <<>> \/ stack = <<>> \/ Len(t) <= Len(stack) \/ n = field_occurrences + 1
  BY <1>1 DEF Counts
<1>11. ASSUME \A i \in DOMAIN t : \/ i \in DOMAIN stack /\ Fewer(t[i].msg, stack[i].msg)
                                  \/ \A a, j : ~RecordAt(t[i].msg, a, j),
              Len(t) <= Len(stack) + 1
       PROVE  Pays(t, n, b)
  <2> HIDE DEF t, l, n, b
  <2>1. \/ Len(t) + field_occurrences <= Len(stack) + n
        \/ stack = <<>> /\ Len(t) <= 1
    <3>1. Len(<<>>) = 0
      OBVIOUS
    <3> QED BY <1>3, <1>6, <1>7, <1>8, <1>10, <1>11, <3>1
  <2> QED BY <1>2, <1>5, <1>6, <1>11, <2>1, QuietPays
<1>12. ASSUME t = <<>> PROVE Pays(t, n, b)
  <2>1. Len(<<>>) = 0 /\ DOMAIN <<>> = {}
    OBVIOUS
  <2> HIDE DEF t, n, b
  <2> QED BY <1>7, <1>11, <1>12, <2>1
<1>13. ASSUME t = stack PROVE Pays(t, n, b)
  <2> HIDE DEF t, n, b
  <2> QED BY <1>7, <1>9, <1>11, <1>13
<1>14. ASSUME NEW callee, Fresh(callee), t = Append(stack, callee)
       PROVE  Pays(t, n, b)
  <2> DEFINE S == Frame \cup {callee}
  <2>1. stack \in Seq(S) /\ callee \in S
    BY <1>7
  <2> HIDE DEF S, t, n, b
  <2>2. /\ Len(t) = Len(stack) + 1 /\ t[Len(stack) + 1] = callee
        /\ \A i \in 1 .. Len(stack) : t[i] = stack[i]
    BY <1>14, <2>1, AppendProperties
  <2>3. ASSUME NEW i \in DOMAIN t
        PROVE  \/ i \in DOMAIN stack /\ Fewer(t[i].msg, stack[i].msg)
               \/ \A a, j : ~RecordAt(t[i].msg, a, j)
    <3>1. CASE i \in 1 .. Len(stack)
      BY <1>7, <1>9, <2>2, <3>1
    <3>2. CASE i = Len(stack) + 1
      BY <1>14, <2>2, <3>2, FreshHasNone
    <3> QED BY <1>7, <1>8, <2>2, <3>1, <3>2
  <2> QED BY <1>7, <1>11, <2>2, <2>3
<1>15. ASSUME NEW k, NEW fr, Turn(k, fr), Resumed(t, k, fr)
       PROVE  Pays(t, n, b)
  <2>1. CASE fr.msg = stack[k].msg \/ ReadsElement(fr, stack[k])
    <3>1. /\ k \in DOMAIN stack /\ t[k] = fr /\ Len(t) <= Len(stack) + 1
          /\ \A i \in 1 .. k - 1 : i \in DOMAIN stack /\ t[i] = stack[i]
          /\ \A i \in DOMAIN t : i \in 1 .. k \/ Fresh(t[i])
      BY <1>7, <1>15 DEF Resumed
    <3>2. Fewer(fr.msg, stack[k].msg)
      BY <1>7, <2>1, <3>1, QuietFewer
    <3> HIDE DEF t, n, b
    <3>3. ASSUME NEW i \in DOMAIN t
          PROVE  \/ i \in DOMAIN stack /\ Fewer(t[i].msg, stack[i].msg)
                 \/ \A a, j : ~RecordAt(t[i].msg, a, j)
      <4>1. CASE i \in 1 .. k - 1
        BY <1>9, <3>1, <4>1
      <4>2. CASE i = k
        BY <3>1, <3>2, <4>2
      <4>3. CASE Fresh(t[i])
        BY <4>3, FreshHasNone
      <4>4. i \in 1 .. k - 1 \/ i = k \/ Fresh(t[i])
        BY <1>7, <1>8, <3>1
      <4> QED BY <4>1, <4>2, <4>3, <4>4
    <3> QED BY <1>11, <3>1, <3>3
  <2>2. CASE /\ PaysRecord
             /\ \E mid, tag, f, payload :
                  /\ Stores(k, mid, tag, f, payload)
                  /\ fr.msg = PushAudit(mid, [tag |-> tag, field |-> f, payload |-> payload,
                                              bytes |-> audit_bytes' - audit_bytes])
    <3>1. PICK mid, tag, f, payload :
             /\ Stores(k, mid, tag, f, payload)
             /\ fr.msg = PushAudit(mid, [tag |-> tag, field |-> f, payload |-> payload,
                                         bytes |-> b - audit_bytes])
      BY <2>2
    <3>2. Len(t) + field_occurrences < Len(stack) + n
      BY <2>2 DEF PaysRecord
    <3> HIDE DEF t, l, n, b
    <3> QED BY <1>2, <1>5, <1>6, <1>15, <3>1, <3>2, RecordPays
  <2> QED BY <1>15, <2>1, <2>2 DEF Turn
<1>16. Pays(t, n, b)
  <2>1. \/ t = <<>> \/ t = stack
        \/ \E k, fr : Turn(k, fr) /\ Resumed(t, k, fr)
        \/ \E callee : Fresh(callee) /\ t = Append(stack, callee)
    BY <1>1, <1>2, MovesResume
  <2> HIDE DEF t, n, b
  <2> QED BY <1>12, <1>13, <1>14, <1>15, <2>1
<1> QED BY <1>4, <1>16 DEF CountersInv

\* What is paid for, as the model sums it.
LEMMA PaidCounters ==
  ASSUME Inv, CountersInv
  PROVE  CountersPayForTrail
<1>1. AllRecords = RecordsOf(stack)
  BY DEF AllRecords, RecordsOf
<1>2. RecordBytes = BytesOf(stack) /\ DOMAIN RecordBytes = RecordsOf(stack)
  BY <1>1 DEF RecordBytes, BytesOf
<1>3. SumFunction(RecordBytes) = SumFunctionOnSet(BytesOf(stack), RecordsOf(stack))
  BY <1>2 DEF SumFunction
<1> QED BY <1>1, <1>3 DEF CountersPayForTrail, CountersInv, Pays

\* The counters of a call, which its whole nest of submessages shares, pay for
\* everything the call retains: each record and each open activation is a
\* counted occurrence, each retained byte a counted byte, and neither counter
\* passes its limit.
THEOREM CountersDoPay == Spec => []CountersPayForTrail
<1>1. Init => Inv3 /\ CountersInv
  <2> DEFINE R == RecordsOf(<<>>)
             w == BytesOf(<<>>)
  <2>1. R = {} /\ Len(<<>>) = 0
    BY DEF RecordsOf
  <2> HIDE DEF R, w
  <2>2. SumFunctionOnSet(w, R) = 0
    BY <2>1, SumNothing
  <2>3. IsFiniteSet(R) /\ Cardinality(R) = 0
    BY <2>1, FS_EmptySet
  <2>4. ASSUME NEW o \in Options
        PROVE  0 <= o.max_field_occurrences /\ 0 <= o.max_audit_bytes
    <3>1. o \in DecodeOptions
      BY OptionsAssumption
    <3>2. o.max_field_occurrences \in Nat /\ o.max_audit_bytes \in Nat
      BY <3>1 DEF DecodeOptions
    <3> QED BY <3>2
  <2>5. Pays(<<>>, 0, 0)
    BY <2>1, <2>2, <2>3 DEF Pays, R, w
  <2> QED BY <2>4, <2>5 DEF Init, Inv3, CountersInv
<1>2. Inv /\ Inv' /\ Inv2 /\ Inv3 /\ CountersInv /\ [Next]_vars => Inv3' /\ CountersInv'
  BY EveryStepGrows, StepPays DEF Step, Inv3
<1>3. Inv /\ CountersInv => CountersPayForTrail
  BY PaidCounters
<1> QED BY <1>1, <1>2, <1>3, Invariance, Retention, PTL DEF Spec
==============================================================================
