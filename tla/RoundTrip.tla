------------------------------ MODULE RoundTrip ------------------------------
(***************************************************************************)
(* Decode, encode and decode again.                                        *)
(*                                                                         *)
(* The first pass is Decoder on any input.  What it returns is encoded     *)
(* with any of the callers' options, and the second pass is Decoder again, *)
(* on the input that the encoder wrote and under the strictest options     *)
(* that input can be expected to meet.  pending holds, for each activation *)
(* of the second pass, the occurrences it still has to read; a step of the *)
(* second pass is the step of Decoder that reads the next of them.         *)
(***************************************************************************)
EXTENDS Decoder, Encoder

CONSTANTS
  EncodeChoices, \* the EncodeOptions values callers use
  Unlimited      \* DecodeOptions of the second pass, its policies apart

\* Messages in repeated fields and maps have no contents in the model, and no
\* message can be displaced, so every record can be written from its payload.
ASSUME RoundTripAssumption ==
  /\ EncodeChoices \subseteq EncodeOptions
  /\ Unlimited \in DecodeOptions
  /\ \A f \in Field : Desc[f].child # None => f \in MessageField /\ Desc[f].oneof = None

VARIABLES
  phase,   \* "first", "refused" or "second"
  sent,    \* the message that was encoded, None before
  chosen,  \* the encode options, None before
  pending  \* what the activations of the second pass have yet to read

allVars == <<options, field_occurrences, audit_bytes, stack, status,
             phase, sent, chosen, pending>>

RoundTripInit ==
  Init /\ phase = "first" /\ sent = None /\ chosen = None /\ pending = <<>>

FirstPass == phase = "first" /\ Next /\ UNCHANGED <<phase, sent, chosen, pending>>

-----------------------------------------------------------------------------
(* The encoding and the options of the second pass.                        *)

\* Nothing that LastOnly writes is a duplicate, and without forwarding nothing
\* written is unknown.
Strictest(e) ==
  [Unlimited EXCEPT
     !.duplicates = IF e.duplicates = "LastOnly" THEN "Reject" ELSE "Allow",
     !.unknown_fields = IF e.forward_unknown_fields \/ e.forward_unknown_messages
                        THEN "Preserve" ELSE "Reject",
     !.enum_values = options.enum_values]

Output == Encoded(sent, chosen)

Encode(e) ==
  /\ phase = "first" /\ status = "ok"
  /\ chosen' = e
  /\ LET m    == stack[1].msg
         root == stack[1].type
     IN  IF Refuses(m, root, e)
         THEN phase' = "refused" /\ UNCHANGED <<vars, sent, pending>>
         ELSE /\ phase' = "second"
              /\ sent' = m
              /\ options' = Strictest(e)
              /\ field_occurrences' = 0 /\ audit_bytes' = 0
              /\ stack' = <<MessageFrame(root, None, 0, Sizes(Encoded(m, e))[<<>>], 0)>>
              /\ status' = "decoding"
              /\ pending' = <<Encoded(m, e)[<<>>]>>

-----------------------------------------------------------------------------
(* The second pass.                                                        *)

\* The address of the current message, whose activations are all messages.
Here == [i \in 1 .. Len(stack) - 1 |-> stack[i + 1].via]

\* The activation has something left to read, and next is that.
Rereading == phase = "second" /\ status = "decoding"
NextIs(form) == Rereading /\ Last(pending) # <<>> /\ Head(Last(pending)).form = form
NextField    == Head(Last(pending)).field
NextPayload  == Head(Last(pending)).payload

\* What remains after a step: the rest of this activation and what a new one
\* has to read; nothing after an error.
Remaining(opened) ==
  /\ pending' = IF status' = "error" THEN <<>>
                ELSE Front(pending) \o <<Tail(Last(pending))>> \o opened
  /\ UNCHANGED <<phase, sent, chosen>>

RereadScalar ==
  /\ NextIs("scalar")
  /\ \/ UnknownEnumValue(NextField, NextPayload[1])
     \/ SingularScalar(NextField, NextPayload[1])
     \/ UnpackedElement(NextField, NextPayload[1])
  /\ Remaining(<<>>)

RereadPacked ==
  /\ NextIs("packed")
  /\ BeginPacked(NextField, Len(NextPayload))
  /\ Remaining(<<[i \in DOMAIN NextPayload |->
                    Occurrence("element", NextField, <<NextPayload[i]>>)]>>)

RereadElement ==
  NextIs("element") /\ PackedElement(NextPayload[1]) /\ Remaining(<<>>)

RereadMessage ==
  /\ NextIs("message")
  /\ LET a == Append(Here, NextField)
     IN  BeginMessage(NextField, Sizes(Output)[a]) /\ Remaining(<<Output[a]>>)

RereadEntry ==
  /\ NextIs("entry")
  /\ BeginEntry(NextField, 4)
  /\ Remaining(<<<<Occurrence("key", NextField, <<NextPayload[1]>>),
                   Occurrence("value", NextField, <<NextPayload[2]>>)>>>>)

RereadKey   == NextIs("key")   /\ EntryKey(NextPayload[1])    /\ Remaining(<<>>)
RereadValue == NextIs("value") /\ EntryScalar(NextPayload[1]) /\ Remaining(<<>>)

\* An unknown group is written with nothing in it.
RereadUnknown ==
  /\ NextIs("unknown")
  /\ CASE NextPayload[1] = WireVarint -> SkipScalar /\ Remaining(<<>>)
       [] NextPayload[1] = WireBytes  -> SkipBytes(0) /\ Remaining(<<>>)
       [] NextPayload[1] = WireGroup  -> BeginGroup /\ Remaining(<<<<>>>>)

\* The activation has read all it was given.
Return ==
  /\ Rereading /\ Last(pending) = <<>>
  /\ EndPacked \/ EndSubmessage \/ EndRoot \/ EndEntry \/ EndGroup
  /\ pending' = Front(pending)
  /\ UNCHANGED <<phase, sent, chosen>>

Stop == phase = "refused" /\ UNCHANGED allVars

Done == phase = "second" /\ Terminated /\ UNCHANGED <<phase, sent, chosen, pending>>

RoundTripNext ==
  \/ FirstPass
  \/ \E e \in EncodeChoices : Encode(e)
  \/ RereadScalar \/ RereadPacked \/ RereadElement \/ RereadMessage
  \/ RereadEntry \/ RereadKey \/ RereadValue \/ RereadUnknown
  \/ Return
  \/ Stop
  \/ Done

RoundTripSpec == RoundTripInit /\ [][RoundTripNext]_allVars

-----------------------------------------------------------------------------
(* Properties.                                                             *)

\* The second pass has returned a message.
Reread == phase = "second" /\ status = "ok"

\* PreserveAll can bring back a displaced value: an implicit default is not
\* written after it, and sorting by number reorders the members of a oneof.
Restored(m, a, f) ==
  /\ chosen.duplicates = "PreserveAll"
  /\ \/ f \in Implicit /\ m[a].scalar[f] = 0
     \/ Desc[f].oneof # None /\ chosen.field_order = "FieldNumber"

ForwardedOf(m, a, f) == SelectSeq(m[a].unknown, LAMBDA u : u.field = f /\ Forwards(u, chosen))

\* The decoder accepts whatever the encoder writes, under options that refuse
\* duplicates when LastOnly was chosen and unknown fields when none are
\* forwarded, and gives the message back, in every submessage: each scalar (the
\* default of an implicit field apart, which is absence), each element in order,
\* each entry, and the unknown fields that were forwarded, in order for each
\* number, whatever the options.
SurvivesReencoding ==
  /\ phase = "second" => status # "error"
  /\ Reread => LET n == stack[1].msg IN
     /\ DOMAIN n = DOMAIN sent
     /\ \A a \in DOMAIN n :
          /\ \A f \in ScalarField : ~Restored(sent, a, f) =>
               n[a].scalar[f] = IF f \in Implicit /\ sent[a].scalar[f] = 0
                                THEN None ELSE sent[a].scalar[f]
          /\ \A f \in RepeatedField : Items(n[a].rep[f]) = Items(sent[a].rep[f])
          /\ n[a].map = sent[a].map
          /\ \A f \in Field \cup {None} :
               SelectSeq(n[a].unknown, LAMBDA u : u.field = f) = ForwardedOf(sent, a, f)

\* encode refuses no message that was decoded with duplicates rejected, but for
\* its size and for the undeclared numbers that a map of closed enums keeps.
StrictlyDecodedEncodes ==
  phase = "refused" /\ options.duplicates = "Reject" =>
    LET m == stack[1].msg IN
    \/ TooLarge(m, chosen)
    \/ \E a \in DOMAIN m : \E f \in MapField :
         Desc[f].enum = "closed" /\ \E k \in Keys(m[a].map[f]) : m[a].map[f][k] \notin KnownValue

HistoryOf(m, S) ==
  LET own == SelectSeq(m[<<>>].audit, LAMBDA r : r.field \in S /\ r.tag # "UnknownField")
  IN  [i \in DOMAIN own |-> <<own[i].field, own[i].payload>>]

\* PreserveAll passes on the whole history of the root's singular fields: the
\* trail of the message read back names the same occurrences in the same order.
HistoryPreserved ==
  Reread /\ chosen.duplicates = "PreserveAll" =>
    \A f \in ScalarField :
      (\A g \in Slot(f) : ~Restored(sent, <<>>, g)) =>
        HistoryOf(stack[1].msg, Slot(f)) = HistoryOf(sent, Slot(f))
=============================================================================
