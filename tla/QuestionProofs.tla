--------------------------- MODULE QuestionProofs ---------------------------
(***************************************************************************)
(* The safety properties of QuestionWalk, for every value of its limits    *)
(* and for captures of every length.                                       *)
(***************************************************************************)
EXTENDS QuestionWalk, TLAPS

(* The text copied so far, and what was written of fqdn, are shorter by    *)
(* two than the name on the wire: its first length octet and the root have *)
(* no counterpart in the text.                                             *)
TextWithinWire ==
  /\ wire = 1 \/ wire >= 3
  /\ fqdn = 0 \/ fqdn + 2 <= wire
  /\ high = 0 \/ high + 2 <= wire

(* Between labels the name announced is what the cursor has passed.        *)
WireIsPassed == pc = "labels" => wire = sectionptr + 1 - Start

(* Without NUL bytes, and as long as no label is refused, the text is the  *)
(* whole name.                                                             *)
TextIsName ==
  pc # "dropped" /\ plain => fqdn = (IF wire = 1 THEN 0 ELSE wire - 2)

(* Until the walk ends the cursor has passed every byte that was read, and *)
(* it stands at most one byte past the end, or has not moved at all.       *)
CursorInside ==
  pc \notin Ended => /\ read <= sectionptr
                     /\ \/ sectionptr <= caplen + 1
                        \/ pc = "labels" /\ sectionptr = Start

IInv ==
  /\ TypeOK
  /\ TextWithinWire
  /\ WireIsPassed
  /\ TextIsName
  /\ CursorInside
  /\ ReadsStayNear
  /\ DroppedForCause

---------------------------------------------------------------------------

LEMMA InitInv == Init => IInv
<1> SUFFICES ASSUME Init PROVE IInv
  OBVIOUS
<1>1. TypeOK
  BY LimitsAssumption, LayoutAssumption DEF Init, TypeOK
<1>2. TextWithinWire /\ WireIsPassed /\ TextIsName /\ CursorInside /\ DroppedForCause
  BY LayoutAssumption
  DEF Init, TextWithinWire, WireIsPassed, TextIsName, CursorInside, DroppedForCause
<1>3. ReadsStayNear
  BY LayoutAssumption DEF Init, ReadsStayNear, Larger
<1> QED
  BY <1>1, <1>2, <1>3 DEF IInv

(* The steps of the loop over the labels.                                  *)
LEMMA LabelsInv == IInv /\ Labels => IInv'
<1> SUFFICES ASSUME IInv, Labels PROVE IInv'
  OBVIOUS
<1> USE LimitsAssumption, LayoutAssumption
    DEF IInv, TypeOK, TextWithinWire, WireIsPassed, TextIsName, CursorInside,
        ReadsStayNear, DroppedForCause, Ended, FieldSize, Cut, Larger,
        ReadLabelSize, Announce
<1>1. CASE NoLabel
  BY <1>1 DEF NoLabel
<1>2. CASE Root
  BY <1>2 DEF Root
<1>3. CASE Oversized
  BY <1>3 DEF Oversized
<1>4. ASSUME NEW len \in 1..MaxLabel, NEW vis \in 0..len, RefuseLabel(len, vis)
      PROVE  IInv'
  BY <1>4 DEF RefuseLabel, NoRoomFor
<1>5. ASSUME NEW len \in 1..MaxLabel, NEW vis \in 0..len, CopyLabel(len, vis)
      PROVE  IInv'
  <2> USE <1>5 DEF CopyLabel
  <2>1. /\ len \in Nat /\ vis \in Nat /\ 1 <= len /\ vis <= len
        /\ len <= MaxLabel /\ len < MaxName
    OBVIOUS
  <2>2. wire' = wire + len + 1
    BY <2>1
  <2>3. TypeOK'
    BY <2>1, <2>2 DEF Looked, Appended, CopiedLength, CopyTouches, PastLabel
  <2>4. TextWithinWire' /\ WireIsPassed'
    BY <2>1, <2>2 DEF Appended, CopiedLength, CopyTouches, PastLabel
  <2>5. TextIsName'
    <3>1. plain' => plain /\ vis = len
      BY Zenon
    <3>2. SUFFICES ASSUME pc' # "dropped", plain'
                   PROVE  fqdn' = (IF wire' = 1 THEN 0 ELSE wire' - 2)
      OBVIOUS
    <3>3. fqdn = IF wire = 1 THEN 0 ELSE wire - 2
      BY <3>1, <3>2
    <3> QED
      BY <2>1, <2>2, <3>1, <3>2, <3>3 DEF Appended
  <2>6. CursorInside' /\ ReadsStayNear'
    BY <2>1 DEF Looked, PastLabel
  <2>7. DroppedForCause'
    BY <2>1, <2>2 DEF CopiedLength, PastLabel
  <2> QED
    BY <2>3, <2>4, <2>5, <2>6, <2>7
<1> QED
  BY <1>1, <1>2, <1>3, <1>4, <1>5 DEF Labels

(* The steps over the fixed fields; none of them touches the name.         *)
LEMMA FieldsInv == IInv /\ Fields => IInv'
<1> SUFFICES ASSUME IInv, Fields PROVE IInv'
  OBVIOUS
<1> USE LimitsAssumption, LayoutAssumption
    DEF IInv, TypeOK, TextWithinWire, WireIsPassed, TextIsName, CursorInside,
        ReadsStayNear, DroppedForCause, Ended, Cut, Larger
<1>1. \A f \in DOMAIN FieldSize : f # "labels" /\ f \notin Ended /\ FieldSize[f] \in 1..2
  BY DEF FieldSize
<1>2. ASSUME NEW f \in DOMAIN FieldSize, FieldCut(f)
      PROVE  IInv'
  BY <1>1, <1>2 DEF FieldCut
<1>3. ASSUME NEW f \in DOMAIN FieldSize,
             NEW next \in DOMAIN FieldSize \cup {"accepted"},
             ReadField(f, next), labelsize' \in 0..MaxLabel + 1
      PROVE  IInv'
  BY <1>1, <1>3 DEF ReadField
<1>4. CASE NamedOwner
  BY <1>4 DEF NamedOwner, FieldSize
<1>5. CASE SkipOther
  BY <1>5 DEF SkipOther, FieldSize
<1>6. CASE Type \/ Class \/ RootOwner \/ RecordType \/ OptRecord
  BY <1>3, <1>6 DEF Type, Class, RootOwner, RecordType, OptRecord, FieldSize
<1> QED
  BY <1>2, <1>4, <1>5, <1>6 DEF Fields

LEMMA NextInv == IInv /\ [Next]_vars => IInv'
<1> SUFFICES ASSUME IInv, [Next]_vars PROVE IInv'
  OBVIOUS
<1>1. CASE Next
  BY <1>1, LabelsInv, FieldsInv DEF Next
<1>2. CASE UNCHANGED vars
  BY <1>2 DEF vars, IInv, TypeOK, TextWithinWire, WireIsPassed, TextIsName,
              CursorInside, ReadsStayNear, DroppedForCause
<1> QED
  BY <1>1, <1>2

(* What the walk keeps, together: the invariant is inductive.              *)
THEOREM Invariance == Spec => []IInv
  BY InitInv, NextInv, PTL DEF Spec

(* The variables stay in their types, for captures and names of any length. *)
THEOREM TypeCorrect == Spec => []TypeOK
<1>1. IInv => TypeOK
  BY DEF IInv
<1> QED
  BY <1>1, Invariance, PTL

(* The cursor stays within a byte of the capture, whatever the packet.     *)
THEOREM CursorSafety == Spec => []ReadsStayNear
<1>1. IInv => ReadsStayNear
  BY DEF IInv
<1> QED
  BY <1>1, Invariance, PTL

(* No legal question that was captured whole is dropped, ...               *)
THEOREM LegalQuestionsKept == Spec => []DroppedForCause
<1>1. IInv => DroppedForCause
  BY DEF IInv
<1> QED
  BY <1>1, Invariance, PTL

(* ... its name fits into the buffers it is given, ...                     *)
THEOREM LegalNamesFit == Spec => []LegalNameFits
<1>1. IInv => LegalNameFits
  BY LimitsAssumption DEF IInv, TypeOK, TextWithinWire, WireIsPassed, TextIsName, LegalNameFits
<1> QED
  BY <1>1, Invariance, PTL

(* ... and is copied entirely.                                             *)
THEOREM NamesCopiedWhole == Spec => []WholeName
<1>1. IInv => WholeName
  BY LimitsAssumption DEF IInv, TypeOK, TextWithinWire, WireIsPassed, TextIsName, WholeName
<1> QED
  BY <1>1, Invariance, PTL

(* Every step of the walk is one of finitely many: it ends it or consumes  *)
(* a byte.                                                                 *)
THEOREM Progress == Spec => CursorAdvances
<1>1. TypeOK /\ [Next]_vars => [pc' \in Ended \/ sectionptr' > sectionptr]_vars
  <2> SUFFICES ASSUME TypeOK, Next PROVE pc' \in Ended \/ sectionptr' > sectionptr
    BY DEF vars
  <2> USE DEF Ended, TypeOK
  <2>1. CASE Labels
    BY <2>1, LimitsAssumption
    DEF Labels, NoLabel, Root, Oversized, RefuseLabel, CopyLabel, PastLabel
  <2>2. CASE Fields
    BY <2>2 DEF Fields, FieldCut, Type, Class, RootOwner, NamedOwner,
                RecordType, SkipOther, OptRecord, ReadField, FieldSize
  <2> QED
    BY <2>1, <2>2 DEF Next
<1> QED
  BY <1>1, TypeCorrect, PTL DEF Spec, CursorAdvances
=============================================================================
