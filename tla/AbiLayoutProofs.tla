-------------------------- MODULE AbiLayoutProofs --------------------------
(***************************************************************************)
(* Proofs about the type registry: the type invariant, and that registered *)
(* layouts are disjoint and aligned, for every table and every sequence of *)
(* StructDef statements.                                                   *)
(***************************************************************************)
EXTENDS AbiLayout, TLAPS

(* The layout under construction is already disjoint and aligned. *)
PartialLayout ==
    /\ Len(sizes) = Len(offsets) /\ Len(aligns) = Len(offsets)
    /\ Len(offsets) <= Len(sd.fields)
    /\ pc \in {"size", "align", "place"} => Len(offsets) < Len(sd.fields)
    /\ Disjoint(offsets, sizes, current_offset)
    /\ \A i \in DOMAIN aligns :
         /\ max_alignment % aligns[i] = 0
         /\ sd.fields[i].offset = None => offsets[i] % aligns[i] = 0

(* The inductive invariant. *)
IInv == TypeOK /\ PartialLayout /\ FieldsDisjoint /\ FieldsAligned

-----------------------------------------------------------------------------
(* What the mask arithmetic of compute_struct_layout returns: the next     *)
(* multiple of the alignment.                                              *)
LEMMA AlignUpLemma ==
  ASSUME NEW x \in Nat, NEW a \in Alignments
  PROVE  /\ AlignUp(x, a) \in Nat
         /\ AlignUp(x, a) >= x
         /\ AlignUp(x, a) < x + a
         /\ AlignUp(x, a) % a = 0
<1>1. CASE a = 1 BY <1>1 DEF AlignUp
<1>2. CASE a = 2 BY <1>2 DEF AlignUp
<1>3. CASE a = 4 BY <1>3 DEF AlignUp
<1>4. CASE a = 8 BY <1>4 DEF AlignUp
<1> QED BY <1>1, <1>2, <1>3, <1>4 DEF Alignments

(* max(max_alignment, f_align) stays a power of two that both divide. *)
LEMMA GreaterLemma ==
  ASSUME NEW m \in Alignments, NEW a \in Alignments
  PROVE  /\ Greater(m, a) \in Alignments
         /\ Greater(m, a) % a = 0
         /\ \A b \in Alignments : m % b = 0 => Greater(m, a) % b = 0
<1>1. Greater(m, a) \in Alignments BY DEF Greater, Alignments
<1>2. Greater(m, a) % a = 0 BY DEF Greater, Alignments
<1>3. ASSUME NEW b \in Alignments, m % b = 0 PROVE Greater(m, a) % b = 0
  BY <1>3 DEF Greater, Alignments
<1> QED BY <1>1, <1>2, <1>3

(* A product of sizes and counts is a size. *)
LEMMA TimesNat ==
  ASSUME NEW x \in Nat, NEW y \in Nat
  PROVE  x * y \in Nat
OBVIOUS

(* resolve_size and resolve_alignment return a size and an alignment. *)
LEMMA LeafLemma ==
  ASSUME TypeOK, NEW n, Branch(struct_defs, n) \in Returning
  PROVE  /\ LeafSize(struct_defs, n) \in Nat
         /\ LeafAlignment(struct_defs, n) \in Alignments
<1>1. CASE Branch(struct_defs, n) = "pointer"
  BY <1>1, PrimitiveAssumption DEF LeafSize, LeafAlignment, Alignments
<1>2. CASE Branch(struct_defs, n) = "primitive"
  <2>1. n \in DOMAIN CPrimitives BY <1>2 DEF Branch
  <2> QED BY <1>2, <2>1, PrimitiveAssumption DEF LeafSize, LeafAlignment, Alignments
<1>3. CASE Branch(struct_defs, n) = "struct"
  <2>1. n \in DOMAIN struct_defs BY <1>3 DEF Branch
  <2>2. struct_defs[n] \in LayoutRecord BY <2>1 DEF TypeOK
  <2> QED BY <1>3, <2>2 DEF LeafSize, LeafAlignment, LayoutRecord
<1> QED BY <1>1, <1>2, <1>3 DEF Returning

(* A recursive call is made on a name, with a count as its factor. *)
LEMMA CalleeLemma ==
  ASSUME NEW defs, NEW n, Branch(defs, n) \in Recursing
  PROVE  Callee(defs, n) \in STRING /\ Factor(defs, n) \in Nat
<1>1. CASE Branch(defs, n) = "alias"
  <2>1. n \in DOMAIN TypeAliases BY <1>1 DEF Branch
  <2> QED BY <1>1, <2>1, NameAssumption DEF Callee, Factor
<1>2. CASE Branch(defs, n) = "array"
  <2>1. n \in DOMAIN ArrayTypes BY <1>2 DEF Branch
  <2> QED BY <1>2, <2>1, NameAssumption DEF Callee, Factor, ArrayType
<1>3. CASE Branch(defs, n) = "inline"
  <2>1. n \in DOMAIN InlineArrays BY <1>3 DEF Branch
  <2> QED BY <1>3, <2>1, NameAssumption DEF Callee, Factor, ArrayType
<1> QED BY <1>1, <1>2, <1>3 DEF Recursing

-----------------------------------------------------------------------------
(* The invariant holds before the first StructDef statement. *)
LEMMA InitIInv == Init => IInv
<1> SUFFICES ASSUME Init PROVE IInv OBVIOUS
<1>1. TypeOK
  <2>1. sd \in StructArgs
    <3>1. <<>> \in Seq(StructField) OBVIOUS
    <3>2. sd = [name |-> None, fields |-> <<>>, expected_size |-> None, packed |-> FALSE]
      BY DEF Init
    <3> QED BY <3>1, <3>2 DEF StructArgs, Name
  <2>2. walk \in [name: Name, mult: Nat, depth: Nat]
    <3>1. walk = [name |-> None, mult |-> 1, depth |-> 0] BY DEF Init, Call
    <3> QED BY <3>1 DEF Name
  <2>3. offsets \in Seq(Nat) /\ sizes \in Seq(Nat) /\ aligns \in Seq(Alignments)
    BY DEF Init
  <2>4. DOMAIN struct_defs = {} BY DEF Init
  <2>5. k \in 0..NumStructs BY NumStructsAssumption DEF Init
  <2> QED BY <2>1, <2>2, <2>3, <2>4, <2>5 DEF Init, TypeOK, Alignments
<1>2. PartialLayout
  <2>1. offsets = <<>> /\ sizes = <<>> /\ aligns = <<>> /\ sd.fields = <<>> BY DEF Init
  <2>2. Len(<<>>) = 0 /\ DOMAIN <<>> = {} OBVIOUS
  <2> QED BY <2>1, <2>2 DEF Init, PartialLayout, Disjoint
<1>3. FieldsDisjoint /\ FieldsAligned BY DEF Init, FieldsDisjoint, FieldsAligned
<1> QED BY <1>1, <1>2, <1>3 DEF IInv

(* Every action keeps the type invariant; the lengths in PartialLayout say *)
(* that there is a current field.                                          *)
LEMMA TypeStep == IInv /\ [Next]_vars => TypeOK'
<1> SUFFICES ASSUME IInv, [Next]_vars PROVE TypeOK' OBVIOUS
<1> USE DEF IInv
<1>f. ASSUME Len(offsets) < Len(sd.fields)
      PROVE  CurrentField \in StructField
  BY <1>f DEF TypeOK, StructArgs, CurrentField
<1>1. CASE BeginStruct
  <2>1. k + 1 \in 1..NumStructs BY <1>1, NumStructsAssumption DEF BeginStruct, TypeOK
  <2>2. sd' \in StructArgs BY <1>1, <2>1, ChoiceAssumption DEF BeginStruct
  <2> QED BY <1>1, <2>1, <2>2 DEF BeginStruct, TypeOK, Alignments
<1>2. CASE NextField
  <2>1. walk' \in [name: Name, mult: Nat, depth: Nat]
    BY <1>2, <1>f DEF NextField, Call, StructField, Name
  <2> QED BY <1>2, <2>1 DEF NextField, TypeOK, layoutVars
<1>3. CASE ResolveRecurse
  <2>1. walk.mult \in Nat /\ walk.depth \in Nat BY DEF TypeOK
  <2>2. /\ Callee(struct_defs, walk.name) \in STRING
        /\ Factor(struct_defs, walk.name) \in Nat
    BY <1>3, <2>1, CalleeLemma DEF ResolveRecurse
  <2>3. walk.mult * Factor(struct_defs, walk.name) \in Nat BY <2>1, <2>2, TimesNat
  <2>4. walk' \in [name: Name, mult: Nat, depth: Nat]
    BY <1>3, <2>1, <2>2, <2>3 DEF ResolveRecurse, Name
  <2> QED BY <1>3, <2>4 DEF ResolveRecurse, TypeOK, layoutVars
<1>4. CASE ResolveSizeReturn
  <2>1. walk.mult \in Nat BY DEF TypeOK
  <2>2. LeafSize(struct_defs, walk.name) \in Nat
    BY <1>4, <2>1, LeafLemma DEF ResolveSizeReturn
  <2>3. f_size' \in Nat BY <1>4, <2>1, <2>2, TimesNat DEF ResolveSizeReturn
  <2>4. CurrentField.type_name \in STRING
    BY <1>4, <1>f DEF ResolveSizeReturn, PartialLayout, StructField
  <2>5. walk' \in [name: Name, mult: Nat, depth: Nat]
    BY <1>4, <2>4 DEF ResolveSizeReturn, Call, TypeOK, Name
  <2>6. f_align' \in Alignments BY <1>4 DEF ResolveSizeReturn, TypeOK, Alignments
  <2> QED BY <1>4, <2>3, <2>5, <2>6 DEF ResolveSizeReturn, TypeOK, layoutVars
<1>5. CASE ResolveAlignmentReturn
  <2>1. f_align' \in Alignments
    BY <1>5, LeafLemma DEF ResolveAlignmentReturn, TypeOK
  <2> QED BY <1>5, <2>1 DEF ResolveAlignmentReturn, TypeOK, layoutVars
<1>6. CASE ResolveRaise
  BY <1>6 DEF ResolveRaise, TypeOK, layoutVars
<1>7. CASE PlaceField
  <2>1. max_alignment' \in Alignments
    BY <1>7, GreaterLemma DEF PlaceField, TypeOK
  <2>2. ASSUME OverlapAssertion PROVE FieldOffset \in Nat
    <3>1. CurrentField.offset \in Int \cup {None}
      BY <1>7, <1>f DEF PlaceField, PartialLayout, StructField
    <3>2. AlignUp(current_offset, f_align) \in Nat BY AlignUpLemma DEF TypeOK
    <3> QED BY <2>2, <3>1, <3>2 DEF FieldOffset, OverlapAssertion, TypeOK
  <2>3. CASE OverlapAssertion
    <3>1. /\ offsets' \in Seq(Nat) /\ sizes' \in Seq(Nat)
          /\ aligns' \in Seq(Alignments) /\ current_offset' \in Nat
      <4>1. /\ offsets' = Append(offsets, FieldOffset) /\ sizes' = Append(sizes, f_size)
            /\ aligns' = Append(aligns, f_align) /\ current_offset' = FieldOffset + f_size
        BY <1>7, <2>3 DEF PlaceField
      <4> HIDE DEF IInv
      <4>2. /\ offsets \in Seq(Nat) /\ sizes \in Seq(Nat) /\ aligns \in Seq(Alignments)
            /\ f_size \in Nat /\ f_align \in Alignments /\ FieldOffset \in Nat
        BY <2>2, <2>3 DEF TypeOK, IInv
      <4> QED BY <4>1, <4>2
    <3> QED BY <1>7, <2>1, <2>3, <3>1 DEF PlaceField, TypeOK
  <2>4. CASE ~OverlapAssertion
    BY <1>7, <2>1, <2>4 DEF PlaceField, TypeOK
  <2> QED BY <2>3, <2>4
<1>8. CASE FinishStruct
  <2>1. TotalSize \in Nat BY AlignUpLemma DEF TotalSize, TypeOK
  <2>2. Layout \in LayoutRecord
    BY <2>1 DEF Layout, LayoutRecord, TypeOK, StructArgs
  <2>3. sd.name \in Name BY DEF TypeOK, StructArgs
  <2>4. CASE SizeAssertion /\ DuplicateAssertion
    <3>1. /\ DOMAIN struct_defs' = DOMAIN struct_defs \cup {sd.name}
          /\ \A n \in DOMAIN struct_defs' :
               struct_defs'[n] = IF n = sd.name THEN Layout ELSE struct_defs[n]
      BY <1>8, <2>4 DEF FinishStruct
    <3>2. \A n \in DOMAIN struct_defs' : struct_defs'[n] \in LayoutRecord
      BY <2>2, <3>1 DEF TypeOK
    <3>3. DOMAIN struct_defs' \subseteq Name BY <2>3, <3>1 DEF TypeOK
    <3> QED BY <1>8, <2>4, <3>2, <3>3 DEF FinishStruct, TypeOK, layoutVars
  <2>5. CASE ~(SizeAssertion /\ DuplicateAssertion)
    BY <1>8, <2>5 DEF FinishStruct, TypeOK, layoutVars
  <2> QED BY <2>4, <2>5
<1>9. CASE Validate
  <2>1. \A a \in DOMAIN TypeAliases : TypeAliases[a] \in STRING BY NameAssumption
  <2>2. \A a \in DOMAIN ArrayTypes : ArrayTypes[a].element_type \in STRING
    BY NameAssumption DEF ArrayType
  <2>3. \A s \in DOMAIN struct_defs : \A i \in DOMAIN struct_defs[s].fields :
          struct_defs[s].fields[i].type_name \in STRING
    <3> SUFFICES ASSUME NEW s \in DOMAIN struct_defs,
                        NEW i \in DOMAIN struct_defs[s].fields
                 PROVE  struct_defs[s].fields[i].type_name \in STRING
      OBVIOUS
    <3>1. struct_defs[s].fields \in Seq(StructField) BY DEF TypeOK, LayoutRecord
    <3>2. struct_defs[s].fields[i] \in StructField BY <3>1
    <3> QED BY <3>2 DEF StructField
  <2>4. ASSUME NEW e \in errors' PROVE e \in {"alias", "array", "field"} \X STRING
    BY <1>9, <2>1, <2>2, <2>3, <2>4 DEF Validate
  <2>5. errors' \subseteq {"alias", "array", "field"} \X STRING BY <2>4
  <2> QED BY <1>9, <2>5 DEF Validate, TypeOK, layoutVars
<1>10. CASE UNCHANGED vars
  BY <1>10 DEF vars, TypeOK
<1> QED BY <1>1, <1>2, <1>3, <1>4, <1>5, <1>6, <1>7, <1>8, <1>9, <1>10 DEF Next

(* What appending one field does to the lists of a layout. *)
LEMMA AppendLemma ==
  ASSUME NEW S, NEW s \in Seq(S), NEW e \in S, NEW n \in Nat, Len(s) = n,
         NEW u, u = Append(s, e)
  PROVE  /\ DOMAIN s = 1..n /\ DOMAIN u = 1..(n + 1) /\ Len(u) = n + 1
         /\ \A i \in 1..n : u[i] = s[i] /\ s[i] \in S
         /\ u[n + 1] = e
OBVIOUS

(* A field that ends before an offset ends before every later one. *)
LEMMA EndsBefore ==
  ASSUME NEW a \in Nat, NEW b \in Nat, NEW c \in Nat, NEW d \in Nat, NEW m \in Nat,
         a + b <= c, d >= c
  PROVE  a + b <= d /\ a + b <= d + m
OBVIOUS

(* Every action keeps the partial layout disjoint and aligned. *)
LEMMA PartialStep == IInv /\ [Next]_vars => PartialLayout'
<1> SUFFICES ASSUME IInv, [Next]_vars PROVE PartialLayout' OBVIOUS
<1>t. TypeOK /\ PartialLayout BY DEF IInv
<1>1. CASE BeginStruct
  <2>1. /\ offsets' = <<>> /\ sizes' = <<>> /\ aligns' = <<>> /\ pc' = "field"
    BY <1>1 DEF BeginStruct
  <2>2. Len(<<>>) = 0 /\ DOMAIN <<>> = {} OBVIOUS
  <2>3. sd'.fields \in Seq(StructField)
    BY IInv, TypeStep DEF TypeOK, StructArgs
  <2>4. Len(sd'.fields) \in Nat BY <2>3
  <2> QED BY <2>1, <2>2, <2>4 DEF PartialLayout, Disjoint
<1>2. CASE PlaceField /\ OverlapAssertion
  <2> DEFINE n == Len(offsets)
  <2>1. /\ offsets' = Append(offsets, FieldOffset) /\ sizes' = Append(sizes, f_size)
        /\ aligns' = Append(aligns, f_align) /\ current_offset' = FieldOffset + f_size
        /\ max_alignment' = Greater(max_alignment, f_align) /\ sd' = sd /\ pc' = "field"
    BY <1>2 DEF PlaceField
  <2>2. /\ offsets \in Seq(Nat) /\ sizes \in Seq(Nat) /\ aligns \in Seq(Alignments)
        /\ f_size \in Nat /\ f_align \in Alignments /\ current_offset \in Nat
        /\ max_alignment \in Alignments
    BY <1>t DEF TypeOK
  <2>3. Len(sizes) = n /\ Len(aligns) = n /\ n < Len(sd.fields) /\ n \in Nat
    BY <1>2, <1>t, <2>2 DEF PartialLayout, PlaceField
  <2>4. CurrentField = sd.fields[n + 1] /\ CurrentField.offset \in Int \cup {None}
    <3>1. sd.fields \in Seq(StructField) BY <1>t DEF TypeOK, StructArgs
    <3>2. sd.fields[n + 1] \in StructField BY <2>3, <3>1
    <3> QED BY <3>2 DEF CurrentField, StructField
  <2>5. /\ FieldOffset \in Nat /\ FieldOffset >= current_offset
        /\ CurrentField.offset = None => FieldOffset % f_align = 0
    <3>1. /\ AlignUp(current_offset, f_align) \in Nat
          /\ AlignUp(current_offset, f_align) >= current_offset
          /\ AlignUp(current_offset, f_align) % f_align = 0
      BY <2>2, AlignUpLemma
    <3>2. CASE CurrentField.offset = None BY <3>1, <3>2 DEF FieldOffset
    <3>3. CASE CurrentField.offset # None
      BY <1>2, <2>2, <2>4, <3>3 DEF FieldOffset, OverlapAssertion
    <3> QED BY <3>2, <3>3
  <2>6. /\ Len(offsets') = n + 1 /\ Len(sizes') = n + 1 /\ Len(aligns') = n + 1
        /\ DOMAIN offsets' = 1..(n + 1) /\ DOMAIN aligns' = 1..(n + 1)
        /\ DOMAIN offsets = 1..n /\ DOMAIN aligns = 1..n
        /\ \A i \in 1..n : /\ offsets'[i] = offsets[i] /\ sizes'[i] = sizes[i]
                           /\ aligns'[i] = aligns[i]
                           /\ offsets[i] \in Nat /\ sizes[i] \in Nat
                           /\ aligns[i] \in Alignments
        /\ offsets'[n + 1] = FieldOffset /\ sizes'[n + 1] = f_size
        /\ aligns'[n + 1] = f_align
    <3>1. /\ DOMAIN offsets = 1..n /\ DOMAIN offsets' = 1..(n + 1) /\ Len(offsets') = n + 1
          /\ \A i \in 1..n : offsets'[i] = offsets[i] /\ offsets[i] \in Nat
          /\ offsets'[n + 1] = FieldOffset
      <4>1. Len(offsets) = n OBVIOUS
      <4> HIDE DEF n
      <4>2. offsets \in Seq(Nat) /\ FieldOffset \in Nat /\ n \in Nat /\ Len(offsets) = n
            /\ offsets' = Append(offsets, FieldOffset)
        BY <2>1, <2>2, <2>3, <2>5, <4>1, Zenon
      <4> QED BY <4>2, AppendLemma
    <3>2. /\ Len(sizes') = n + 1
          /\ \A i \in 1..n : sizes'[i] = sizes[i] /\ sizes[i] \in Nat
          /\ sizes'[n + 1] = f_size
      <4> HIDE DEF n
      <4>1. sizes \in Seq(Nat) /\ f_size \in Nat /\ n \in Nat /\ Len(sizes) = n
            /\ sizes' = Append(sizes, f_size)
        BY <2>1, <2>2, <2>3, Zenon
      <4> QED BY <4>1, AppendLemma
    <3>3. /\ DOMAIN aligns = 1..n /\ DOMAIN aligns' = 1..(n + 1) /\ Len(aligns') = n + 1
          /\ \A i \in 1..n : aligns'[i] = aligns[i] /\ aligns[i] \in Alignments
          /\ aligns'[n + 1] = f_align
      <4> HIDE DEF n
      <4>1. aligns \in Seq(Alignments) /\ f_align \in Alignments /\ n \in Nat /\ Len(aligns) = n
            /\ aligns' = Append(aligns, f_align)
        BY <2>1, <2>2, <2>3, Zenon
      <4> QED BY <4>1, AppendLemma
    <3> QED BY <3>1, <3>2, <3>3, Zenon
  <2> HIDE DEF n
  <2>7. Disjoint(offsets', sizes', current_offset')
    <3>1. \A i \in 1..n : offsets[i] + sizes[i] <= current_offset
      BY <1>t, <2>6 DEF PartialLayout, Disjoint
    <3>2. \A i, j \in 1..n : i < j => offsets[i] + sizes[i] <= offsets[j]
      BY <1>t, <2>6 DEF PartialLayout, Disjoint
    <3>3. \A i, j \in 1..(n + 1) : i < j => offsets'[i] + sizes'[i] <= offsets'[j]
      <4> SUFFICES ASSUME NEW i \in 1..(n + 1), NEW j \in 1..(n + 1), i < j
                   PROVE  offsets'[i] + sizes'[i] <= offsets'[j]
        OBVIOUS
      <4>1. i \in 1..n BY <2>3
      <4>2. CASE j = n + 1
        <5>1. offsets'[i] = offsets[i] /\ sizes'[i] = sizes[i] /\ offsets'[j] = FieldOffset
          BY <2>6, <4>1, <4>2, Zenon
        <5>2. offsets[i] \in Nat /\ sizes[i] \in Nat /\ offsets[i] + sizes[i] <= current_offset
          BY <2>6, <3>1, <4>1, Zenon
        <5> QED BY <2>2, <2>5, <5>1, <5>2, EndsBefore, Zenon
      <4>3. CASE j \in 1..n BY <2>6, <3>2, <4>1, <4>3
      <4> QED BY <2>3, <4>2, <4>3
    <3>4. \A i \in 1..(n + 1) : offsets'[i] + sizes'[i] <= current_offset'
      <4> SUFFICES ASSUME NEW i \in 1..(n + 1)
                   PROVE  offsets'[i] + sizes'[i] <= current_offset'
        OBVIOUS
      <4>1. CASE i = n + 1
        <5>1. offsets'[i] = FieldOffset /\ sizes'[i] = f_size
          BY <2>6, <4>1, Zenon
        <5> QED BY <2>1, <2>2, <2>5, <5>1
      <4>2. CASE i \in 1..n
        <5>1. offsets'[i] = offsets[i] /\ sizes'[i] = sizes[i]
          BY <2>6, <4>2, Zenon
        <5>2. offsets[i] \in Nat /\ sizes[i] \in Nat /\ offsets[i] + sizes[i] <= current_offset
          BY <2>6, <3>1, <4>2, Zenon
        <5> QED BY <2>1, <2>2, <2>5, <5>1, <5>2, EndsBefore, Zenon
      <4> QED BY <2>3, <4>1, <4>2
    <3> QED BY <2>6, <3>3, <3>4 DEF Disjoint
  <2>8. \A i \in 1..(n + 1) :
          /\ max_alignment' % aligns'[i] = 0
          /\ sd.fields[i].offset = None => offsets'[i] % aligns'[i] = 0
    <3> SUFFICES ASSUME NEW i \in 1..(n + 1)
                 PROVE  /\ max_alignment' % aligns'[i] = 0
                        /\ sd.fields[i].offset = None => offsets'[i] % aligns'[i] = 0
      OBVIOUS
    <3>1. CASE i = n + 1
      <4>1. aligns'[i] = f_align /\ offsets'[i] = FieldOffset /\ sd.fields[i] = CurrentField
        BY <2>4, <2>6, <3>1, Zenon
      <4> QED BY <2>1, <2>2, <2>5, <4>1, GreaterLemma
    <3>2. CASE i \in 1..n
      <4>1. /\ max_alignment % aligns[i] = 0
            /\ sd.fields[i].offset = None => offsets[i] % aligns[i] = 0
        BY <1>t, <2>6, <3>2 DEF PartialLayout
      <4> QED BY <2>1, <2>2, <2>6, <3>2, <4>1, GreaterLemma
    <3> QED BY <2>3, <3>1, <3>2
  <2>9. Len(sd.fields) \in Nat
    BY <1>t DEF TypeOK, StructArgs
  <2>10. /\ Len(sizes') = Len(offsets') /\ Len(aligns') = Len(offsets')
         /\ Disjoint(offsets, sizes, current_offset)'
         /\ \A i \in DOMAIN aligns' :
              /\ max_alignment' % aligns'[i] = 0
              /\ sd'.fields[i].offset = None => offsets'[i] % aligns'[i] = 0
    BY <2>1, <2>6, <2>7, <2>8, Zenon DEF Disjoint
  <2>11. Len(offsets') <= Len(sd'.fields) /\ ~(pc' \in {"size", "align", "place"})
    <3>1. Len(offsets') = n + 1 /\ sd' = sd BY <2>1, <2>6, Zenon
    <3> QED BY <2>1, <2>3, <2>9, <3>1
  <2> QED BY <2>10, <2>11, Zenon DEF PartialLayout
<1>3. CASE PlaceField /\ ~OverlapAssertion
  <2>1. /\ UNCHANGED <<offsets, sizes, aligns, current_offset, sd>> /\ pc' = "failed"
        /\ max_alignment' = Greater(max_alignment, f_align)
    BY <1>3 DEF PlaceField
  <2>2. \A i \in DOMAIN aligns : max_alignment' % aligns[i] = 0
    BY <1>t, <2>1, GreaterLemma DEF TypeOK, PartialLayout
  <2> QED BY <1>t, <2>1, <2>2 DEF PartialLayout, Disjoint
<1>4. CASE NextField
  BY <1>4, <1>t DEF NextField, PartialLayout, Disjoint, layoutVars
<1>5. CASE ResolveRecurse \/ ResolveSizeReturn \/ ResolveAlignmentReturn \/ ResolveRaise
  BY <1>5, <1>t DEF ResolveRecurse, ResolveSizeReturn, ResolveAlignmentReturn, ResolveRaise,
                    PartialLayout, Disjoint, layoutVars
<1>6. CASE FinishStruct
  <2>1. pc' \in {"loaded", "module", "failed"} /\ UNCHANGED <<sd, layoutVars>>
    BY <1>6 DEF FinishStruct
  <2> QED BY <1>t, <2>1 DEF PartialLayout, Disjoint, layoutVars
<1>7. CASE Validate
  <2>1. pc' \in {"valid", "invalid"} /\ UNCHANGED <<sd, layoutVars>>
    BY <1>7 DEF Validate
  <2> QED BY <1>t, <2>1 DEF PartialLayout, Disjoint, layoutVars
<1>8. CASE UNCHANGED vars
  BY <1>8, <1>t DEF vars, PartialLayout, Disjoint
<1> QED BY <1>1, <1>2, <1>3, <1>4, <1>5, <1>6, <1>7, <1>8 DEF Next

(* A struct is registered with the layout just computed; nothing else      *)
(* touches the registry.                                                   *)
LEMMA RegistryStep == IInv /\ [Next]_vars => FieldsDisjoint' /\ FieldsAligned'
<1> SUFFICES ASSUME IInv, [Next]_vars PROVE FieldsDisjoint' /\ FieldsAligned' OBVIOUS
<1>t. TypeOK /\ PartialLayout /\ FieldsDisjoint /\ FieldsAligned BY DEF IInv
<1>1. CASE FinishStruct /\ SizeAssertion /\ DuplicateAssertion
  <2>1. /\ DOMAIN struct_defs' = DOMAIN struct_defs \cup {sd.name}
        /\ \A n \in DOMAIN struct_defs' :
             struct_defs'[n] = IF n = sd.name THEN Layout ELSE struct_defs[n]
    BY <1>1 DEF FinishStruct
  <2>2. /\ TotalSize \in Nat /\ TotalSize >= current_offset
        /\ TotalSize % max_alignment = 0
    BY <1>t, AlignUpLemma DEF TotalSize, TypeOK
  <2>3. /\ DOMAIN sizes = DOMAIN offsets
        /\ \A i \in DOMAIN offsets : offsets[i] \in Nat /\ sizes[i] \in Nat
        /\ current_offset \in Nat
    <3>1. /\ offsets \in Seq(Nat) /\ sizes \in Seq(Nat) /\ current_offset \in Nat
          /\ Len(sizes) = Len(offsets)
      BY <1>t DEF TypeOK, PartialLayout
    <3> QED BY <3>1
  <2>4. Disjoint(offsets, sizes, TotalSize)
    <3>1. \A i \in DOMAIN offsets : offsets[i] + sizes[i] <= current_offset
      BY <1>t DEF PartialLayout, Disjoint
    <3>2. \A i \in DOMAIN offsets : offsets[i] + sizes[i] <= TotalSize
      BY <2>2, <2>3, <3>1
    <3> QED BY <1>t, <3>2 DEF PartialLayout, Disjoint
  <2>5. FieldsDisjoint'
    <3> SUFFICES ASSUME NEW n \in DOMAIN struct_defs'
                 PROVE  Disjoint(struct_defs'[n].field_offsets, struct_defs'[n].field_sizes,
                                 struct_defs'[n].total_size)
      BY DEF FieldsDisjoint
    <3>1. CASE n = sd.name BY <2>1, <2>4, <3>1 DEF Layout
    <3>2. CASE n # sd.name BY <1>t, <2>1, <3>2 DEF FieldsDisjoint
    <3> QED BY <3>1, <3>2
  <2>6. FieldsAligned'
    <3> DEFINE Good(l) == /\ l.total_size % l.alignment = 0
                          /\ \A i \in DOMAIN l.field_aligns :
                               /\ l.alignment % l.field_aligns[i] = 0
                               /\ l.fields[i].offset = None
                                    => l.field_offsets[i] % l.field_aligns[i] = 0
    <3>1. Good(Layout) BY <1>t, <2>2 DEF Layout, PartialLayout
    <3>2. \A n \in DOMAIN struct_defs : Good(struct_defs[n]) BY <1>t DEF FieldsAligned
    <3> HIDE DEF Good
    <3>3. \A n \in DOMAIN struct_defs' : Good(struct_defs'[n])
      <4> SUFFICES ASSUME NEW n \in DOMAIN struct_defs' PROVE Good(struct_defs'[n]) OBVIOUS
      <4>1. CASE n = sd.name BY <2>1, <3>1, <4>1
      <4>2. CASE n # sd.name BY <2>1, <3>2, <4>2
      <4> QED BY <4>1, <4>2
    <3> QED BY <3>3 DEF Good, FieldsAligned
  <2> QED BY <2>5, <2>6
<1>2. CASE FinishStruct /\ ~(SizeAssertion /\ DuplicateAssertion)
  BY <1>2, <1>t DEF FinishStruct, FieldsDisjoint, FieldsAligned
<1>3. CASE ~FinishStruct
  <2>1. UNCHANGED struct_defs
    BY <1>3 DEF Next, vars, BeginStruct, NextField, ResolveRecurse, ResolveSizeReturn,
                ResolveAlignmentReturn, ResolveRaise, PlaceField, Validate
  <2> QED BY <1>t, <2>1 DEF FieldsDisjoint, FieldsAligned
<1> QED BY <1>1, <1>2, <1>3

-----------------------------------------------------------------------------
(* The inductive invariant holds in every reachable state of every load.   *)
LEMMA Inductive == Spec => []IInv
<1>1. IInv /\ [Next]_vars => IInv'
  BY TypeStep, PartialStep, RegistryStep DEF IInv
<1> QED BY InitIInv, <1>1, PTL DEF Spec

(* Every load keeps the registry and the layout under construction well    *)
(* typed; in particular every alignment is a power of two.                 *)
THEOREM TypeCorrect == Spec => []TypeOK
<1>1. IInv => TypeOK BY DEF IInv
<1> QED BY Inductive, <1>1, PTL

(* No two fields of a registered struct overlap, whatever the tables, the  *)
(* explicit offsets and the packing.                                       *)
THEOREM DisjointCorrect == Spec => []FieldsDisjoint
<1>1. IInv => FieldsDisjoint BY DEF IInv
<1> QED BY Inductive, <1>1, PTL

(* Computed offsets are naturally aligned in every element of an array of  *)
(* the struct.                                                             *)
THEOREM AlignedCorrect == Spec => []FieldsAligned
<1>1. IInv => FieldsAligned BY DEF IInv
<1> QED BY Inductive, <1>1, PTL

=============================================================================
