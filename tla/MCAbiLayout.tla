---------------------------- MODULE MCAbiLayout ----------------------------
(* The load of the tables spec/wali/spec/abi.py really has, followed by    *)
(* any two further StructDef statements A and B (or A again).              *)
EXTENDS AbiLayout, AbiTables, Bitwise, SequencesExt

AbiStructs == LeafStructs \o DependentStructs

AbiStruct(n) ==
    LET s == AbiStructs[n]
    IN  [name |-> s.name, packed |-> s.packed,
         expected_size |-> IF s.expected = {} THEN None ELSE CHOOSE e \in s.expected : TRUE,
         fields |-> [i \in DOMAIN s.types |-> [type_name |-> s.types[i], offset |-> None]]]

(* c1 and c2 form a cycle. *)
Cycle == "c1" :> "c2" @@ "c2" :> "c1"

MCAliases == type_aliases @@ Cycle

MCInlineArrays == inline_arrays @@ "A[3]" :> ArrayOf("A", 3)

MCPointers == {"void*", "struct iovec*", "A*"}

(* The alias cycle appears in A only: the load ends there.  B may refer to *)
(* itself, which fails, and D is never defined.                            *)
TypesOfA == {"uint8_t", "off_t", "uts_str", "A*", "c1"}

TypesOfB == {"uint8_t", "off_t", "A[3]", "B", "D"}

DefinitionsOfA ==
    [name: {"A"}, fields: SeqOf([type_name: TypesOfA, offset: {None}], 1),
     expected_size: {None}, packed: BOOLEAN]

DefinitionsOfB ==
    [name: {"B"}, fields: SeqOf([type_name: TypesOfB, offset: {None, 3}], 2),
     expected_size: {None, 8}, packed: {FALSE}]

AgainA ==
    [name: {"A"}, fields: SeqOf([type_name: {"uint8_t", "A"}, offset: {None}], 2),
     expected_size: {None}, packed: {FALSE}]

Added(n) == IF n = 1 THEN DefinitionsOfA ELSE AgainA \cup DefinitionsOfB

MCNumStructs == Len(AbiStructs) + 2

MCStructChoices(n) ==
    IF n <= Len(AbiStructs) THEN {AbiStruct(n)} ELSE Added(n - Len(AbiStructs))

(* The tables of abi.py load and validate: every StructDef refers to       *)
(* structs defined before it ("ORDER MATTERS", abi.py:316) and has its     *)
(* expected_size.                                                          *)
TablesLoad ==
    /\ pc = "failed" => k > Len(AbiStructs)
    /\ errors \subseteq {"alias"} \X DOMAIN Cycle

(* The mask of the code and the division of AlignUp agree on every         *)
(* alignment that occurs.                                                  *)
ASSUME AlignUpIsMask ==
    \A x \in 0..40, a \in Alignments : AlignUp(x, a) = (x + a - 1) - ((x + a - 1) & (a - 1))

=============================================================================
