----------------------------- MODULE AbiLayout -----------------------------
(***************************************************************************)
(* The type registry of the WALI ABI, spec/wali/spec/abi.py.               *)
(*                                                                         *)
(* Loading the Python module runs one TypeRegistry.StructDef(...)          *)
(* statement after another.  Each resolves the size and the alignment of   *)
(* its fields, lays them out, checks the result and registers the struct,  *)
(* so that later statements may use it.  An exception ends the load.       *)
(* The recursions resolve_size and resolve_alignment are tail calls; each  *)
(* call is a step here, with the remaining Python stack as a bound.        *)
(***************************************************************************)
EXTENDS Integers, Sequences

CONSTANTS
    StructChoices(_),   \* the StructDef(...) statements that may stand at a position
    NumStructs,         \* how many StructDef statements the module has, at least one
    CPrimitives,        \* c_primitives: type name -> size in bytes
    TypeAliases,        \* type_aliases: type name -> type name
    ArrayTypes,         \* array_types: type name -> [element_type, count]
    InlineArrays,       \* the "T[N]" names: type name -> [element_type, count]
    Pointers,           \* the type names that end in '*'
    RecursionLimit,     \* Python's bound on nested calls
    None                \* Python's None

ArrayType == [element_type: STRING, count: Nat]
StructField == [type_name: STRING, offset: Int \cup {None}]

(* None stands for a name before the first statement. *)
Name == STRING \cup {None}

(* The arguments of StructDef(...).  A field's name is only used in messages. *)
StructArgs == [name: Name, fields: Seq(StructField),
               expected_size: Nat \cup {None}, packed: BOOLEAN]

ASSUME NumStructsAssumption == NumStructs \in Nat \ {0}
ASSUME NoneAssumption == None \notin Int
(* "bytes: 1, 2, 4, or 8" (abi.py:28); resolve_size looks 'ptr' up. *)
ASSUME PrimitiveAssumption ==
    /\ CPrimitives \in [DOMAIN CPrimitives -> {1, 2, 4, 8}]
    /\ "ptr" \in DOMAIN CPrimitives
ASSUME NameAssumption ==
    /\ TypeAliases \in [DOMAIN TypeAliases -> STRING]
    /\ ArrayTypes \in [DOMAIN ArrayTypes -> ArrayType]
    /\ InlineArrays \in [DOMAIN InlineArrays -> ArrayType]
    /\ RecursionLimit \in Nat
ASSUME ChoiceAssumption == \A n \in 1..NumStructs : StructChoices(n) \subseteq StructArgs

VARIABLES
    pc,             \* where the load is
    k,              \* StructDef statements begun so far
    sd,             \* the arguments of the StructDef statement being executed
    walk,           \* the current resolve_* call: its argument, the array
                    \* factor its callers will apply, its depth
    f_size, f_align,
    current_offset, max_alignment, offsets, sizes,
    aligns,         \* history: the f_align of every field placed
    struct_defs,    \* the registry
    errors          \* what validate() collected

vars == <<pc, k, sd, walk, f_size, f_align, current_offset, max_alignment,
          offsets, sizes, aligns, struct_defs, errors>>

layoutVars == <<current_offset, max_alignment, offsets, sizes, aligns>>

-----------------------------------------------------------------------------
(* (x + a - 1) & ~(a - 1), for a power of two a; MCAbiLayout compares the  *)
(* two over the alignments that occur.                                     *)
AlignUp(x, a) == ((x + a - 1) \div a) * a

Greater(x, y) == IF x >= y THEN x ELSE y

(* Which branch of resolve_size and resolve_alignment a name takes: the    *)
(* order of the lookups decides when a name is in several tables.          *)
Branch(defs, n) ==
    IF n \in Pointers THEN "pointer"
    ELSE IF n \in DOMAIN CPrimitives THEN "primitive"
    ELSE IF n \in DOMAIN TypeAliases THEN "alias"
    ELSE IF n \in DOMAIN ArrayTypes THEN "array"
    ELSE IF n \in DOMAIN defs THEN "struct"
    ELSE IF n \in DOMAIN InlineArrays THEN "inline"
    ELSE "unknown"

Returning == {"pointer", "primitive", "struct"}
Recursing == {"alias", "array", "inline"}

(* The value of a call that returns without a recursive call. *)
LeafSize(defs, n) ==
    IF Branch(defs, n) = "struct" THEN defs[n].total_size
    ELSE IF Branch(defs, n) = "primitive" THEN CPrimitives[n]
    ELSE CPrimitives["ptr"]

LeafAlignment(defs, n) ==
    IF Branch(defs, n) = "struct" THEN defs[n].alignment
    ELSE IF Branch(defs, n) = "primitive" THEN CPrimitives[n]
    ELSE CPrimitives["ptr"]

(* The argument of the recursive call, and the factor on its result. *)
Callee(defs, n) ==
    IF Branch(defs, n) = "alias" THEN TypeAliases[n]
    ELSE IF Branch(defs, n) = "array" THEN ArrayTypes[n].element_type
    ELSE InlineArrays[n].element_type

Factor(defs, n) ==
    IF Branch(defs, n) = "alias" THEN 1
    ELSE IF Branch(defs, n) = "array" THEN ArrayTypes[n].count
    ELSE InlineArrays[n].count

Call(n) == [name |-> n, mult |-> 1, depth |-> 0]

CurrentField == sd.fields[Len(offsets) + 1]

-----------------------------------------------------------------------------
Init ==
    /\ pc = "module" /\ k = 0
    /\ sd = [name |-> None, fields |-> <<>>, expected_size |-> None, packed |-> FALSE]
    /\ walk = Call(None)
    /\ f_size = 0 /\ f_align = 1
    /\ current_offset = 0 /\ max_alignment = 1
    /\ offsets = <<>> /\ sizes = <<>> /\ aligns = <<>>
    /\ struct_defs = [n \in {} |-> 0]
    /\ errors = {}

(* The next StructDef(...) statement: __post_init__ calls compute_struct_layout. *)
BeginStruct ==
    /\ pc = "module" /\ k < NumStructs
    /\ \E d \in StructChoices(k + 1) : sd' = d
    /\ k' = k + 1
    /\ pc' = "field"
    /\ current_offset' = 0 /\ max_alignment' = 1
    /\ offsets' = <<>> /\ sizes' = <<>> /\ aligns' = <<>>
    /\ UNCHANGED <<walk, f_size, f_align, struct_defs, errors>>

(* for f in fields: f_size = resolve_size(f.type_name) *)
NextField ==
    /\ pc = "field" /\ Len(offsets) < Len(sd.fields)
    /\ walk' = Call(CurrentField.type_name)
    /\ pc' = "size"
    /\ UNCHANGED <<k, sd, f_size, f_align, layoutVars, struct_defs, errors>>

(* Mutant: the calls are not counted against the recursion limit. *)
ResolveRecurseUncounted ==
    /\ pc \in {"size", "align"}
    /\ Branch(struct_defs, walk.name) \in Recursing
    /\ walk' = [walk EXCEPT !.name = Callee(struct_defs, walk.name),
                            !.mult = IF pc = "size" THEN @ * Factor(struct_defs, walk.name) ELSE @]
    /\ UNCHANGED <<pc, k, sd, f_size, f_align, layoutVars, struct_defs, errors>>

(* resolve_size or resolve_alignment calls itself. *)
ResolveRecurse ==
    /\ pc \in {"size", "align"}
    /\ Branch(struct_defs, walk.name) \in Recursing
    /\ walk.depth < RecursionLimit
    /\ walk' = [name  |-> Callee(struct_defs, walk.name),
                mult  |-> IF pc = "size" THEN walk.mult * Factor(struct_defs, walk.name)
                                         ELSE walk.mult,
                depth |-> walk.depth + 1]
    /\ UNCHANGED <<pc, k, sd, f_size, f_align, layoutVars, struct_defs, errors>>

(* Mutant: packed is ignored. *)
ResolveSizeReturnUnpacked ==
    /\ pc = "size"
    /\ Branch(struct_defs, walk.name) \in Returning
    /\ f_size' = walk.mult * LeafSize(struct_defs, walk.name)
    /\ pc' = "align" /\ walk' = Call(CurrentField.type_name)
    /\ UNCHANGED <<k, sd, f_align, layoutVars, struct_defs, errors>>

(* resolve_size returns; a packed struct does not ask for the alignment. *)
ResolveSizeReturn ==
    /\ pc = "size"
    /\ Branch(struct_defs, walk.name) \in Returning
    /\ f_size' = walk.mult * LeafSize(struct_defs, walk.name)
    /\ IF sd.packed
       THEN pc' = "place" /\ f_align' = 1 /\ UNCHANGED walk
       ELSE pc' = "align" /\ walk' = Call(CurrentField.type_name) /\ UNCHANGED f_align
    /\ UNCHANGED <<k, sd, layoutVars, struct_defs, errors>>

ResolveAlignmentReturn ==
    /\ pc = "align"
    /\ Branch(struct_defs, walk.name) \in Returning
    /\ f_align' = LeafAlignment(struct_defs, walk.name)
    /\ pc' = "place"
    /\ UNCHANGED <<k, sd, walk, f_size, layoutVars, struct_defs, errors>>

(* RuntimeError, or RecursionError when the calls nest too deep. *)
ResolveRaise ==
    /\ pc \in {"size", "align"}
    /\ \/ Branch(struct_defs, walk.name) = "unknown"
       \/ Branch(struct_defs, walk.name) \in Recursing /\ walk.depth = RecursionLimit
    /\ pc' = "failed"
    /\ UNCHANGED <<k, sd, walk, f_size, f_align, layoutVars, struct_defs, errors>>

(* The offset the field gets. *)
FieldOffset ==
    IF CurrentField.offset # None THEN CurrentField.offset
    ELSE AlignUp(current_offset, f_align)

(* Mutant: the assertion does not look at the previous field's end. *)
OverlapUnchecked == CurrentField.offset # None => CurrentField.offset >= 0

OverlapAssertion == CurrentField.offset # None => CurrentField.offset >= current_offset

(* The rest of the loop body of compute_struct_layout. *)
PlaceField ==
    /\ pc = "place"
    /\ max_alignment' = Greater(max_alignment, f_align)
    /\ IF OverlapAssertion
       THEN /\ offsets' = Append(offsets, FieldOffset)
            /\ sizes' = Append(sizes, f_size)
            /\ aligns' = Append(aligns, f_align)
            /\ current_offset' = FieldOffset + f_size
            /\ pc' = "field"
       ELSE /\ pc' = "failed"
            /\ UNCHANGED <<offsets, sizes, aligns, current_offset>>
    /\ UNCHANGED <<k, sd, walk, f_size, f_align, struct_defs, errors>>

(* Mutant: the size is not rounded up to the alignment. *)
TotalSizeUnrounded == current_offset

TotalSize == AlignUp(current_offset, max_alignment)

SizeAssertion == sd.expected_size = None \/ sd.expected_size = TotalSize
(* Mutant: a struct may be defined again. *)
DuplicateAllowed == TRUE

DuplicateAssertion == sd.name \notin DOMAIN struct_defs

Layout == [fields |-> sd.fields, packed |-> sd.packed,
           field_offsets |-> offsets, field_sizes |-> sizes, field_aligns |-> aligns,
           total_size |-> TotalSize, alignment |-> max_alignment]

(* compute_struct_layout returns and __post_init__ checks and registers. *)
FinishStruct ==
    /\ pc = "field" /\ Len(offsets) = Len(sd.fields)
    /\ IF SizeAssertion /\ DuplicateAssertion
       THEN /\ struct_defs' = [n \in DOMAIN struct_defs \cup {sd.name} |->
                                 IF n = sd.name THEN Layout ELSE struct_defs[n]]
            /\ pc' = IF k = NumStructs THEN "loaded" ELSE "module"
       ELSE pc' = "failed" /\ UNCHANGED struct_defs
    /\ UNCHANGED <<k, sd, walk, f_size, f_align, layoutVars, errors>>

(* What a whole call of resolve_size returns, or None when it raises:      *)
(* the recursion as a function of the calls still allowed.                 *)
resolve_size(defs, name) ==
    LET size[d \in 0..RecursionLimit, n \in STRING] ==
          IF Branch(defs, n) \in Returning THEN LeafSize(defs, n)
          ELSE IF Branch(defs, n) \in Recursing /\ d > 0
               THEN LET s == size[d - 1, Callee(defs, n)]
                    IN  IF s = None THEN None ELSE Factor(defs, n) * s
          ELSE None
    IN  size[RecursionLimit, name]

resolve_alignment(defs, name) ==
    LET align[d \in 0..RecursionLimit, n \in STRING] ==
          IF Branch(defs, n) \in Returning THEN LeafAlignment(defs, n)
          ELSE IF Branch(defs, n) \in Recursing /\ d > 0
               THEN align[d - 1, Callee(defs, n)]
          ELSE None
    IN  align[RecursionLimit, name]

(* validate(): every name in the tables whose resolution raises. *)
Validate ==
    /\ pc = "loaded"
    /\ errors' =
         {<<"alias", TypeAliases[a]>> : a \in
            {b \in DOMAIN TypeAliases : resolve_size(struct_defs, TypeAliases[b]) = None}}
         \cup
         {<<"array", ArrayTypes[a].element_type>> : a \in
            {b \in DOMAIN ArrayTypes :
               resolve_size(struct_defs, ArrayTypes[b].element_type) = None}}
         \cup
         {<<"field", t>> : t \in
            {u \in UNION {{struct_defs[s].fields[i].type_name :
                             i \in DOMAIN struct_defs[s].fields} : s \in DOMAIN struct_defs} :
               resolve_size(struct_defs, u) = None}}
    /\ pc' = IF errors' = {} THEN "valid" ELSE "invalid"
    /\ UNCHANGED <<k, sd, walk, f_size, f_align, layoutVars, struct_defs>>

Next ==
    \/ BeginStruct \/ NextField \/ ResolveRecurse \/ ResolveSizeReturn
    \/ ResolveAlignmentReturn \/ ResolveRaise \/ PlaceField \/ FinishStruct \/ Validate

Spec == Init /\ [][Next]_vars

(* The load is one sequential Python program: it keeps running. *)
FairSpec == Spec /\ WF_vars(Next)

-----------------------------------------------------------------------------
Alignments == {1, 2, 4, 8}

LayoutRecord ==
    [fields: Seq(StructField), packed: BOOLEAN,
     field_offsets: Seq(Nat), field_sizes: Seq(Nat), field_aligns: Seq(Alignments),
     total_size: Nat, alignment: Alignments]

(* The type invariant: the partial lists grow together, and alignments are *)
(* always powers of two, as the mask arithmetic of the code requires.      *)
TypeOK ==
    /\ pc \in {"module", "field", "size", "align", "place",
               "loaded", "valid", "invalid", "failed"}
    /\ k \in 0..NumStructs
    /\ sd \in StructArgs
    /\ walk \in [name: Name, mult: Nat, depth: Nat]
    /\ f_size \in Nat /\ f_align \in Alignments
    /\ current_offset \in Nat /\ max_alignment \in Alignments
    /\ offsets \in Seq(Nat) /\ sizes \in Seq(Nat) /\ aligns \in Seq(Alignments)
    /\ DOMAIN struct_defs \subseteq Name
    /\ \A n \in DOMAIN struct_defs : struct_defs[n] \in LayoutRecord
    /\ errors \subseteq {"alias", "array", "field"} \X STRING

(* Fields with these offsets and sizes stand one after the other and end   *)
(* at or before end.                                                       *)
Disjoint(offs, szs, end) ==
    /\ \A i, j \in DOMAIN offs : i < j => offs[i] + szs[i] <= offs[j]
    /\ \A i \in DOMAIN offs : offs[i] + szs[i] <= end

(* No two fields of a registered struct share a byte and all lie inside    *)
(* it, even where an explicit offset (abi.py:51, "must not overlap         *)
(* previous field") replaces the computed one.                             *)
FieldsDisjoint ==
    \A n \in DOMAIN struct_defs :
      Disjoint(struct_defs[n].field_offsets, struct_defs[n].field_sizes,
               struct_defs[n].total_size)

(* A field without an explicit offset is naturally aligned inside its      *)
(* struct, and stays so in every element of an array of the struct: the    *)
(* struct's size is a multiple of its alignment, and its alignment one of  *)
(* every field's.                                                          *)
FieldsAligned ==
    \A n \in DOMAIN struct_defs :
      LET l == struct_defs[n]
      IN  /\ l.total_size % l.alignment = 0
          /\ \A i \in DOMAIN l.field_aligns :
               /\ l.alignment % l.field_aligns[i] = 0
               /\ l.fields[i].offset = None => l.field_offsets[i] % l.field_aligns[i] = 0

(* The sizes and alignments a registered struct was laid out with are the  *)
(* ones its field types resolve to now: nothing registered later makes a   *)
(* layout stale.  This also compares the stepwise recursion with the       *)
(* functions resolve_size and resolve_alignment.                           *)
LayoutsCoherent ==
    \A n \in DOMAIN struct_defs :
      LET l == struct_defs[n]
      IN  \A i \in DOMAIN l.fields :
            /\ l.field_sizes[i] = resolve_size(struct_defs, l.fields[i].type_name)
            /\ l.field_aligns[i] = IF l.packed THEN 1
                                   ELSE resolve_alignment(struct_defs, l.fields[i].type_name)

(* The load and validate() come to an end, a cycle of aliases included:    *)
(* Python's recursion limit turns it into an error.                        *)
LoadEnds == <>(pc \in {"valid", "invalid", "failed"})

=============================================================================
