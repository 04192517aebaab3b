------------------------------ MODULE BtfTypes ------------------------------
(***************************************************************************)
(* The type database (BTF) the filter compiler walks: the running kernel's *)
(* self-described types, read-only for the whole process.  The accessors   *)
(* belong to the btf-rs crate, so they are modelled from the contract of   *)
(* spec section 4.3 (resolve by name, chained-type iteration, members).    *)
(*                                                                         *)
(* A type is a record; Types is a sequence so that a type id is an index   *)
(* and "the first candidate" of a lookup is well defined.                  *)
(*   kind    one of Kinds                                                  *)
(*   name    "" for anonymous types                                        *)
(*   size    byte size of Int / Enum / Enum64                              *)
(*   signed  signedness of Int / Enum / Enum64                             *)
(*   len     element count of an Array                                     *)
(*   ref     chained type id (pointee, element, aliased type); 0 = void    *)
(*   members Struct / Union members [name, off (bits), bfs, type], where   *)
(*           bfs is <<>> (no bitfield information) or <<width>>            *)
(***************************************************************************)
EXTENDS Integers, Sequences

CONSTANT Types

Kinds == {"Int", "Ptr", "Array", "Struct", "Union", "Enum", "Enum64",
          "Typedef", "Volatile", "Const", "Restrict", "DeclTag", "TypeTag",
          "FuncProto"}

\* Kinds that only qualify or rename the type they chain to.
Transparent == {"Typedef", "Volatile", "Const", "Restrict", "DeclTag", "TypeTag"}

\* Kinds whose type iterator continues to another type.
Chaining == Transparent \cup {"Ptr", "Array"}

TypeIds == DOMAIN Types

Kind(t) == Types[t].kind

IsRecord(t) == Kind(t) \in {"Struct", "Union"}

(***************************************************************************)
(* btf.type_iter(t): the chained types that follow t (t itself excluded),  *)
(* ending after the first type that chains to nothing (or to void).        *)
(***************************************************************************)
RECURSIVE TypeIter(_)
TypeIter(t) ==
    IF Kind(t) \in Chaining /\ Types[t].ref # 0
    THEN <<Types[t].ref>> \o TypeIter(Types[t].ref)
    ELSE <<>>

(***************************************************************************)
(* btf.resolve_types_by_name(name): every type of that name, in id order.  *)
(***************************************************************************)
ResolveTypesByName(name) ==
    LET ids == {t \in TypeIds : Types[t].name = name}
        RECURSIVE Ordered(_)
        Ordered(s) == IF s = {} THEN <<>>
                      ELSE LET m == CHOOSE i \in s : \A j \in s : i <= j
                           IN <<m>> \o Ordered(s \ {m})
    IN Ordered(ids)

\* The first candidate whose kind is in ks, or 0 (`types.iter().find(..)`).
FirstOfKind(name, ks) ==
    LET c == ResolveTypesByName(name)
        hits == {i \in DOMAIN c : Kind(c[i]) \in ks}
    IN IF hits = {} THEN 0
       ELSE c[CHOOSE i \in hits : \A j \in hits : i <= j]

TypesOK ==
    \A t \in TypeIds :
        /\ Kind(t) \in Kinds
        /\ Types[t].ref \in {0} \cup TypeIds
        /\ \A i \in DOMAIN Types[t].members : Types[t].members[i].type \in TypeIds

=============================================================================
