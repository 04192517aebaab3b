----------------------------- MODULE FilterMeta -----------------------------
(***************************************************************************)
(* The metadata filter compiler, FilterMeta::from_string of                *)
(* src/retis/src/core/filters/meta/filter.rs.  It lowers a filter such as  *)
(* "sk_buff.dev.name == 'dummy0'" to a vector of MetaOps: a Target op at   *)
(* index 0, then the Loads that the in-kernel interpreter executes against *)
(* a live sk_buff.                                                         *)
(*                                                                         *)
(* from_string is one sequential call; its control is kept as a program    *)
(* counter over the phases of the function body:                           *)
(*   "parse"   parse_filter and the resolution of the root struct          *)
(*   "walk"    one iteration of the `for (pos, field)` loop per LHS node   *)
(*   "load"    emit_load of the terminal member                            *)
(*   "target"  Rval::from_str, emit_target and the insertion at index 0    *)
(* ending in "done" (Ok), "failed" (an Err returned through `?`/bail!) or  *)
(* "panicked" (a Rust panic).                                              *)
(*                                                                         *)
(* Data abstraction.  A filter string is given by its split: the number of *)
(* space-separated words, the LHS word as its '.'-separated nodes (each    *)
(* node as its ':'-separated parts), the operator word, and the RHS word   *)
(* as a sequence of characters.  A mask part is given by what the radix    *)
(* parse of its digits yields: [neg (leading '~'), ok (digits parse as a   *)
(* u64 in their base), val].  u64 values (masks, targets) are held as the  *)
(* integer with the same 64 bits read as i64, so that !m is -m-1 exactly.  *)
(***************************************************************************)
EXTENDS BtfTypes, Integers, Sequences, SequencesExt, Bitwise

CONSTANTS
    Filters,      \* the filter strings the run compiles
    PtrSize       \* size_of::<*const c_void>() of the build, in bytes

ASSUME PtrSize \in {4, 8}

VARIABLES
    filter,       \* the input filter (fixed)
    pc,           \* phase of from_string
    fields,       \* the parsed LHS nodes after the root (`fields`)
    cmpOp,        \* the parsed comparison operator (`op`)
    rhs,          \* the RHS word (`rval`)
    pos,          \* index of the LHS node being walked
    btype,        \* the type currently walked (`r#type`)
    offt,         \* bit offset carried through embedded records (`offt`)
    storedOffset, \* bit offset of the last matched member
    storedBf,     \* bitfield width of the last member that had one
    mask,         \* mask of the terminal node
    ops           \* the emitted MetaOps

vars == <<filter, pc, fields, cmpOp, rhs, pos, btype, offt, storedOffset,
          storedBf, mask, ops>>

-----------------------------------------------------------------------------
(* Constants of filter.rs *)
META_TARGET_MAX == 32
PTR_BIT == 64
SIGN_BIT == 128
MetaChar == 1
MetaShort == 2
MetaInt == 3
MetaLong == 4
\* MetaCmp discriminants
CmpCode == [op \in {"==", ">", "<", ">=", "<=", "!="} |->
              CASE op = "==" -> 0 [] op = ">" -> 1 [] op = "<" -> 2
                [] op = ">=" -> 3 [] op = "<=" -> 4 [] op = "!=" -> 5]
CmpEq == 0
CmpNe == 5

U8 == 256
U16 == 65536

NoLoad == [type |-> 0, nmemb |-> 0, offt |-> 0, bf_size |-> 0, mask |-> 0]
NoTarget == [md |-> [str |-> <<>>, num |-> 0], sz |-> 0, cmp |-> 0]
LoadOp(l) == [tag |-> "load", l |-> l]
TargetOp(t) == [tag |-> "target", t |-> t]

(* MetaLoad predicates *)
IsByte(l) == (l.type & 31) = MetaChar
IsShort(l) == (l.type & 31) = MetaShort
IsInt(l) == (l.type & 31) = MetaInt
IsLong(l) == (l.type & 31) = MetaLong
IsNum(l) == IsByte(l) \/ IsShort(l) \/ IsInt(l) \/ IsLong(l)
IsPtr(l) == (l.type & PTR_BIT) > 0
IsSigned(l) == (l.type & SIGN_BIT) > 0
IsArr(l) == l.nmemb > 0

-----------------------------------------------------------------------------
(* Parsing: parse_mask, parse_filter, Rval::from_str *)

\* parse_mask: strip '~', radix parse, complement, reject zero.
ParseMask(txt) ==
    LET m == IF txt.neg THEN -txt.val - 1 ELSE txt.val
    IN IF ~txt.ok \/ m = 0 THEN [ok |-> FALSE, val |-> 0]
       ELSE [ok |-> TRUE, val |-> m]

\* struct LhsNode: a member name, its mask (0 for none) and the cast's
\* target type name (<<>> for None).
LhsNode(member, m, tgt) == [member |-> member, mask |-> m, tgt |-> tgt]

\* One LHS node (the closure of parse_filter's `map`); first = node 0.
ParseNode(n, first) ==
    LET m == IF n.mask = <<>> THEN [ok |-> TRUE, val |-> 0]
             ELSE ParseMask(n.mask[1])
    IN [ok |-> /\ ~(first /\ n.member # "sk_buff")
               /\ ~(first /\ n.mask # <<>>)
               /\ m.ok
               /\ ~n.extra,
        node |-> LhsNode(n.member, m.val, n.cast)]

\* parse_filter: one word means `lhs != 0`, three words `lhs op rhs`.
ParseFilter(f) ==
    LET lhs == f.lhs
        op == IF f.nwords = 3 THEN f.op ELSE "!="
        rv == IF f.nwords = 3 THEN f.rhs ELSE <<"0">>
        nodes == [i \in DOMAIN lhs |-> ParseNode(lhs[i], i = 1)]
    IN [ok |-> /\ f.nwords \in {1, 3}
               /\ \A i \in DOMAIN nodes : nodes[i].ok
               /\ Len(lhs) > 1
               /\ op \in DOMAIN CmpCode,
        fields |-> [i \in 1..Len(lhs) - 1 |-> nodes[i + 1].node],
        cmp |-> IF op \in DOMAIN CmpCode THEN CmpCode[op] ELSE 0,
        rhs |-> rv]

RECURSIVE TrimStart0x(_)
TrimStart0x(s) ==
    IF Len(s) >= 2 /\ s[1] = "0" /\ s[2] = "x" THEN TrimStart0x(Tail(Tail(s)))
    ELSE s

Quoted(s, q) == Len(s) >= 1 /\ s[1] = q /\ s[Len(s)] = q

\* Mutant: the slice keeps the quotes (rval[0..len]).
RvalFromStrKeepQuotes(s) ==
    IF Quoted(s, "\"") \/ Quoted(s, "'")
    THEN IF Len(s) < 2 THEN [kind |-> "panic", body |-> s]
         ELSE [kind |-> "Str", body |-> s]
    ELSE IF Len(s) >= 2 /\ s[1] = "0" /\ s[2] = "x"
         THEN [kind |-> "Hex", body |-> TrimStart0x(s)]
         ELSE [kind |-> "Dec", body |-> s]

\* Rval::from_str.  A lone quote starts and ends with the quote, and the
\* slice rval[1..0] then panics.
RvalFromStr(s) ==
    IF Quoted(s, "\"") \/ Quoted(s, "'")
    THEN IF Len(s) < 2 THEN [kind |-> "panic", body |-> s]
         ELSE [kind |-> "Str", body |-> SubSeq(s, 2, Len(s) - 1)]
    ELSE IF Len(s) >= 2 /\ s[1] = "0" /\ s[2] = "x"
         THEN [kind |-> "Hex", body |-> TrimStart0x(s)]
         ELSE [kind |-> "Dec", body |-> s]

HexDigits == <<"0","1","2","3","4","5","6","7","8","9","a","b","c","d","e","f">>
DigitVal == [c \in ToSet(HexDigits) \cup {"A","B","C","D","E","F"} |->
               CASE c = "A" -> 10 [] c = "B" -> 11 [] c = "C" -> 12
                 [] c = "D" -> 13 [] c = "E" -> 14 [] c = "F" -> 15
                 [] OTHER -> SelectInSeq(HexDigits, LAMBDA h : h = c) - 1]

\* The largest magnitudes the parses accept, as digit strings: u64::MAX in
\* base 10 and 16, and the magnitude of i64::MIN.
U64Max == [b \in {10, 16} |->
             IF b = 10 THEN <<"1","8","4","4","6","7","4","4","0","7","3","7","0","9","5","5","1","6","1","5">>
             ELSE [i \in 1..16 |-> "f"]]
I64MinMag == <<"9","2","2","3","3","7","2","0","3","6","8","5","4","7","7","5","8","0","8">>

\* Digit strings of one base compared by value, without forming the value.
DigitsLeq(s, max) ==
    LET d == IF \A i \in DOMAIN s : DigitVal[s[i]] = 0 THEN <<>>
             ELSE SubSeq(s, SelectInSeq(s, LAMBDA c : DigitVal[c] # 0), Len(s))
    IN \/ Len(d) < Len(max)
       \/ /\ Len(d) = Len(max)
          /\ \/ \A i \in DOMAIN d : DigitVal[d[i]] = DigitVal[max[i]]
             \/ \E i \in DOMAIN d : /\ DigitVal[d[i]] < DigitVal[max[i]]
                                  /\ \A j \in 1..(i - 1) : DigitVal[d[j]] = DigitVal[max[j]]

\* The digits str::parse and from_str_radix read after the optional '+'
\* of an unsigned parse.
Unsigned(s) == IF s # <<>> /\ s[1] = "+" THEN Tail(s) ELSE s

\* A digit string in `base`, of either case, that fits max: the parse
\* fails on an empty string, any other character, and on overflow.
Parses(s, base, max) ==
    /\ s # <<>>
    /\ \A i \in DOMAIN s : s[i] \in DOMAIN DigitVal /\ DigitVal[s[i]] < base
    /\ DigitsLeq(s, max)

\* The value of a digit string.  A hex literal above i64::MAX is stored as
\* its two's-complement view; no input of the instances has one.
RadixValue(s, base) == FoldLeft(LAMBDA acc, c : acc * base + DigitVal[c], 0, s)

-----------------------------------------------------------------------------
(* Type walking: walk_btf_node, check_one_walkable, next_walkable *)

NotFound == [found |-> FALSE, off |-> 0, bfs |-> <<>>, type |-> 0]

(***************************************************************************)
(* walk_btf_node: the member `name` of record t, searched in declaration   *)
(* order, recursing into anonymous Struct/Union members with their bit     *)
(* offset added.  An anonymous member of another kind ends the search.     *)
(***************************************************************************)
RECURSIVE WalkBtfNode(_, _, _), WalkMembers(_, _, _, _)
WalkMembers(ms, i, name, offset) ==
    IF i > Len(ms) THEN NotFound
    ELSE LET m == ms[i] IN
         IF m.name = name
         THEN [found |-> TRUE, off |-> offset + m.off, bfs |-> m.bfs, type |-> m.type]
         ELSE IF m.name = ""
         THEN IF IsRecord(m.type)
              THEN LET r == WalkBtfNode(m.type, name, offset + m.off)
                   IN IF r.found THEN r ELSE WalkMembers(ms, i + 1, name, offset)
              ELSE NotFound
         ELSE WalkMembers(ms, i + 1, name, offset)
WalkBtfNode(t, name, offset) ==
    IF IsRecord(t) THEN WalkMembers(Types[t].members, 1, name, offset)
    ELSE NotFound

\* check_one_walkable: [err, walkable, ind] after looking at type t.
CheckOneWalkable(t, ind, casted) ==
    CASE Kind(t) = "Int" /\ Types[t].size = PtrSize /\ casted
              -> [err |-> FALSE, walkable |-> FALSE, ind |-> ind + 1]
      [] Kind(t) = "Ptr" -> [err |-> FALSE, walkable |-> FALSE, ind |-> ind + 1]
      [] IsRecord(t) -> [err |-> FALSE, walkable |-> TRUE, ind |-> ind]
      [] Kind(t) \in Transparent -> [err |-> FALSE, walkable |-> FALSE, ind |-> ind]
      [] OTHER -> [err |-> TRUE, walkable |-> FALSE, ind |-> ind]

(***************************************************************************)
(* next_walkable: [ok, ind, type].  When casted it returns after looking   *)
(* at t alone; otherwise it scans type_iter(t) for a Struct/Union,         *)
(* counting the pointers met on the way.                                   *)
(***************************************************************************)
NextWalkable(t, casted) ==
    LET c0 == CheckOneWalkable(t, 0, casted)
        chain == TypeIter(t)
        RECURSIVE Scan(_, _)
        Scan(i, ind) ==
            IF i > Len(chain) THEN [ok |-> FALSE, ind |-> ind, type |-> 0]
            ELSE LET c == CheckOneWalkable(chain[i], ind, casted) IN
                 IF c.err THEN [ok |-> FALSE, ind |-> ind, type |-> 0]
                 ELSE IF c.walkable THEN [ok |-> TRUE, ind |-> c.ind, type |-> chain[i]]
                 ELSE Scan(i + 1, c.ind)
    IN IF c0.err THEN [ok |-> FALSE, ind |-> 0, type |-> 0]
       ELSE IF c0.walkable THEN [ok |-> TRUE, ind |-> 0, type |-> t]
       ELSE IF casted THEN [ok |-> TRUE, ind |-> c0.ind, type |-> t]
       ELSE Scan(1, c0.ind)

-----------------------------------------------------------------------------
(* Emission: emit_load_ptr, emit_load, emit_target *)

\* Mutant: the pointer Load keeps the bit offset (no division by 8).
EmitLoadPtrBits(off, m) ==
    [ok |-> off < U16,
     l |-> [NoLoad EXCEPT !.offt = off, !.type = PTR_BIT, !.mask = m]]

EmitLoadPtr(off, m) ==
    [ok |-> off \div 8 < U16,
     l |-> [NoLoad EXCEPT !.offt = off \div 8, !.type = PTR_BIT, !.mask = m]]

\* One iteration of emit_load's loop over t and type_iter(t).
LoadStep(acc, t) ==
    LET l == acc.l
        Bail == [acc EXCEPT !.ok = FALSE]
        Set(bits) == [acc EXCEPT !.l.type = l.type | bits]
        Sgn(b) == IF b THEN SIGN_BIT ELSE 0
        sizeKind == [s \in {8, 4, 2, 1} |->
                       CASE s = 8 -> MetaLong [] s = 4 -> MetaInt
                         [] s = 2 -> MetaShort [] s = 1 -> MetaChar]
    IN IF ~acc.ok THEN acc
       ELSE CASE Kind(t) = "Ptr" -> IF IsPtr(l) THEN Bail ELSE Set(PTR_BIT)
              [] Kind(t) = "Array" ->
                    IF IsPtr(l) \/ Types[t].len >= U8 THEN Bail
                    ELSE [acc EXCEPT !.l.nmemb = Types[t].len]
              [] Kind(t) = "Enum" ->
                    IF IsPtr(l) THEN Bail ELSE Set(MetaInt | Sgn(Types[t].signed))
              [] Kind(t) = "Enum64" ->
                    IF IsPtr(l) THEN Bail ELSE Set(MetaLong | Sgn(Types[t].signed))
              [] Kind(t) = "Int" ->
                    IF Types[t].size \notin DOMAIN sizeKind THEN Bail
                    ELSE LET n == [l EXCEPT !.type = l.type | Sgn(Types[t].signed)
                                                            | sizeKind[Types[t].size]]
                         IN IF ~IsByte(n) /\ (IsArr(n) \/ IsPtr(n)) THEN Bail
                            ELSE [acc EXCEPT !.l = n]
              [] Kind(t) \in Transparent -> acc
              [] OTHER -> Bail

(***************************************************************************)
(* emit_load: the terminal Load.  The mask is kept only for pointers and   *)
(* unsigned numbers; the bit offset goes through u16::try_from before it   *)
(* is divided by 8 for a non-bitfield member.                              *)
(***************************************************************************)
\* Mutant: the offset is not checked against u16 (an `as u16` cast would
\* wrap; here the out-of-range value is kept to make the overflow visible).
EmitLoadNoU16(t, off, bfs, m) ==
    LET r == FoldLeft(LoadStep, [ok |-> TRUE, l |-> NoLoad], <<t>> \o TypeIter(t))
        l == r.l
    IN [ok |-> /\ r.ok
               /\ m # 0 => IsPtr(l) \/ (IsNum(l) /\ ~IsSigned(l))
               /\ bfs < U8,
        l |-> [l EXCEPT !.mask = m, !.bf_size = bfs,
                        !.offt = IF bfs = 0 THEN off \div 8 ELSE off]]

EmitLoad(t, off, bfs, m) ==
    LET r == FoldLeft(LoadStep, [ok |-> TRUE, l |-> NoLoad], <<t>> \o TypeIter(t))
        l == r.l
    IN [ok |-> /\ r.ok
               /\ m # 0 => IsPtr(l) \/ (IsNum(l) /\ ~IsSigned(l))
               /\ bfs < U8
               /\ off < U16,
        l |-> [l EXCEPT !.mask = m, !.bf_size = bfs,
                        !.offt = IF bfs = 0 THEN off \div 8 ELSE off]]

(***************************************************************************)
(* emit_target: pointers and arrays compare to a string of at most 31      *)
(* bytes with == or != only; numbers take a decimal (negative only for     *)
(* signed loads) or hex literal and the load's width.                      *)
(***************************************************************************)
EmitTarget(l, rv, cmp) ==
    LET b == rv.body
        neg == b # <<>> /\ b[1] = "-"
        mag == IF rv.kind = "Dec" /\ neg THEN Tail(b) ELSE Unsigned(b)
        base == IF rv.kind = "Hex" THEN 16 ELSE 10
        numOk == CASE rv.kind = "Dec" /\ neg -> IsSigned(l) /\ Parses(mag, 10, I64MinMag)
                   [] rv.kind \in {"Dec", "Hex"} -> Parses(mag, base, U64Max[base])
                   [] OTHER -> FALSE
        num == CASE ~numOk -> 0
                 [] rv.kind = "Dec" /\ neg -> -RadixValue(mag, 10)
                 [] OTHER -> RadixValue(mag, base)
        width == CASE IsByte(l) -> 1 [] IsShort(l) -> 2 [] IsInt(l) -> 4 [] OTHER -> 8
    IN IF IsPtr(l) \/ l.nmemb > 0
       THEN [ok |-> cmp \in {CmpEq, CmpNe} /\ rv.kind = "Str" /\ Len(b) < META_TARGET_MAX,
             t |-> [NoTarget EXCEPT !.md.str = b, !.sz = Len(b), !.cmp = cmp]]
       ELSE IF IsNum(l)
       THEN [ok |-> numOk,
             t |-> [NoTarget EXCEPT !.md.num = num, !.sz = width, !.cmp = cmp]]
       ELSE [ok |-> TRUE, t |-> [NoTarget EXCEPT !.cmp = cmp]]

-----------------------------------------------------------------------------
(* from_string *)

Init ==
    /\ filter \in Filters
    /\ pc = "parse"
    /\ fields = <<>>
    /\ cmpOp = 0
    /\ rhs = <<>>
    /\ pos = 0
    /\ btype = 0
    /\ offt = 0
    /\ storedOffset = 0
    /\ storedBf = 0
    /\ mask = 0
    /\ ops = <<>>

Fail == pc' = "failed" /\ UNCHANGED <<filter, fields, cmpOp, rhs, pos, btype,
                                      offt, storedOffset, storedBf, mask, ops>>

\* parse_filter, then the root "sk_buff" resolved to its Struct candidate.
Parse ==
    /\ pc = "parse"
    /\ LET p == ParseFilter(filter)
           root == FirstOfKind("sk_buff", {"Struct"})
       IN IF ~p.ok \/ root = 0 THEN Fail
          ELSE /\ pc' = "walk"
               /\ fields' = p.fields
               /\ cmpOp' = p.cmp
               /\ rhs' = p.rhs
               /\ pos' = 1
               /\ btype' = root
               /\ UNCHANGED <<filter, offt, storedOffset, storedBf, mask, ops>>

(***************************************************************************)
(* One iteration of the walk loop.  An intermediate node needs its member  *)
(* to reach a record through at most one pointer: a pointer emits a        *)
(* pointer Load and restarts the offset at 0, an embedded record carries   *)
(* the offset on.  A cast replaces the walked type by the named type.  The *)
(* terminal node only records the member for emit_load.                    *)
(***************************************************************************)
WalkField ==
    /\ pc = "walk"
    /\ pos <= Len(fields)
    /\ LET field == fields[pos]
           sub == WalkBtfNode(btype, field.member, offt)
           casted == field.tgt # <<>>
           nw == NextWalkable(sub.type, casted)
           ptrLoad == EmitLoadPtr(sub.off, field.mask)
           cast == FirstOfKind(field.tgt[1], {"Union", "Struct", "Typedef"})
           cnw == NextWalkable(cast, FALSE)
           last == pos = Len(fields)
       IN IF \/ ~sub.found
             \/ ~last /\ \/ ~nw.ok
                         \/ nw.ind > 1
                         \/ nw.ind = 1 /\ ~ptrLoad.ok
                         \/ nw.ind = 0 /\ field.mask # 0
                         \/ casted /\ (cast = 0 \/ ~cnw.ok \/ cnw.ind > 0)
             \/ last /\ casted
          THEN Fail
          ELSE /\ pc' = "walk"
               /\ pos' = pos + 1
               /\ offt' = IF last THEN offt ELSE IF nw.ind = 1 THEN 0 ELSE sub.off
               /\ ops' = IF ~last /\ nw.ind = 1 THEN Append(ops, LoadOp(ptrLoad.l)) ELSE ops
               /\ btype' = CASE last -> sub.type
                             [] casted -> cnw.type
                             [] OTHER -> nw.type
               /\ mask' = IF last THEN field.mask ELSE mask
               /\ storedOffset' = sub.off
               /\ storedBf' = IF sub.bfs # <<>> THEN sub.bfs[1] ELSE storedBf
               /\ UNCHANGED <<filter, fields, cmpOp, rhs>>

\* The terminal Load, pushed after the pointer Loads of the walk.
LoadLeaf ==
    /\ pc = "walk"
    /\ pos > Len(fields)
    /\ LET lmo == EmitLoad(btype, storedOffset, storedBf, mask)
       IN IF ~lmo.ok THEN Fail
          ELSE /\ pc' = "target"
               /\ ops' = Append(ops, LoadOp(lmo.l))
               /\ UNCHANGED <<filter, fields, cmpOp, rhs, pos, btype, offt,
                              storedOffset, storedBf, mask>>

\* Rval::from_str, emit_target from the terminal Load, inserted at index 0.
Target ==
    /\ pc = "target"
    /\ LET rv == RvalFromStr(rhs)
           tgt == EmitTarget(ops[Len(ops)].l, rv, cmpOp)
       IN CASE rv.kind = "panic" ->
                 pc' = "panicked" /\ UNCHANGED <<filter, fields, cmpOp, rhs, pos,
                                        btype, offt, storedOffset, storedBf, mask, ops>>
            [] ~tgt.ok -> Fail
            [] OTHER -> /\ pc' = "done"
                        /\ ops' = <<TargetOp(tgt.t)>> \o ops
                        /\ UNCHANGED <<filter, fields, cmpOp, rhs, pos, btype,
                                       offt, storedOffset, storedBf, mask>>

Next == Parse \/ WalkField \/ LoadLeaf \/ Target

Spec == Init /\ [][Next]_vars

Finished == pc \in {"done", "failed", "panicked"}

-----------------------------------------------------------------------------
(* Properties *)

\* The MetaOp fields keep the widths of the #[repr(C)] records shared with
\* the in-kernel interpreter: u8 type, nmemb, bf_size, sz and cmp, u16 offt.
MetaLoads == [type : 0..255, nmemb : 0..255, offt : 0..(U16 - 1), bf_size : 0..255, mask : Int]
MetaTargets == [md : [str : Seq(STRING), num : Int], sz : 0..255, cmp : 0..5]
TypeOK ==
    /\ pc \in {"parse", "walk", "target", "done", "failed", "panicked"}
    /\ btype \in {0} \cup TypeIds
    /\ offt \in Nat /\ storedOffset \in Nat /\ storedBf \in Nat
    /\ \A i \in DOMAIN ops :
         \/ ops[i].tag = "load" /\ ops[i].l \in MetaLoads
         \/ ops[i].tag = "target" /\ ops[i].t \in MetaTargets

=============================================================================
