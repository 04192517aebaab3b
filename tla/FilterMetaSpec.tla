--------------------------- MODULE FilterMetaSpec ---------------------------
(***************************************************************************)
(* What the filter compiler promises (spec sections 3, 4.1 and 6), stated  *)
(* as one atomic step: a filter is either rejected or compiled to exactly  *)
(* the program CompileRef prescribes.  CompileRef is written from the      *)
(* spec's grammar and compilation algorithm, over the same type database   *)
(* contract (BtfTypes) and the same data abstraction as FilterMeta:        *)
(* Loads are [type, nmemb, offt, bf_size, mask] with the kind_bits layout  *)
(* of section 3, Targets are [md, sz, cmp].                                *)
(***************************************************************************)
EXTENDS BtfTypes, Integers, Sequences, SequencesExt

CONSTANTS Filters, PtrSize

VARIABLES filter, result

-----------------------------------------------------------------------------
OpsMax == 32
TargetBytes == 32
Ops == [o \in {"==", ">", "<", ">=", "<=", "!="} |->
          CASE o = "==" -> 0 [] o = ">" -> 1 [] o = "<" -> 2
            [] o = ">=" -> 3 [] o = "<=" -> 4 [] o = "!=" -> 5]
Rejected == [state |-> "rejected", ops |-> <<>>]
Accepted(p) == [state |-> "ok", ops |-> p]
Pending == [state |-> "pending", ops |-> <<>>]
Load(kindBits, n, off, bf, m) ==
    [tag |-> "load", l |-> [type |-> kindBits, nmemb |-> n, offt |-> off,
                            bf_size |-> bf, mask |-> m]]

\* The mask parser: optional '~' complement, zero rejected.
MaskValue(txt) == IF txt.neg THEN -txt.val - 1 ELSE txt.val
MaskOk(txt) == txt.ok /\ MaskValue(txt) # 0

\* Grammar of section 6 for one LHS node.
NodeOk(n, first) ==
    IF first THEN n.member = "sk_buff" /\ n.mask = <<>> /\ ~n.extra
    ELSE /\ n.member # ""
         /\ ~n.extra
         /\ \A i \in DOMAIN n.mask : MaskOk(n.mask[i])
         /\ \A i \in DOMAIN n.cast : n.cast[i] # ""

NodeMask(n) == IF n.mask = <<>> THEN 0 ELSE MaskValue(n.mask[1])

Digits(s, base) ==
    /\ s # <<>>
    /\ \A i \in DOMAIN s :
         s[i] \in {"0","1","2","3","4","5","6","7","8","9","a","b","c","d","e","f"}
         /\ (base = 10 => s[i] \in {"0","1","2","3","4","5","6","7","8","9"})
Val(c) == CASE c = "a" -> 10 [] c = "b" -> 11 [] c = "c" -> 12 [] c = "d" -> 13
            [] c = "e" -> 14 [] c = "f" -> 15
            [] OTHER -> CHOOSE v \in 0..9 : ToString(v) = c
RECURSIVE Number(_, _)
Number(s, base) == IF s = <<>> THEN 0
                   ELSE Number(Front(s), base) * base + Val(Last(s))

\* rhs := quoted | "0x" hex+ | "-"? digit+
IsQuoted(s) == Len(s) >= 2 /\ s[1] = s[Len(s)] /\ s[1] \in {"'", "\""}
IsHex(s) == Len(s) > 2 /\ s[1] = "0" /\ s[2] = "x" /\ Digits(SubSeq(s, 3, Len(s)), 16)
IsNeg(s) == Len(s) > 1 /\ s[1] = "-" /\ Digits(Tail(s), 10)

-----------------------------------------------------------------------------
(* The type walk of section 4.1 step 3 *)

\* Step 3a: member lookup, through anonymous records, offsets accumulated.
RECURSIVE Field(_, _)
Field(t, name) ==
    LET ms == Types[t].members
        RECURSIVE From(_)
        From(i) ==
            IF i > Len(ms) THEN [found |-> FALSE]
            ELSE IF ms[i].name = name
                 THEN [found |-> TRUE, off |-> ms[i].off, bfs |-> ms[i].bfs, type |-> ms[i].type]
            ELSE IF ms[i].name = "" /\ IsRecord(ms[i].type)
                 THEN LET r == Field(ms[i].type, name)
                      IN IF r.found THEN [r EXCEPT !.off = @ + ms[i].off] ELSE From(i + 1)
            ELSE From(i + 1)
    IN IF IsRecord(t) THEN From(1) ELSE [found |-> FALSE]

\* The first non-transparent type reached from t (t included).
RECURSIVE Strip(_)
Strip(t) == IF Kind(t) \in Transparent /\ Types[t].ref # 0 THEN Strip(Types[t].ref) ELSE t

(***************************************************************************)
(* Step 3b, next walkable: [ok, ind, type].  Without a cast, follow the    *)
(* chain to a Struct/Union counting pointers; with a cast, the member must *)
(* be a pointer or a pointer-sized integer, one indirection.               *)
(***************************************************************************)
RECURSIVE Walkable(_, _)
Walkable(t, ind) ==
    LET s == Strip(t) IN
    CASE IsRecord(s) -> [ok |-> TRUE, ind |-> ind, type |-> s]
      [] Kind(s) = "Ptr" /\ Types[s].ref # 0 -> Walkable(Types[s].ref, ind + 1)
      [] OTHER -> [ok |-> FALSE, ind |-> ind, type |-> s]
CastWalkable(t) ==
    LET s == Strip(t) IN
    [ok |-> Kind(s) = "Ptr" \/ (Kind(s) = "Int" /\ Types[s].size = PtrSize),
     ind |-> 1, type |-> s]

\* The pointer bit (64) and the sign bit (128) of the kind_bits.
HasPtrBit(bits) == (bits \div 64) % 2 = 1

\* Step 4: [ok, bits, nmemb] of the terminal type's chain.
RECURSIVE Shape(_, _)
Shape(t, s) ==
    LET k == Kind(t)
        ptr == HasPtrBit(s.bits)
        next(x) == IF Types[t].ref = 0 THEN x ELSE Shape(Types[t].ref, x)
        bad == [s EXCEPT !.ok = FALSE]
        sizeKind(n) == CASE n = 1 -> 1 [] n = 2 -> 2 [] n = 4 -> 3 [] n = 8 -> 4
    IN CASE k \in Transparent -> next(s)
         [] k = "Ptr" -> IF ptr THEN bad ELSE next([s EXCEPT !.bits = @ + 64])
         [] k = "Array" -> IF ptr \/ Types[t].len > 255 THEN bad
                           ELSE next([s EXCEPT !.nmemb = Types[t].len])
         [] k \in {"Int", "Enum", "Enum64"} ->
              LET size == CASE k = "Enum" -> 4 [] k = "Enum64" -> 8 [] OTHER -> Types[t].size
              IN IF size \notin {1, 2, 4, 8} \/ (size > 1 /\ (ptr \/ s.nmemb > 0)) THEN bad
                 ELSE [s EXCEPT !.bits = @ + sizeKind(size)
                                        + (IF Types[t].signed THEN 128 ELSE 0)]
         [] OTHER -> bad

\* Step 4 and 5: terminal Load and Target for member m under node n.
Terminal(m, base, n, cmp, rv) ==
    LET sh == Shape(m.type, [ok |-> TRUE, bits |-> 0, nmemb |-> 0])
        ptr == HasPtrBit(sh.bits)
        kindBits == sh.bits % 32
        signed == sh.bits >= 128
        scalar == kindBits \in 1..4
        bf == IF m.bfs = <<>> THEN 0 ELSE m.bfs[1]
        bitOff == base + m.off
        off == IF bf > 0 THEN bitOff ELSE bitOff \div 8
        msk == NodeMask(n)
        str == IsQuoted(rv) /\ Len(rv) - 2 < TargetBytes
        isStr == ptr \/ sh.nmemb > 0
        num == CASE IsHex(rv) -> Number(SubSeq(rv, 3, Len(rv)), 16)
                 [] IsNeg(rv) -> -Number(Tail(rv), 10)
                 [] Digits(rv, 10) -> Number(rv, 10)
                 [] OTHER -> 0
        width == CASE kindBits = 1 -> 1 [] kindBits = 2 -> 2 [] kindBits = 3 -> 4 [] OTHER -> 8
        md == IF isStr THEN [str |-> SubSeq(rv, 2, Len(rv) - 1), num |-> 0]
              ELSE [str |-> <<>>, num |-> num]
    IN [ok |-> /\ n.cast = <<>>
               /\ sh.ok /\ (scalar \/ ptr)
               /\ msk # 0 => ptr \/ (scalar /\ ~signed)
               /\ off < 65536 /\ bf < 256
               /\ IF isStr THEN str /\ cmp \in {0, 5}
                  ELSE IsHex(rv) \/ Digits(rv, 10) \/ (IsNeg(rv) /\ signed),
        load |-> Load(sh.bits, sh.nmemb, off, bf, msk),
        target |-> [tag |-> "target",
                    t |-> [md |-> md, sz |-> IF isStr THEN Len(rv) - 2 ELSE width,
                           cmp |-> cmp]]]

(***************************************************************************)
(* Step 3 for the nodes fs[i..] from record t at bit offset base, with the *)
(* pointer Loads emitted so far.  Result: [ok, ops].                       *)
(***************************************************************************)
RECURSIVE Walk(_, _, _, _, _, _, _)
Walk(fs, i, t, base, loads, cmp, rv) ==
    LET n == fs[i]
        m == Field(t, n.member)
        cast == n.cast # <<>>
        nw == IF cast THEN CastWalkable(m.type) ELSE Walkable(m.type, 0)
        bitOff == base + m.off
        ct == FirstOfKind(n.cast[1], {"Struct", "Union", "Typedef"})
        cw == Walkable(ct, 0)
        nextT == IF cast THEN cw.type ELSE nw.type
        ptrLoad == Load(64, 0, bitOff \div 8, 0, NodeMask(n))
        term == Terminal(m, base, n, cmp, rv)
    IN IF ~m.found THEN Rejected
       ELSE IF i = Len(fs)
       THEN IF term.ok THEN Accepted(<<term.target>> \o Append(loads, term.load))
            ELSE Rejected
       ELSE IF \/ ~nw.ok \/ nw.ind > 1
               \/ nw.ind = 0 /\ NodeMask(n) # 0
               \/ nw.ind = 1 /\ bitOff \div 8 >= 65536
               \/ cast /\ (ct = 0 \/ ~cw.ok \/ cw.ind # 0)
            THEN Rejected
       ELSE IF nw.ind = 1
            THEN Walk(fs, i + 1, nextT, 0, Append(loads, ptrLoad), cmp, rv)
            ELSE Walk(fs, i + 1, nextT, bitOff, loads, cmp, rv)

\* The whole compilation of one filter (steps 1 to 6).
CompileRef(f) ==
    LET lhs == f.lhs
        op == IF f.nwords = 3 THEN f.op ELSE "!="
        rv == IF f.nwords = 3 THEN f.rhs ELSE <<"0">>
        root == FirstOfKind("sk_buff", {"Struct"})
        r == Walk(Tail(lhs), 1, root, 0, <<>>, Ops[op], rv)
    IN IF \/ f.nwords \notin {1, 3}
          \/ Len(lhs) < 2
          \/ \E i \in DOMAIN lhs : ~NodeOk(lhs[i], i = 1)
          \/ op \notin DOMAIN Ops
          \/ root = 0
       THEN Rejected
       ELSE IF r.state = "ok" /\ Len(r.ops) > OpsMax THEN Rejected ELSE r

-----------------------------------------------------------------------------
Init == filter \in Filters /\ result = Pending

Compile == result = Pending /\ result' = CompileRef(filter) /\ UNCHANGED filter

Spec == Init /\ [][Compile]_<<filter, result>>

=============================================================================
