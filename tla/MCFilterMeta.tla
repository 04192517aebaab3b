---------------------------- MODULE MCFilterMeta ----------------------------
(***************************************************************************)
(* Model-checking instance of FilterMeta: a kernel-like BTF fixture and    *)
(* the families of filter strings each run compiles.  The fixture keeps    *)
(* the layout the unit tests of filter.rs assert (dev at byte 16, mark at  *)
(* byte 168, pkt_type a 3-bit field at bit 1024, _nfct an unsigned long at *)
(* bit 832, net_device.name a char[16] at 0, nf_conn.mark at bit 1344) and *)
(* adds one type of every shape the compiler branches on: anonymous        *)
(* unions and structs, a named embedded struct, typedef chains, const,     *)
(* enums, bitfields, a 16-bit integer, a double pointer, a function        *)
(* pointer, a struct larger than 8 KiB, a 256-byte array and a             *)
(* pointer-sized bitfield.                                                 *)
(***************************************************************************)
EXTENDS FilterMeta

\* Type constructors
S(n, ms) == [kind |-> "Struct", name |-> n, size |-> 0, signed |-> FALSE, len |-> 0, ref |-> 0, members |-> ms]
U(ms) == [S("", ms) EXCEPT !.kind = "Union"]
I(n, sz, sg) == [kind |-> "Int", name |-> n, size |-> sz, signed |-> sg, len |-> 0, ref |-> 0, members |-> <<>>]
E(n) == [I(n, 4, FALSE) EXCEPT !.kind = "Enum"]
R(k, n, r) == [kind |-> k, name |-> n, size |-> 0, signed |-> FALSE, len |-> 0, ref |-> r, members |-> <<>>]
A(r, l) == [R("Array", "", r) EXCEPT !.len = l]
M(n, off, t) == [name |-> n, off |-> off, bfs |-> <<0>>, type |-> t]
MB(n, off, w, t) == [name |-> n, off |-> off, bfs |-> <<w>>, type |-> t]
MP(n, off, t) == [name |-> n, off |-> off, bfs |-> <<>>, type |-> t]

MCTypes == <<
  (* 1 *) S("sk_buff", <<M("next", 0, 11), M("dev", 128, 12), M("", 192, 5),
                         M("cb", 320, 19), M("_nfct", 832, 37), M("len", 896, 29),
                         M("mac_len", 960, 41), MB("pkt_type", 1024, 3, 22),
                         MB("cloned", 1027, 1, 22), MB("nf_bits", 1088, 48, 37),
                         M("", 1152, 6),
                         M("mark", 1344, 24), M("data", 1600, 15)>>),
  (* 2 *) S("net_device", <<M("name", 0, 18), M("mtu", 1024, 29),
                            M("pcpu_refcnt", 1088, 16), M("ml_priv_type", 1152, 38),
                            M("netdev_ops", 1216, 14), M("nd_net", 1280, 8),
                            M("skb_pp", 1344, 17), M("ifalias", 1408, 43)>>),
  (* 3 *) S("nf_conn", <<MP("ct_net", 1024, 8), MP("mark", 1344, 24)>>),
  (* 4 *) S("sk_buff_members", <<M("skb_iif", 0, 27), M("hash", 32, 29)>>),
  (* 5 *) U(<<M("tstamp", 0, 33), M("skb_mstamp_ns", 0, 36)>>),
  (* 6 *) U(<<M("", 0, 7), M("headers", 0, 4)>>),
  (* 7 *) S("", <<M("skb_iif", 0, 27), M("hash", 32, 29)>>),
  (* 8 *) S("possible_net_t", <<MP("net", 0, 13)>>),
  (* 9 *) S("net", <<MP("loopback_dev", 64, 12), MP("ifindex", 65600, 27),
                     [MP("flags", 65608, 22) EXCEPT !.bfs = <<1>>]>>),
  (* 10 *) S("net_device_ops", <<MP("ndo_open", 0, 20)>>),
  (* 11 *) R("Ptr", "", 1),
  (* 12 *) R("Ptr", "", 2),
  (* 13 *) R("Ptr", "", 9),
  (* 14 *) R("Ptr", "", 21),
  (* 15 *) R("Ptr", "", 26),
  (* 16 *) R("Ptr", "", 27),
  (* 17 *) R("Ptr", "", 11),
  (* 18 *) A(28, 16),
  (* 19 *) A(28, 48),
  (* 20 *) R("Ptr", "", 30),
  (* 21 *) R("Const", "", 10),
  (* 22 *) R("Typedef", "__u8", 26),
  (* 23 *) R("Typedef", "__u32", 29),
  (* 24 *) R("Typedef", "u32", 23),
  (* 25 *) R("Typedef", "netdev_ops_t", 10),
  (* 26 *) I("unsigned char", 1, FALSE),
  (* 27 *) I("int", 4, TRUE),
  (* 28 *) I("char", 1, FALSE),
  (* 29 *) I("unsigned int", 4, FALSE),
  (* 30 *) R("FuncProto", "", 0),
  (* 31 *) I("long long", 8, TRUE),
  (* 32 *) R("Typedef", "s64", 31),
  (* 33 *) R("Typedef", "ktime_t", 32),
  (* 34 *) I("unsigned long long", 8, FALSE),
  (* 35 *) R("Typedef", "__u64", 34),
  (* 36 *) R("Typedef", "u64", 35),
  (* 37 *) I("unsigned long", 8, FALSE),
  (* 38 *) E("netdev_ml_priv_type"),
  (* 39 *) R("Typedef", "nf_conn_ptr_t", 40),
  (* 40 *) R("Ptr", "", 3),
  (* 41 *) R("Typedef", "__u16", 42),
  (* 42 *) I("unsigned short", 2, FALSE),
  (* 43 *) A(28, 256)
>>

-----------------------------------------------------------------------------
(* Filter strings *)

\* A node "member", "member:mask" or "member:mask:type"
N(n) == [member |-> n, mask |-> <<>>, cast |-> <<>>, extra |-> FALSE]
NM(n, m) == [N(n) EXCEPT !.mask = <<m>>]
NMC(n, m, c) == [NM(n, m) EXCEPT !.cast = <<c>>]
Root == N("sk_buff")
Bare(lhs) == [nwords |-> 1, lhs |-> lhs, op |-> "", rhs |-> <<>>]
Cmp(lhs, op, rv) == [nwords |-> 3, lhs |-> lhs, op |-> op, rhs |-> rv]

\* Mask texts: 0xff, ~0x0, 0x0, ~0xffffffffffffffff, ~0b10, "0xzz"
MHex == [neg |-> FALSE, ok |-> TRUE, val |-> 255]
MNotZero == [neg |-> TRUE, ok |-> TRUE, val |-> 0]
MZero == [neg |-> FALSE, ok |-> TRUE, val |-> 0]
MNotOnes == [neg |-> TRUE, ok |-> TRUE, val |-> -1]
MNotTwo == [neg |-> TRUE, ok |-> TRUE, val |-> 2]
MBad == [neg |-> FALSE, ok |-> FALSE, val |-> 0]
MaskTexts == {MHex, MNotZero, MZero, MNotOnes, MNotTwo, MBad}

Quote(s) == <<"'">> \o s \o <<"'">>
Str(n) == [i \in 1..n |-> "a"]
\* RHS words: 7, -7, 0xff, 'a', "ab", '', a, 0x, 'a", the empty word,
\* and quoted strings of 31 and 32 bytes.
RhsWords == {<<"7">>, <<"-", "7">>, <<"0", "x", "f", "f">>, Quote(<<"a">>),
             <<"\"", "a", "b", "\"">>, Quote(<<>>), <<"a">>, <<"0", "x">>,
             <<"'", "a", "\"">>, <<>>, Quote(Str(31)), Quote(Str(32))}
CmpWords == {"==", "!=", "<", "<=", ">", ">=", "=<"}

Pool == {"next", "dev", "mark", "pkt_type", "name", "headers", "skb_iif",
         "cb", "data", "nd_net", "net", "loopback_dev", "pcpu_refcnt",
         "netdev_ops", "ndo_open", "skb_pp", "nosuch"}

\* Every plain path of 1 or 2 members below the root, and the paths of 3
\* members that go through a pointer, an embedded record or a double pointer.
Hops == {"dev", "next", "headers", "nd_net", "netdev_ops", "skb_pp", "net"}
Paths == {<<Root>> \o [i \in 1..Len(p) |-> N(p[i])] :
             p \in BoundedSeq(Pool, 2) \cup {<<a, b, c>> : a \in {"dev", "next"}, b \in Hops, c \in Pool}}
         \ {<<Root>>}

\* Leaves of every load shape, compared with every operator and RHS word.
Leaves == {<<Root, N("mark")>>, <<Root, N("skb_iif")>>, <<Root, N("pkt_type")>>,
           <<Root, N("dev"), N("name")>>, <<Root, N("data")>>, <<Root, N("cb")>>,
           <<Root, N("dev"), N("ml_priv_type")>>, <<Root, N("mac_len")>>,
           <<Root, N("tstamp")>>, <<Root, N("_nfct")>>, <<Root, N("dev"), N("ifalias")>>}

\* Masks and casts on an intermediate node and on the leaf.
Decorated ==
    {<<Root, NMC(a, m, c), N(b)>> :
        a \in {"_nfct", "dev", "headers", "cloned", "cb", "len"},
        m \in MaskTexts, c \in {"nf_conn", "netdev_ops_t", "nf_conn_ptr_t", "u32", "nosuch"},
        b \in {"mark", "ct_net", "ndo_open"}}
    \cup {<<Root, NM(a, m), N(b)>> : a \in {"dev", "headers", "nd_net"}, m \in MaskTexts,
                                     b \in {"mtu", "skb_iif", "net"}}
    \cup {<<Root, NM(a, m)>> : a \in {"mark", "pkt_type", "skb_iif", "data", "cb", "dev"}, m \in MaskTexts}
    \cup {<<Root, N("dev"), NM("name", m)>> : m \in MaskTexts}
    \cup {<<Root, N("_nfct"), NMC("mark", MNotZero, "nf_conn")>>,
          <<Root, N("_nfct"), N("mark")>>,
          <<Root, [NMC("mark", MHex, "u32") EXCEPT !.extra = TRUE]>>,
          <<NM("sk_buff", MHex), N("mark")>>,
          <<N("net_device"), N("mtu")>>,
          <<Root, N("dev"), N("nd_net"), N("net"), N("flags")>>,
          <<Root>>}

PassFilters ==
    {Bare(p) : p \in Paths \cup Decorated}
    \cup {Cmp(p, "==", Quote(<<"a">>)) : p \in Paths}
    \cup {Cmp(p, ">=", <<"7">>) : p \in Paths \cup Decorated}
    \cup {Cmp(l, o, r) : l \in Leaves, o \in CmpWords, r \in RhsWords}
    \cup {[Cmp(<<Root, N("mark")>>, "==", <<"7">>) EXCEPT !.nwords = n] : n \in {2, 5}}

\* Inputs on which the compiler and the specification disagree.
\* More than 32 ops: a walk through 31 pointers before the leaf.
TooManyOps == {Bare(<<Root>> \o [i \in 1..31 |-> N("next")] \o <<N("mark")>>)}
\* A lone quote as the RHS.
LoneQuote == {Cmp(<<Root, N("mark")>>, "==", <<"'">>)}
\* A member at byte 8200 of a struct behind a pointer.
FarMember == {Bare(<<Root, N("dev"), N("nd_net"), N("net"), N("ifindex")>>)}
\* A cast of a 64-bit integer reached through a typedef chain.
TypedefCast == {Bare(<<Root, NMC("skb_mstamp_ns", MNotZero, "nf_conn"), N("mark")>>)}

\* A cast of a pointer-sized bitfield, then a member without bitfield data.
CastBitfield == {Bare(<<Root, NMC("nf_bits", MNotZero, "nf_conn"), N("mark")>>)}

-----------------------------------------------------------------------------
(***************************************************************************)
(* The unit tests of filter.rs, each as the filters it compiles and what   *)
(* it asserts of the result.  A mask text is its radix parse, so "0x2" and *)
(* "0b10" are one input here, as are "0x0", "0b00" and "0".  The case      *)
(* "sk_buff.mark == 4294967296" of meta_negative_filter_u32 is left out:   *)
(* its value is beyond TLC's integers.                                     *)
(***************************************************************************)
Dummy0 == <<"d", "u", "m", "m", "y", "0">>
Hex(ds) == <<"0", "x">> \o ds
C0de == Hex(<<"c", "0", "d", "e">>)
Bad == Hex(<<"b", "a", "d">>)
TestOps == {"==", "!=", "<", "<=", ">", ">="}
Mask(v) == [neg |-> FALSE, ok |-> TRUE, val |-> v]
Load(type, nmemb, o, bf, m) == [type |-> type, nmemb |-> nmemb, offt |-> o, bf_size |-> bf, mask |-> m]

\* filter.0[i].load_ref() and filter.0[0].target_ref() of the result.
LoadAt(i) == ops[i + 1].l
Target0 == ops[1].t

\* meta_negative_generic: no sk_buff root, a struct compared, a pointer
\* to int.
NegativeGeneric ==
    {Cmp(<<N("dev"), N("mark")>>, "==", C0de), Cmp(<<Root, N("dev")>>, "==", Bad),
     Cmp(<<Root, N("dev"), N("pcpu_refcnt")>>, "==", Bad)}

\* meta_negative_filter_string: an unquoted string, a string with an order
\* operator, and a string against a number; the last is not passed
\* through format!, so its operator word is "{op_str}" itself.
NegativeFilterString ==
    {Cmp(<<Root, N("dev"), N("name")>>, o, Dummy0) : o \in TestOps}
    \cup {Cmp(<<Root, N("dev"), N("name")>>, o, Quote(Dummy0)) : o \in TestOps \ {"==", "!="}}
    \cup {Cmp(<<Root, N("mark")>>, "{op_str}", Quote(Dummy0))}

\* meta_filter_string, for == and !=
FilterString(o) == Cmp(<<Root, N("dev"), N("name")>>, o, Quote(Dummy0))
FilterStringAsserts ==
    /\ pc = "done" /\ Len(ops) = 3
    /\ ~IsNum(LoadAt(1)) /\ ~IsArr(LoadAt(1)) /\ IsPtr(LoadAt(1)) /\ LoadAt(1).offt = 16
    /\ ~IsPtr(LoadAt(2)) /\ IsByte(LoadAt(2)) /\ LoadAt(2).nmemb = 16 /\ LoadAt(2).offt = 0
    /\ Target0.cmp = CmpCode[filter.op] /\ Target0.sz = 6 /\ Target0.md.str = Dummy0

\* meta_negative_filter_u32: a negative value for an unsigned field.
NegativeFilterU32 == {Cmp(<<Root, N("mark")>>, "==", <<"-", "1">>)}

\* meta_filter_u32
FilterU32(o) == Cmp(<<Root, N("mark")>>, o, C0de)
FilterU32Asserts ==
    /\ pc = "done" /\ Len(ops) = 2
    /\ ~IsArr(LoadAt(1)) /\ ~IsPtr(LoadAt(1)) /\ ~IsSigned(LoadAt(1)) /\ IsInt(LoadAt(1))
    /\ LoadAt(1).offt = 168
    /\ Target0.cmp = CmpCode[filter.op] /\ Target0.sz = 4 /\ Target0.md.num = 49374

\* meta_filter_bitfields
FilterBitfields(o) == Cmp(<<Root, N("pkt_type")>>, o, <<"1">>)
FilterBitfieldsAsserts ==
    /\ pc = "done" /\ Len(ops) = 2
    /\ ~IsArr(LoadAt(1)) /\ ~IsPtr(LoadAt(1)) /\ ~IsSigned(LoadAt(1)) /\ IsByte(LoadAt(1))
    /\ LoadAt(1).bf_size = 3 /\ LoadAt(1).offt = 1024
    /\ Target0.cmp = CmpCode[filter.op] /\ Target0.sz = 1 /\ Target0.md.num = 1

\* meta_filter_lhs_only: the fields a bare LHS may and may not name; an
\* accepted one compares != 0.
LhsOnlyErr == {Bare(<<Root, N("dev")>>), Bare(<<Root, N("dev"), N("name")>>), Bare(<<Root, N("headers")>>)}
LhsOnlyOk == {Bare(<<Root, N("mark")>>), Bare(<<Root, N("headers"), N("skb_iif")>>),
              Bare(<<Root, N("cloned")>>)}
LhsOnlyAsserts == pc = "done" /\ Target0.cmp = CmpNe /\ Target0.md = NoTarget.md

\* meta_filter_masks: the rejected masks, and the first Load of the
\* accepted ones.
MasksErr == {Bare(<<Root, N("dev"), NM("name", MNotZero)>>), Bare(<<Root, NM("mark", MZero)>>),
             Bare(<<Root, NM("mark", MNotOnes)>>),
             Bare(<<Root, N("headers"), NM("skb_iif", Mask(2989))>>)}
MasksOk ==
    {<<Bare(<<Root, NM("dev", MNotZero), N("mtu")>>), Load(PTR_BIT, 0, 16, 0, -1)>>,
     <<Bare(<<Root, NM("mark", MHex)>>), Load(MetaInt, 0, 168, 0, 255)>>,
     <<Bare(<<Root, NM("pkt_type", Mask(2))>>), Load(MetaChar, 0, 1024, 3, 2)>>,
     <<Bare(<<Root, NM("pkt_type", MNotTwo)>>), Load(MetaChar, 0, 1024, 3, -3)>>}

\* meta_filter_cast: casts of sub-pointer-sized fields and of an array, a
\* cast to a non-walkable type, a cast of the leaf; then a valid cast.
CastErr ==
    {Bare(<<Root, NMC(f, MNotZero, "nf_conn")>>) : f \in {"cloned", "len", "mac_len", "cb"}}
    \cup {Bare(<<Root, NMC("_nfct", MNotZero, "u32"), N("mark")>>),
          Bare(<<Root, N("_nfct"), NMC("mark", MNotZero, "nf_conn")>>)}
CastOk == Bare(<<Root, NMC("_nfct", MNotZero, "nf_conn"), N("mark")>>)
CastAsserts ==
    /\ pc = "done" /\ Len(ops) = 3
    /\ LoadAt(1) = Load(PTR_BIT, 0, 104, 0, -1)
    /\ LoadAt(2) = Load(MetaInt, 0, 168, 0, 0)

MustFail == NegativeGeneric \cup NegativeFilterString \cup NegativeFilterU32 \cup LhsOnlyErr
            \cup MasksErr \cup CastErr
TestFilters ==
    MustFail \cup LhsOnlyOk \cup {c[1] : c \in MasksOk} \cup {CastOk}
    \cup {FilterString(o) : o \in {"==", "!="}}
    \cup UNION {{FilterU32(o), FilterBitfields(o)} : o \in TestOps}

\* What the compile run compiles.
CompileFilters == PassFilters \cup TestFilters

\* Every filter some run compiles: the domain of the specification.
AllFilters == CompileFilters \cup TooManyOps \cup LoneQuote \cup FarMember \cup TypedefCast
              \cup CastBitfield

-----------------------------------------------------------------------------
(* Properties *)

\* from_string's result as the abstract specification sees it.
Outcome ==
    CASE pc = "done" -> [state |-> "ok", ops |-> ops]
      [] pc = "failed" -> [state |-> "rejected", ops |-> <<>>]
      [] pc = "panicked" -> [state |-> "panicked", ops |-> <<>>]
      [] OTHER -> [state |-> "pending", ops |-> <<>>]

Ref == INSTANCE FilterMetaSpec WITH result <- Outcome, Filters <- AllFilters

\* The compiler refines the specification: every filter is rejected
\* exactly when the spec rejects it, and every accepted filter compiles
\* to the spec's program: its Target first, then the pointer Loads of the
\* walk and the terminal Load, with the spec's offsets, kinds and masks.
CompilesAsSpecified == Ref!Spec

\* The assertions of the unit tests of filter.rs hold of the compiler on
\* this fixture: every filter a test expects to fail returns an error (a
\* panic would fail the test), and every filter a test compiles yields the
\* op count, load kinds, offsets, bitfield widths, masks and target bytes
\* the test asserts, so the model and the fixture agree with the code's
\* own tests.
RepositoryTestsHold ==
    pc \in {"done", "failed", "panicked"} =>
        /\ filter \in MustFail => pc = "failed"
        /\ \A o \in {"==", "!="} : filter = FilterString(o) => FilterStringAsserts
        /\ \A o \in TestOps :
             /\ filter = FilterU32(o) => FilterU32Asserts
             /\ filter = FilterBitfields(o) => FilterBitfieldsAsserts
        /\ filter \in LhsOnlyOk => LhsOnlyAsserts
        /\ \A c \in MasksOk : filter = c[1] => pc = "done" /\ LoadAt(1) = c[2]
        /\ filter = CastOk => CastAsserts

=============================================================================
