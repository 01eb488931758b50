-------------------------------- MODULE MCEmit --------------------------------
(***************************************************************************)
(* Programs for EmitRun, in families, each around one hazard of emission.  *)
(***************************************************************************)
EXTENDS EmitRun

Extremes == {0, 1, 7, -1, Word \div 2 - 1, -(Word \div 2)}
AluOps == {"Add", "Sub", "Mul", "MulH", "And", "Or", "Xor", "DivS", "DivU", "RemS", "RemU",
           "Sll", "SrlU", "SraS"}
AluImmOps == {"Addi", "Andi", "Ori", "Xori", "Slli", "SrliU", "SraiS", "Slti", "SltiU"}
Conds == {"Eq", "Ne", "LtS", "LeS", "GtS", "GeS", "LtU", "LeU", "GtU", "GeU"}

Const(d, v) == [k |-> "IConst32", dst |-> d, val |-> v]
MovV(d, s) == [k |-> "Mov", dst |-> d, src |-> s]
Alu3(op, d, a, b) == [k |-> "AluRRR", op |-> op, dst |-> d, src1 |-> a, src2 |-> b]
Alu2(op, d, a, imm) == [k |-> "AluRRI", op |-> op, dst |-> d, src |-> a, imm |-> imm]
Ret(vals) == [k |-> "RetMulti", vals |-> vals]
CallV(callee, args, rets) == [k |-> "CallMulti", callee |-> callee, args |-> args, rets |-> rets]
FuncC(f) == [sym |-> FALSE, f |-> f]
SymC(f) == [sym |-> TRUE, f |-> f]
LabelV(l) == [k |-> "Label", id |-> l]
BrV(l) == [k |-> "Br", target |-> l]
BrIfV(r, l, inv) == [k |-> "BrIf", cond |-> r, target |-> l, invert |-> inv]
LoadV(k, d, b, off) == [k |-> k, dst |-> d, base |-> b, offset |-> off]
StoreV(k, s, b, off) == [k |-> k, src |-> s, base |-> b, offset |-> off]
SlotV(d, s) == [k |-> "SlotAddr", dst |-> d, slot |-> s]
NegV(d) == [k |-> "Neg", dst |-> d, src |-> d]
Fill(n) == [j \in 1 .. n |-> NegV(7)]

Fn(slots, is) == [slots |-> slots, insts |-> is]
Program(cinc, a, data, stack, fns) ==
    [inc |-> cinc, arg |-> a, data |-> data, stack |-> stack, prog |-> fns]
Alone(data, is) == Program(2, 5, data, 32, <<Fn(<<>>, is)>>)

-----------------------------------------------------------------------------
Arithmetic ==
    {Alone(0, <<Const(3, a), Const(4, b), Alu3(op, 4, 3, 4), Ret(<<4>>)>>) :
        op \in AluOps, a \in Extremes, b \in Extremes}
    \cup {Alone(0, <<Const(3, a), Alu3(op, 3, 3, 3), Ret(<<3>>)>>) : op \in AluOps, a \in Extremes}

Immediates ==
    {Alone(0, <<Const(3, a), Alu2(op, d, 3, imm), Ret(<<d>>)>>) :
        op \in AluImmOps, a \in {5, -1, Word \div 2 - 1}, d \in {3, 4},
        imm \in {-32768, -129, -128, -121, -120, -33, -32, -9, -8, -1, 0, 1, 7, 8, 15, 16, 17,
                 31, 32, 112, 119, 120, 128, 32767}}

Comparisons ==
    {Alone(0, <<Const(3, a), Const(4, b), [k |-> "Icmp", dst |-> d, lhs |-> 3, rhs |-> 4, cond |-> c],
                Ret(<<d>>)>>) :
        c \in Conds, a \in {0, 7, -1, -32768}, b \in {0, 7, -1, 32767}, d \in {3, 4}}
    \cup {Alone(0, <<Const(3, a), [k |-> "IcmpImm", dst |-> d, src |-> 3, imm |-> b, cond |-> c],
                     Ret(<<d>>)>>) :
        c \in Conds, a \in {0, 7, -1, -32768}, b \in {0, 7, -1, 32767}, d \in {2, 3}}

Unary ==
    {Alone(0, <<Const(3, a), [k |-> op, dst |-> d, src |-> 3], MovV(d, d), Ret(<<d>>)>>) :
        op \in {"Neg", "Bnot", "Mov"}, a \in Extremes, d \in {2, 3}}
    \cup {Alone(0, <<Const(3, c), Const(4, 40),
                     [k |-> "Select", dst |-> d, cond |-> 3, if_true |-> p[1], if_false |-> p[2]],
                     Ret(<<d>>)>>) :
        c \in {0, 9}, d \in {3, 4, 2, 6}, p \in {<<4, 2>>, <<2, 4>>, <<3, 4>>, <<4, 3>>}}

(* The base is wherever the offset brings it to a multiple of 4 of the data. *)
Accesses ==
    {Alone(12, <<Const(3, DataBase + 4 - off), Const(4, v), StoreV(st, 4, 3, off),
                 LoadV(ld, d, 3, off), Ret(<<d>>)>>) :
        st \in {"Store32", "Store8", "Store16"},
        ld \in {"Load32", "Load8U", "Load8S", "Load16U", "Load16S"},
        v \in {1000, -32768}, d \in {2, 3},
        off \in {-124, -8, -3, 0, 1, 6, 15, 16, 30, 31, 32, 60, 62, 64, 120, 200}}

Copies ==
    {Alone(280, <<Const(2, DataBase), Const(3, DataBase + 140),
                  [k |-> "MemcpyWords", dst_base |-> p[1], src_base |-> p[2], size |-> n],
                  Ret(<<p[1]>>)>>) :
        p \in {<<2, 3>>, <<3, 2>>, <<3, 3>>}, n \in {0, 4, 60, 64, 68, 128, 132}}

-----------------------------------------------------------------------------
(* Branches around the reach of BRI12, forwards, backwards and in chains   *)
(* where the growth of one pushes the next out of reach.                   *)
Forward ==
    {Program(2, a, 0, 32, <<Fn(<<>>, <<BrIfV(2, 1, inv)>> \o Fill(n) \o <<Const(2, 9), LabelV(1), Ret(<<2>>)>>)>>) :
        a \in {0, 3}, inv \in BOOLEAN, n \in 7 .. 12}

Backward ==
    {Program(2, 2, 0, 32, <<Fn(<<>>, <<LabelV(1)>> \o Fill(n)
                          \o <<Alu2("Addi", 2, 2, -1), BrIfV(2, 1, FALSE), Ret(<<2>>)>>)>>) : n \in 5 .. 12}

Chains ==
    {Program(2, a, 0, 32,
        <<Fn(<<>>, <<BrIfV(2, 1, FALSE)>> \o Fill(n1) \o <<BrIfV(2, 2, TRUE)>> \o Fill(n2)
            \o <<LabelV(1)>> \o Fill(n3) \o <<BrIfV(2, 3, FALSE)>> \o Fill(n4)
            \o <<LabelV(2), BrIfV(2, 3, a = 0)>> \o Fill(n5) \o <<LabelV(3), Ret(<<2>>)>>)>>) :
        a \in {0, 1}, n1 \in {3, 4, 5}, n2 \in {3, 4, 5}, n3 \in {1, 4}, n4 \in {0, 3, 4},
        n5 \in {4, 5, 8}}

Fuelled ==
    {Program(2, fuel, 4, 32,
        <<Fn(<<>>, <<Const(3, DataBase), StoreV("Store32", 2, 3, 0), Const(4, 0), LabelV(1),
                     Alu2("Addi", 4, 4, 1),
                     [k |-> "FuelCheck", fuel_base |-> 3, decrement |-> dec, trap_label |-> 2],
                     BrV(1)>> \o Fill(n) \o <<LabelV(2), Ret(<<4>>)>>)>>) :
        fuel \in {0, 1, 3}, dec \in BOOLEAN, n \in {0, 9, 12}}

-----------------------------------------------------------------------------
(* Calls: a callee of n arguments adds them up with their places, calls a   *)
(* leaf in turn and returns one or two words from any pair of registers.    *)
Incoming(cinc, n) ==
    FlattenSeq([i \in 1 .. StackArgs(cinc, n) |->
        <<[k |-> "IncomingStackArg", dst |-> 7, index |-> RegArgs(cinc) + i - 1],
          Alu3("Add", 2, 2, 7)>>])
Leaf == Fn(<<4>>, <<SlotV(6, 0), StoreV("Store32", 2, 6, 0), Const(2, 77), LoadV("Load32", 3, 6, 0),
                    Ret(<<3, 2>>)>>)
Weigher(cinc, n, callee, pair) ==
    Fn(<<3, 8>>, Incoming(cinc, n)
          \o <<SlotV(7, 1), StoreV("Store16", 2, 7, 4), MovV(pair[1], 3), MovV(3, 2),
               CallV(callee, <<2>>, <<>>),
               MovV(pair[2], 3), Ret(pair)>>)

Args == {<<>>, <<2>>, <<3, 2>>, <<2, 3, 4>>, <<7, 6, 5, 4, 3, 2>>, <<6, 7, 6, 7, 2, 3>>,
         <<2, 3, 4, 5, 6, 7, 3, 5>>}
Callers(cincs, bySym, args) ==
    {Program(cinc, 5, 0, 224,
        <<Fn(<<8>>, <<Const(3, 300), Const(4, 40), Const(5, -6), Const(6, 1000), Const(7, 70),
                      CallV([sym |-> sym, f |-> 2], as, rets), Alu3("Sub", 2, 2, 3),
                      Ret(<<2>>)>>),
          Weigher(cinc, Len(as), [sym |-> sym, f |-> 3], pair), Leaf>>) :
        cinc \in cincs, sym \in bySym, as \in args,
        rets \in {<<>>, <<2>>, <<7, 6>>, <<6, 7>>, <<7, 3>>},
        pair \in {<<4, 5>>, <<3, 2>>}}

(* A function that calls itself until its argument is used up.             *)
Recursive ==
    {Program(cinc, a, 0, 224,
        <<Fn(<<4>>, <<SlotV(3, 0), StoreV("Store32", 2, 3, 0), Const(7, 1), BrIfV(2, 1, TRUE),
                      Alu2("Addi", 2, 2, -1), CallV(callee, <<2, 7>>, <<2>>),
                      SlotV(3, 0), LoadV("Load32", 3, 3, 0), Alu3("Add", 2, 2, 3),
                      LabelV(1), Ret(<<2>>)>>)>>) :
        cinc \in 1 .. 3, a \in 0 .. 2, callee \in {FuncC(1), SymC(1)}}

(* Slots far from the stack pointer, and a frame that ENTRY cannot hold.   *)
Frames ==
    {Program(cinc, 5, 0, 240, <<Fn(<<4, n, 8>>,
        <<SlotV(3, s), Const(4, -3), StoreV("Store32", 4, 3, 0), SlotV(5, 0), LoadV("Load32", 2, 5, 0),
          Ret(<<2>>)>>)>>) : cinc \in {2, 3}, s \in {0, 1, 2}, n \in {4, 5, 60, 116, 124, 456}}

Calls ==
    Callers({1, 2, 3}, {FALSE}, Args)
      \cup Callers({2, 3}, {TRUE}, Args)
      \cup Callers({1}, {TRUE}, {a \in Args : Len(a) < 3})

MCPrograms ==
    Arithmetic \cup Immediates \cup Comparisons \cup Unary \cup Accesses \cup Copies
      \cup Forward \cup Backward \cup Chains \cup Fuelled \cup Calls \cup Recursive \cup Frames
=============================================================================
