------------------------------- MODULE MCLinker -------------------------------
(***************************************************************************)
(* Inputs for the linker and the loaders, in families.                     *)
(***************************************************************************)
EXTENDS LinkerProps

Bytes(word, n) == [k \in 0 .. n - 1 |-> (word \div 256 ^ k) % 256]

Rel(type, offset, symbol, addend) ==
    [type |-> type, offset |-> offset, symbol |-> symbol, addend |-> addend, implicit |-> FALSE]
Sec(kind, align, size, bytes, relocs) ==
    [kind |-> kind, align |-> align, size |-> size, bytes |-> bytes, relocs |-> relocs]
Sym(name, global, section, value) ==
    [name |-> name, global |-> global, section |-> section, value |-> value]
Obj(sections, symbols) == [sections |-> sections, symbols |-> symbols]

Input(mode, objects) ==
    [mode |-> mode, objects |-> objects, flaw |-> "none", entry |-> "f", board |-> "esp32s3",
     segments |-> <<>>, len |-> 0, blob |-> <<>>, heap |-> 0]
Link(objects) == Input("link", objects)

-----------------------------------------------------------------------------
(* Every combination of opcode fields under one relocation: the whole of    *)
(* op0 = 0 by op1, op2 and r, the immediates of the others at their edges.  *)
Words24(r) ==
    {65536 * (op1 + 16 * op2) + 4096 * r + 256 * p[1] + 16 * p[2] :
        op1 \in 0 .. 15, op2 \in 0 .. 15, p \in {<<0, 0>>, <<5, 10>>}}
    \cup {65536 * 16 * op2 + 4096 * r + 256 * s + 16 * t : op2 \in {0, 4, 6}, s \in 0 .. 2, t \in 0 .. 15}
    \cup {65536 * imm + 4096 * r + 256 * s + 16 * t + op0 :
        op0 \in 1 .. 7, imm \in {0, 127, 128, 255}, s \in {0, 9}, t \in 0 .. 15}
Words16(r) ==
    {4096 * r + 256 * s + 16 * t + op0 : op0 \in 8 .. 15, s \in {0, 3}, t \in 0 .. 15}

OneSite(word, offset, size, addend) ==
    Link(<<Obj(<<Sec("exec", 4, size, [o \in offset .. offset + 2 |-> Bytes(word, 3)[o - offset]],
                     <<Rel("SLOT0_OP", offset, 1, addend)>>)>>,
               <<Sym("f", TRUE, 1, 0)>>)>>)
AllWords(r) == {OneSite(w, 0, 4, 8) : w \in Words24(r) \cup Words16(r)}

(* Every patchable form around both ends of its reach, from each place of   *)
(* the site in its word.                                                    *)
Forms == {<<"Call", "Call8", 0>>, <<"Call", "Call0", 5>>, <<"J", 0>>, <<"L32r", 8, 65535>>,
          <<"BranchRr", "Beq", 2, 3, 0>>, <<"BranchRi", "Blti", 2, 10, 0>>,
          <<"BranchRiu", "Bgeui", 2, 65536, 0>>, <<"BranchBiI", TRUE, 2, 31, 0>>,
          <<"BranchZ", "Bnez", 2, 0>>, <<"BranchZN", TRUE, 2, 0>>}
Edges(inst) ==
    UNION {{(e + d) : d \in -5 .. 9} : e \in {Reach(inst)[1], Reach(inst)[2]}}
Ends == UNION {{OneSite(Encode(f), o, 64, o + e) : e \in Edges(f), o \in 0 .. 3} : f \in Forms}

(* Two objects: f calls g and loads the literal that holds a datum's        *)
(* address; where g lives, and what the two define, varies.                 *)
Main(align, lits, calls, names) ==
    Obj(<<Sec("exec", align, 9,
              [o \in 0 .. 8 |-> Bytes(Encode(<<<<"L32r", 8, 0>>, <<"Call", "Call8", 0>>,
                                               <<"Nullary", "Retw">>>>[1 + (o \div 3)]), 3)[o % 3]],
              <<Rel("ASM_EXPAND", 3, 3, 0), Rel("SLOT0_OP", 0, 2, 0), Rel("SLOT0_OP", 3, calls, 0)>>),
          Sec("literal", 4, 4, Bytes(lits, 4), <<Rel("32", 0, 4, -4), Rel("NONE", 0, 0, 0)>>),
          Sec("data", 1, 6, Bytes(77, 2), <<Rel("32", 2, 1, 8)>>),
          Sec("unallocated", 1, 400, <<>>, <<Rel("DIFF8", 0, 1, 0)>>)>>,
        <<Sym("f", TRUE, 1, 0), Sym("", FALSE, 2, 0), Sym(names[1], TRUE, 0, 0),
          Sym("", FALSE, 3, 4), Sym(names[2], TRUE, 4, 0)>>)
Library(align, name, global, section, size) ==
    Obj(<<Sec("literal", 4, 4, Bytes(9, 1), <<Rel("32", 0, 2, 0)>>),
          Sec("exec", align, size, Bytes(Encode(<<"Nullary", "Retw">>), 3), <<>>),
          Sec("data", 16, 5, Bytes(88, 2), <<Rel("32", 0, 1, 0)>>)>>,
        <<Sym(name, global, section, 0), Sym("h", TRUE, 3, 1)>>)
Pairs ==
    {Link(objs) : objs \in UNION {
        {<<Main(a, l, c, <<n, m>>), Library(b, n2, gl, s, z)>>,
         <<Library(b, n2, gl, s, z), Main(a, l, c, <<n, m>>)>>} :
            a \in {0, 32}, l \in {12}, c \in {1, 3, 5}, n \in {"g", "h"}, m \in {"f", "u"},
            b \in {1, 16}, n2 \in {"g", "f"}, gl \in BOOLEAN, s \in {0, 2, 3}, z \in {3}}}

(* One relocation of each kind that is refused, at the end of its region.   *)
Refusals ==
    {Link(<<Obj(<<Sec("exec", 4, 6, Bytes(w, 3),
                      <<[type |-> ty, offset |-> o, symbol |-> sy, addend |-> 4, implicit |-> im]>>),
                  Sec("unallocated", 4, 4, <<>>, <<>>)>>,
                <<Sym("f", TRUE, 1, 0), Sym("x", FALSE, 2, 0), Sym("y", TRUE, 0, 0)>>)>>) :
        w \in {6, 140, 0}, ty \in {"32", "SLOT0_OP", "DIFF32"}, o \in 0 .. 8, sy \in 0 .. 3,
        im \in BOOLEAN}

(* Regions filled to the last byte and past it.                             *)
Fills ==
    {Link(<<Obj(<<Sec(k, 4, z1, Bytes(7, 1), <<>>), Sec(k2, al, z2, Bytes(z2, 1), <<Rel("32", 0, 1, 0)>>)>>,
                <<Sym("f", TRUE, 1, 0)>>)>>) :
        k \in {"exec", "data"}, k2 \in {"exec", "data", "literal"}, al \in {1, 4, 64},
        z1 \in {RegionHalf - 8, RegionHalf - 5, RegionHalf - 4, RegionHalf},
        z2 \in {1, 4, 5, 8, RegionHalf, RegionHalf + 1}}

Flawed == {[Link(<<>>) EXCEPT !.flaw = "NotXtensaRelocatable"]}
          \cup {[Input("elf", <<>>) EXCEPT !.flaw = f] :
                    f \in {"NotXtensaElf32", "NotExecutable", "HasRelocations"}}
          \cup {[Link(<<Obj(<<Sec("exec", 4, 4, <<>>, <<>>)>>, <<>>)>>) EXCEPT !.entry = "none"]}

(* Executables: text at an I-bus and data at a D-bus address, with a tail   *)
(* of zeros, up to the end of the region and past it.                       *)
Segment(base, len, n) ==
    [base |-> base, len |-> len, bytes |-> [a \in base .. base + n - 1 |-> 1 + (a % 7)]]
Elfs ==
    {[Input("elf", <<>>) EXCEPT !.segments = <<Segment(TEXT_BASE, l1, 3), Segment(d, l2, n)>>] :
        l1 \in {3, 8, 65536}, d \in {DATA_BASE, DATA_BASE + 65528, \H3FCC0000, \H40000000},
        l2 \in {2, 8, 9}, n \in {0, 2}}

(* Payloads by their first and last bytes; the fixed region of the classic  *)
(* board is filled and overfilled.                                          *)
Ends6(n) == {i \in 0 .. n - 1 : i < 6 \/ i >= n - 6}
Payload(board, heap, n) ==
    [Input("blob", <<>>) EXCEPT !.board = board, !.heap = heap, !.len = n,
                                !.blob = [i \in Ends6(n) |-> 1 + (i % 251)]]
Blobs ==
    {Payload("esp32", 0, n) : n \in 1 .. 9 \cup {32765, 32768, 94205, 94207, 94208, 94209}}
    \cup {Payload("esp32s3", h, n) : n \in 1 .. 9 \cup {32765, 32768}, h \in {\H3FC90000, \H3FCA1234}}

MCFamilies ==
    {AllWords(r) : r \in 0 .. 15} \cup {Ends, Pairs, Refusals, Fills, Flawed, Elfs, Blobs}

(* Segments are given apart, as LoadedIsFetched asks.                       *)
ASSUME HarnessAssumption == SegmentsApart
=============================================================================
