-------------------------------- MODULE Linker --------------------------------
(***************************************************************************)
(* lp-xt-elf and the loading paths of lp-xt-emu.  An input is linked from  *)
(* relocatable objects ("link"), read from a linked executable ("elf") or  *)
(* is a bare payload ("blob"), and then written to the emulator's memory;  *)
(* a blob is also written by the runner on the board.  Contents are given  *)
(* sparsely: a function from the offsets (addresses) of the bytes that     *)
(* matter, all others being 0.                                             *)
(***************************************************************************)
EXTENDS Codec, Boards, FiniteSetsExt, SequencesExt

CONSTANTS Families,        \* sets of inputs that may be linked or loaded
          RegionHalf       \* bytes of each output region; 64 KiB in the code

(* What the parsers make sure of: contents are bytes, within their section. *)
Byte == 0 .. 255
Contents(bytes, first, len) ==
    /\ DOMAIN bytes \subseteq first .. first + len - 1
    /\ \A o \in DOMAIN bytes : bytes[o] \in Byte
WellFormedSection(sec) ==
    /\ sec.kind \in {"literal", "exec", "data", "unallocated"}
    /\ sec.align \in Nat /\ sec.size \in Nat /\ Contents(sec.bytes, 0, sec.size)
    /\ sec.relocs \in Seq(Range(sec.relocs))
    /\ \A r \in Range(sec.relocs) : r.offset \in Nat /\ r.addend \in Int /\ r.symbol \in Nat
WellFormedObject(object) ==
    /\ object.sections \in Seq(Range(object.sections))
    /\ \A sec \in Range(object.sections) : WellFormedSection(sec)
    /\ object.symbols \in Seq(Range(object.symbols))
    /\ \A sym \in Range(object.symbols) : sym.section \in Nat /\ sym.value \in Nat
WellFormed(i) ==
    /\ i.mode \in {"link", "elf", "blob"} /\ i.board \in {"esp32", "esp32s3"}
    /\ i.segments \in Seq(Range(i.segments))
    /\ \A seg \in Range(i.segments) :
            seg.base \in Nat /\ seg.len \in Nat /\ Contents(seg.bytes, seg.base, seg.len)
    /\ i.len \in Nat /\ Contents(i.blob, 0, i.len) /\ i.heap \in Nat
    /\ i.objects \in Seq(Range(i.objects))
    /\ \A object \in Range(i.objects) : WellFormedObject(object)

ASSUME FamiliesAssumption == \A family \in Families : \A i \in family : WellFormed(i)
ASSUME RegionAssumption == RegionHalf \in Nat /\ 2 * RegionHalf <= Esp32s3.code_region_len

VARIABLES input, stage, step, placed, out, globals, mem, dev, err

vars == <<input, stage, step, placed, out, globals, mem, dev, err>>

CODE_DBUS_BASE == SRAM1_DBUS_START
TEXT_BASE == CODE_DBUS_BASE + IBUS_ALIAS_OFFSET
DATA_BASE == CODE_DBUS_BASE + RegionHalf
Base(region) == IF region = "text" THEN TEXT_BASE ELSE DATA_BASE

NoDevice == [mem |-> <<>>, entry |-> 0]
Empty == [len |-> 0, bytes |-> <<>>]

-----------------------------------------------------------------------------
(* The passes of link_objects as lists of what each step works on.          *)
Section(p) == input.objects[p[1]].sections[p[2]]
Within(Part(_)) == FlattenSeq([oi \in DOMAIN input.objects |-> Part(oi)])
WithinObject(oi, In(_)) == FlattenSeq([si \in DOMAIN input.objects[oi].sections |-> In(si)])
SectionsOf(oi, kind) ==
    LET In(si) == IF Section(<<oi, si>>).kind = kind THEN <<<<oi, si>>>> ELSE <<>>
    IN  WithinObject(oi, In)
SymbolsOf(oi) == [k \in DOMAIN input.objects[oi].symbols |-> <<oi, k>>]
RelocsOf(oi) ==
    LET In(si) == IF Section(<<oi, si>>).kind = "unallocated" THEN <<>>
                  ELSE [k \in DOMAIN Section(<<oi, si>>).relocs |-> <<oi, si, k>>]
    IN  WithinObject(oi, In)

Work(s) ==
    CASE s = "parse" -> <<0>>
      [] s = "place" -> Within(LAMBDA oi : SectionsOf(oi, "literal") \o SectionsOf(oi, "exec")
                                           \o SectionsOf(oi, "data"))
      [] s = "define" -> Within(SymbolsOf)
      [] s = "relocate" -> Within(RelocsOf)
      [] s = "load" -> CASE input.mode = "link" -> <<"text", "data">>
                         [] input.mode = "elf" -> [k \in DOMAIN input.segments |-> k]
                         [] input.mode = "blob" -> <<0>>

Stages == <<"parse", "place", "define", "relocate", "load", "done">>
Item == Work(stage)[step]

Advance ==
    IF step < Len(Work(stage))
    THEN step' = step + 1 /\ UNCHANGED stage
    ELSE LET now == CHOOSE k \in DOMAIN Stages : Stages[k] = stage
             more == {k \in DOMAIN Stages : k > now /\ (Stages[k] = "done" \/ Work(Stages[k]) # <<>>)}
         IN  stage' = Stages[Min(more)] /\ step' = 1

Fail(error) ==
    /\ err' = error
    /\ stage' = "failed"
    /\ UNCHANGED step

-----------------------------------------------------------------------------
(* Every input is checked before any is laid out.                           *)
Parse ==
    /\ stage = "parse"
    /\ IF input.flaw # "none" THEN Fail(input.flaw) ELSE Advance /\ UNCHANGED err
    /\ UNCHANGED <<input, placed, out, globals, mem, dev>>

(* Region::place: the cursor is aligned, and size bytes follow it.          *)
(* Mutant: every section aligned to a word, whatever it asks for.           *)
AlignUp_Word(a, align) == a + ((-a) % 4)

AlignUp(a, align) == a + ((-a) % Max({align, 4}))
RegionFor(sec) == IF sec.kind = "data" THEN "data" ELSE "text"
PlaceAt(region, sec) == AlignUp(Base(region) + out[region].len, sec.align)

PlaceSection ==
    /\ stage = "place"
    /\ LET sec == Section(Item)
           region == RegionFor(sec)
           addr == PlaceAt(region, sec)
           end == addr + sec.size
       IN  IF end > Base(region) + RegionHalf
           THEN Fail("RegionOverflow") /\ UNCHANGED <<out, placed>>
           ELSE /\ out' = [out EXCEPT ![region] =
                       [len |-> end - Base(region),
                        bytes |-> [a \in DOMAIN @.bytes \cup {addr + o : o \in DOMAIN sec.bytes} |->
                            IF a >= addr THEN sec.bytes[a - addr] ELSE @.bytes[a]]]]
                /\ placed' = [p \in DOMAIN placed \cup {Item} |-> IF p = Item THEN addr ELSE placed[p]]
                /\ Advance
                /\ UNCHANGED err
    /\ UNCHANGED <<input, globals, mem, dev>>

Symbol(p) == input.objects[p[1]].symbols[p[2]]
HomeOf(p) == <<p[1], Symbol(p).section>>

(* A symbol is entered if it is global and its section was placed.          *)
DefineSymbol ==
    /\ stage = "define"
    /\ LET sym == Symbol(Item)
       IN  IF sym.global /\ HomeOf(Item) \in DOMAIN placed
           THEN IF sym.name \in DOMAIN globals
                THEN Fail("DuplicateSymbol") /\ UNCHANGED globals
                ELSE /\ globals' = [n \in DOMAIN globals \cup {sym.name} |->
                            IF n = sym.name THEN placed[HomeOf(Item)] + sym.value ELSE globals[n]]
                     /\ Advance
                     /\ UNCHANGED err
           ELSE Advance /\ UNCHANGED <<globals, err>>
    /\ UNCHANGED <<input, placed, out, mem, dev>>

-----------------------------------------------------------------------------
(* Relocation.                                                              *)
RelocAt(p) == Section(p).relocs[p[3]]
SiteOf(p) == placed[<<p[1], p[2]>>] + RelocAt(p).offset

(* The address of a relocation's symbol; {} when it has none.               *)
SymbolAddress(p) ==
    LET q == <<p[1], RelocAt(p).symbol>>
    IN  IF Symbol(q).section # 0
        THEN {placed[h] + Symbol(q).value : h \in {HomeOf(q)} \cap DOMAIN placed}
        ELSE {globals[n] : n \in {Symbol(q).name} \cap DOMAIN globals}
TargetOf(p) == (CHOOSE s \in SymbolAddress(p) : TRUE) + RelocAt(p).addend

RegionOf(loc) == IF loc >= TEXT_BASE THEN "text" ELSE "data"
HasSlice(loc, n) ==
    LET region == RegionOf(loc)
    IN  loc >= Base(region) /\ loc + n <= Base(region) + out[region].len
ByteOf(loc) == ByteAt(out[RegionOf(loc)].bytes, loc)

(* Words are read as signed numbers, which keeps their sums small.          *)
WordBytes(v, n) == [k \in 0 .. n - 1 |-> (v \div 256 ^ k) % 256]
WordAt(loc) == ByteOf(loc) + 256 * ByteOf(loc + 1) + 65536 * ByteOf(loc + 2)
               + 16777216 * SignExtend(ByteOf(loc + 3), 8)
Patched(loc, n, v) ==
    [out EXCEPT ![RegionOf(loc)].bytes =
        [a \in DOMAIN @ \cup (loc .. loc + n - 1) |->
            IF a \in loc .. loc + n - 1 THEN WordBytes(v, n)[a - loc] ELSE @[a]]]

(* Up to three bytes are read; at the end of a region, two.                 *)
Available(loc) == IF HasSlice(loc, 3) THEN 3 ELSE IF HasSlice(loc, 2) THEN 2 ELSE 0
InstAt(loc) ==
    Decode(ByteOf(loc) + 256 * ByteOf(loc + 1) + (IF HasSlice(loc, 3) THEN 65536 * ByteOf(loc + 2) ELSE 0),
           Available(loc))

-----------------------------------------------------------------------------
(* retarget_slot0: the displacement, always the last operand, in bytes.     *)
Rri8Forms == {"BranchRr", "BranchRi", "BranchRiu", "BranchBiI"}
Patchable == Rri8Forms \cup {"Call", "J", "L32r", "BranchZ", "BranchZN"}

(* Mutant: the reach of L32R counts from the instruction, not the word      *)
(* after it.                                                                *)
Displacement_Unrounded(inst, pc, target) ==
    CASE inst[1] = "Call" -> target - (WordAligned(pc) + 4)
      [] inst[1] = "L32r" -> target - WordAligned(pc)
      [] OTHER -> target - (pc + 4)

Displacement(inst, pc, target) ==
    CASE inst[1] = "Call" -> target - (WordAligned(pc) + 4)
      [] inst[1] = "L32r" -> target - WordAligned(pc + 3)
      [] OTHER -> target - (pc + 4)

(* Mutant: the offset of L32R taken for a signed field.                     *)
Reach_Signed(inst) ==
    CASE inst[1] = "Call" -> <<-524288, 524287>>
      [] inst[1] = "J" -> <<-131072, 131071>>
      [] inst[1] = "L32r" -> <<-131072, -4>>
      [] inst[1] = "BranchZ" -> <<-2048, 2047>>
      [] inst[1] = "BranchZN" -> <<0, 63>>
      [] inst[1] \in Rri8Forms -> <<-128, 127>>

Reach(inst) ==
    CASE inst[1] = "Call" -> <<-524288, 524287>>
      [] inst[1] = "J" -> <<-131072, 131071>>
      [] inst[1] = "L32r" -> <<-262144, -4>>
      [] inst[1] = "BranchZ" -> <<-2048, 2047>>
      [] inst[1] = "BranchZN" -> <<0, 63>>
      [] inst[1] \in Rri8Forms -> <<-128, 127>>

OperandFits(inst, pc, target) ==
    /\ inst[1] \in {"Call", "L32r"} => target % 4 = 0
    /\ Displacement(inst, pc, target) \in Reach(inst)[1] .. Reach(inst)[2]

Retargeted(inst, pc, target) ==
    LET d == Displacement(inst, pc, target)
    IN  [inst EXCEPT ![Len(inst)] =
            CASE inst[1] = "Call" -> d \div 4
              [] inst[1] = "L32r" -> (d \div 4) % 65536
              [] OTHER -> d]

(* The first thing wrong with a relocation, in the order they are checked.  *)
RelocError(p) ==
    LET r == RelocAt(p)
        loc == SiteOf(p)
    IN  IF r.implicit THEN "ImplicitAddend"
        ELSE IF r.symbol = 0 THEN "BadRelocTarget"
        ELSE IF SymbolAddress(p) = {}
             THEN IF Symbol(<<p[1], r.symbol>>).section # 0 THEN "BadRelocTarget" ELSE "UndefinedSymbol"
        ELSE IF r.type \notin {"32", "SLOT0_OP"} THEN "UnsupportedReloc"
        ELSE IF r.type = "32" THEN IF HasSlice(loc, 4) THEN "none" ELSE "BadRelocOffset"
        ELSE IF Available(loc) = 0 THEN "BadRelocOffset"
        ELSE IF InstAt(loc) = Unsupported THEN "Slot0Decode"
        ELSE IF InstAt(loc)[1] \notin Patchable THEN "Slot0Unpatchable"
        ELSE IF OperandFits(InstAt(loc), loc, TargetOf(p)) THEN "none" ELSE "OperandRange"

Relocated(p) ==
    LET loc == SiteOf(p)
        inst == Retargeted(InstAt(loc), loc, TargetOf(p))
    IN  IF RelocAt(p).type = "32" THEN Patched(loc, 4, TargetOf(p) + WordAt(loc))
        ELSE Patched(loc, EncodedLen(inst), Encode(inst))

ApplyReloc ==
    /\ stage = "relocate"
    /\ \/ /\ RelocAt(Item).type \in {"NONE", "ASM_EXPAND"}
          /\ Advance
          /\ UNCHANGED <<out, err>>
       \/ /\ RelocAt(Item).type \notin {"NONE", "ASM_EXPAND"}
          /\ IF RelocError(Item) # "none"
             THEN Fail(RelocError(Item)) /\ UNCHANGED out
             ELSE Advance /\ out' = Relocated(Item) /\ UNCHANGED err
    /\ UNCHANGED <<input, placed, globals, mem, dev>>

-----------------------------------------------------------------------------
(* Loading.                                                                 *)
Profile == IF input.board = "esp32" THEN Esp32 ELSE Esp32s3
Regions == Install(Profile)
ImageRange(region) == [base |-> Base(region), len |-> out[region].len, bytes |-> out[region].bytes]
BlobRange ==
    LET base == CodeIbusBase(Profile)
    IN  [base |-> base, len |-> input.len,
         bytes |-> [a \in {base + i : i \in DOMAIN input.blob} |-> input.blob[a - base]]]
RangeFor(item) ==
    CASE input.mode = "link" -> ImageRange(item)
      [] input.mode = "elf" -> input.segments[item]
      [] input.mode = "blob" -> BlobRange

(* Bytes are written one by one until one is not mapped.                    *)
LoadRange ==
    /\ stage = "load"
    /\ input.mode = "link" => input.entry \in DOMAIN globals
    /\ LET r == RangeFor(Item)
           n == Min({r.len, Room(Regions, r.base)})
       IN  /\ mem' = Written(Regions, mem, r.base, n, r.bytes)
           /\ IF n < r.len THEN Fail(IF input.mode = "blob" THEN "panic" ELSE "Unmapped")
              ELSE Advance /\ UNCHANGED err
    /\ UNCHANGED <<input, placed, out, globals, dev>>

NoEntrySymbol ==
    /\ stage = "load" /\ input.mode = "link" /\ input.entry \notin DOMAIN globals
    /\ Fail("NoEntrySymbol")
    /\ UNCHANGED <<input, placed, out, globals, mem, dev>>

(* The runner on the board is given the same payload.                       *)
DeviceLoad ==
    /\ input.mode = "blob" /\ dev = NoDevice
    /\ input.board = "esp32" => input.len <= Esp32.code_region_len
    /\ dev' = CodeMemLoad(input.board, input.heap, input.len, input.blob)
    /\ UNCHANGED <<input, stage, step, placed, out, globals, mem, err>>

-----------------------------------------------------------------------------
Init ==
    /\ \E family \in Families : input \in family
    /\ stage = "parse" /\ step = 1
    /\ placed = <<>> /\ globals = <<>> /\ mem = <<>>
    /\ out = [region \in {"text", "data"} |-> Empty]
    /\ dev = NoDevice
    /\ err = "none"

Next ==
    \/ Parse \/ PlaceSection \/ DefineSymbol \/ ApplyReloc
    \/ LoadRange \/ NoEntrySymbol \/ DeviceLoad

Spec == Init /\ [][Next]_vars
=============================================================================
