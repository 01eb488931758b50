-------------------------------- MODULE Memory --------------------------------
(***************************************************************************)
(* lp-xt-emu's memory.  A region's bytes are seen at data (D-bus)          *)
(* addresses and, when it has an alias, at the instruction (I-bus)         *)
(* addresses its rule maps them to.  Memory is a function from the cells   *)
(* <<region, index>> that were written to bytes; every other mapped cell   *)
(* holds 0.  All addresses stay far from the ends of the 32-bit space, so  *)
(* the wrapping arithmetic of the code does not wrap.                      *)
(***************************************************************************)
EXTENDS Integers, Sequences, FiniteSets

AliasRules ==
    [kind : {"Offset"}, offset : Int] \cup [kind : {"Identity"}]
    \cup {rule \in [kind : {"WordMirrored"}, dram_base : Int, iram_top : Int] :
            rule.dram_base % 4 = 0 /\ rule.iram_top % 4 = 0}

WordAligned(a) == a - (a % 4)

DbusToIbus(rule, dbus) ==
    CASE rule.kind = "Offset" -> dbus + rule.offset
      [] rule.kind = "Identity" -> dbus
      [] rule.kind = "WordMirrored" ->
            rule.iram_top - (WordAligned(dbus) - rule.dram_base) + (dbus % 4)

IbusToDbus(rule, ibus) ==
    CASE rule.kind = "Offset" -> ibus - rule.offset
      [] rule.kind = "Identity" -> ibus
      [] rule.kind = "WordMirrored" ->
            rule.dram_base + (rule.iram_top - WordAligned(ibus)) + (ibus % 4)

(* A region is [start, len, alias], its alias a set of at most one rule.    *)
DbusCells(region, addr) == {i \in {addr - region.start} : i \in 0 .. region.len - 1}
IbusCells(region, addr) ==
    UNION {DbusCells(region, IbusToDbus(rule, addr)) : rule \in region.alias}

CellsIn(region, addr, access) ==
    IF IbusCells(region, addr) # {} THEN IbusCells(region, addr)
    ELSE IF access = "data" THEN DbusCells(region, addr) ELSE {}

(* The first region that has the address; {} when none has.                 *)
Resolve(regions, addr, access) ==
    LET hits == {ri \in DOMAIN regions : CellsIn(regions[ri], addr, access) # {}}
    IN  {<<ri, i>> : ri \in {r \in hits : \A q \in hits : r <= q},
                     i \in UNION {CellsIn(regions[r], addr, access) : r \in hits}}

(* Both addresses of a cell.                                                *)
Views(regions, cell) ==
    LET d == regions[cell[1]].start + cell[2]
    IN  {d} \cup {DbusToIbus(rule, d) : rule \in regions[cell[1]].alias}

ByteAt(f, x) == IF x \in DOMAIN f THEN f[x] ELSE 0

(* What a data access at addr reads, for the cells that resolve.            *)
Read(regions, mem, addr, access) == {ByteAt(mem, c) : c \in Resolve(regions, addr, access)}

(* Bytes from addr to the end of the view it is resolved in.                *)
Room(regions, addr) ==
    LET TopOf(ri) ==
            IF IbusCells(regions[ri], addr) = {} THEN {regions[ri].start + regions[ri].len - 1}
            ELSE {DbusToIbus(rule, d) : rule \in regions[ri].alias,
                    d \in {regions[ri].start + 3, regions[ri].start + regions[ri].len - 1}}
        tops == UNION {TopOf(c[1]) : c \in Resolve(regions, addr, "data")}
    IN  IF tops = {} THEN 0 ELSE (CHOOSE t \in tops : \A u \in tops : u <= t) + 1 - addr

(* len bytes written from base on, bytes giving those that are not 0; a     *)
(* byte goes to its cell whichever of the two addresses names it.           *)
Written(regions, mem, base, len, bytes) ==
    LET cells == UNION {Resolve(regions, a, "data") : a \in DOMAIN bytes \cap (base .. base + len - 1)}
    IN  [c \in DOMAIN mem \cup cells |->
            LET as == Views(regions, c) \cap (base .. base + len - 1)
            IN  IF as = {} THEN mem[c] ELSE ByteAt(bytes, CHOOSE a \in as : TRUE)]

(* What the rules leave to their caller: no address is of two regions, or of *)
(* both views of one.                                                       *)
DataView(region) == region.start .. region.start + region.len - 1
Answers(region, addr) ==
    \/ addr \in DataView(region)
    \/ \E rule \in region.alias : IbusToDbus(rule, addr) \in DataView(region)

WellPlaced(regions) ==
    /\ DOMAIN regions \subseteq Int
    /\ \A ri \in DOMAIN regions :
        LET region == regions[ri]
        IN  /\ region.start \in Int /\ region.len \in Int
            /\ region.alias \subseteq AliasRules
            /\ \A rule, other \in region.alias : rule = other
            /\ \A rule \in region.alias, d \in DataView(region) :
                    DbusToIbus(rule, d) \in DataView(region) => rule.kind = "Identity"
            /\ \A rj \in DOMAIN regions \ {ri}, d \in DataView(region) :
                    /\ ~Answers(regions[rj], d)
                    /\ \A rule \in region.alias : ~Answers(regions[rj], DbusToIbus(rule, d))
=============================================================================
