-------------------------------- MODULE Boards --------------------------------
(***************************************************************************)
(* The boards: where code and stack live, and the code memory of the two   *)
(* runner firmwares.                                                       *)
(***************************************************************************)
EXTENDS Memory

SRAM1_DBUS_START == 1070104576          \* 0x3FC8_8000 on the S3
S3_STACK_BASE == 1070333952             \* 0x3FCC_0000
IBUS_ALIAS_OFFSET == 7274496            \* 0x006F_0000
SRAM1_DRAM_BASE == 1073610752           \* 0x3FFE_0000 on the classic chip
SRAM1_IRAM_TOP == 1074528252            \* 0x400B_FFFC
CLASSIC_CODE_BASE == 1073643520         \* 0x3FFE_8000
CLASSIC_STACK_BASE == 1073479680        \* 0x3FFC_0000

Esp32s3 ==
    [code_dbus_base |-> SRAM1_DBUS_START, code_region_len |-> 128 * 1024,
     stack_dbus_base |-> S3_STACK_BASE, stack_region_len |-> 128 * 1024, stack_dual_mapped |-> TRUE,
     alias |-> [kind |-> "Offset", offset |-> IBUS_ALIAS_OFFSET]]
Esp32 ==
    [code_dbus_base |-> CLASSIC_CODE_BASE, code_region_len |-> 92 * 1024,
     stack_dbus_base |-> CLASSIC_STACK_BASE, stack_region_len |-> 64 * 1024, stack_dual_mapped |-> FALSE,
     alias |-> [kind |-> "WordMirrored", dram_base |-> SRAM1_DRAM_BASE, iram_top |-> SRAM1_IRAM_TOP]]

Install(p) ==
    <<[start |-> p.code_dbus_base, len |-> p.code_region_len, alias |-> {p.alias}],
      [start |-> p.stack_dbus_base, len |-> p.stack_region_len,
       alias |-> IF p.stack_dual_mapped THEN {p.alias} ELSE {}]>>

ASSUME BoardsAssumption == WellPlaced(Install(Esp32)) /\ WellPlaced(Install(Esp32s3))

CodeIbusBase(p) ==
    DbusToIbus(p.alias, IF p.alias.kind = "WordMirrored"
                        THEN p.code_dbus_base + p.code_region_len - 4 ELSE p.code_dbus_base)

-----------------------------------------------------------------------------
(* The code memory of the runner on each board.  mem holds the device's     *)
(* bytes by D-bus address; entry is what load returns.  The S3 copies a     *)
(* payload to the heap, at heap, and runs it through the alias.             *)
CODE_IBUS_BASE == SRAM1_IRAM_TOP - ((CLASSIC_CODE_BASE + 92 * 1024 - 4) - SRAM1_DRAM_BASE)
(* Mutant: words laid out upward, as if the alias were not mirrored.        *)
WriteAddr_Upward(i) == CLASSIC_CODE_BASE + 4 * i

WriteAddr(i) == SRAM1_DRAM_BASE + (SRAM1_IRAM_TOP - (CODE_IBUS_BASE + 4 * i))

HeapLoad(heap, blob) ==
    [mem |-> [d \in {heap + i : i \in DOMAIN blob} |-> blob[d - heap]], entry |-> heap + IBUS_ALIAS_OFFSET]

(* The classic board writes whole words, zero-padded.                       *)
Sram1Load(len, blob) ==
    LET words == {i \div 4 : i \in DOMAIN blob \cup {len - 1}}
        WordOf(d) == CHOOSE w \in words : d \in WriteAddr(w) .. WriteAddr(w) + 3
    IN  [mem |-> [d \in {WriteAddr(w) + k : w \in words, k \in 0 .. 3} |->
                     ByteAt(blob, 4 * WordOf(d) + (d - WriteAddr(WordOf(d))))],
         entry |-> CODE_IBUS_BASE]

CodeMemLoad(board, heap, len, blob) ==
    IF board = "esp32s3" THEN HeapLoad(heap, blob) ELSE Sram1Load(len, blob)

(* Where the chip fetches the byte at an I-bus address from, as the spikes  *)
(* measured it; not code of this repository.                                *)
ChipDbus(board, ibus) ==
    IF board = "esp32s3" THEN ibus - IBUS_ALIAS_OFFSET
    ELSE SRAM1_DRAM_BASE + 4 * ((SRAM1_IRAM_TOP + 3 - ibus) \div 4) + (ibus % 4)
DeviceFetch(board, dev, addr) == ByteAt(dev.mem, ChipDbus(board, addr))
=============================================================================
