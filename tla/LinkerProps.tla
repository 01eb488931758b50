----------------------------- MODULE LinkerProps -----------------------------
(***************************************************************************)
(* What linking and loading promise, over the emulator's own reading of    *)
(* what was written.                                                       *)
(***************************************************************************)
EXTENDS Linker

(* The address the emulator goes to, or reads, from an instruction at pc.   *)
EffectiveTarget(inst, pc) ==
    CASE inst[1] = "Call" -> WordAligned(pc) + 4 * inst[3] + 4
      [] inst[1] = "L32r" -> WordAligned(pc + 3) + 4 * (inst[3] - 65536)
      [] OTHER -> pc + 4 + inst[Len(inst)]

Span(p) == placed[p] .. placed[p] + Section(p).size - 1

(* Sections never share a byte, are aligned, lie in their region, and every *)
(* literal of an object comes before its code, L32R reading backward only;  *)
(* seen from the data side the text still ends before the data begins.      *)
SectionsFit ==
    /\ \A p \in DOMAIN placed :
        LET region == RegionFor(Section(p))
        IN  /\ placed[p] % Max({Section(p).align, 4}) = 0
            /\ placed[p] >= Base(region)
            /\ placed[p] + Section(p).size <= Base(region) + RegionHalf
            /\ \A q \in DOMAIN placed \ {p} :
                /\ placed[p] + Section(p).size <= placed[q] \/ placed[q] + Section(q).size <= placed[p]
                /\ p[1] = q[1] /\ Section(p).kind = "literal" /\ Section(q).kind = "exec"
                    => placed[p] <= placed[q]
    /\ IbusToDbus(Esp32s3.alias, TEXT_BASE + out["text"].len) <= DATA_BASE

(* What is in the input at a relocation's site.                             *)
Original(p, k) == ByteAt(Section(p).bytes, RelocAt(p).offset + k)
RawAt(p) == Original(p, 0) + 256 * Original(p, 1) + 65536 * Original(p, 2)
OriginalWord(p) == RawAt(p) + 16777216 * SignExtend(Original(p, 3), 8)
OriginalInst(p) == Decode(RawAt(p), 3)

Applied(type) == {p \in {Work("relocate")[k] : k \in DOMAIN Work("relocate")} : RelocAt(p).type = type}
SiteBytes(p) == LET n == IF RelocAt(p).type = "32" THEN 4 ELSE BaseInstLen(Original(p, 0))
                IN  SiteOf(p) .. SiteOf(p) + n - 1

(* Once linked, every patched instruction takes the emulator to its symbol  *)
(* plus the addend, every patched word holds that plus what was there, and  *)
(* nothing else of any instruction or section has changed.                  *)
SitesReach ==
    stage \in {"load", "done"} /\ input.mode = "link" =>
        /\ \A p \in Applied("SLOT0_OP") :
            LET inst == InstAt(SiteOf(p))
            IN  /\ EffectiveTarget(inst, SiteOf(p)) = TargetOf(p)
                /\ [inst EXCEPT ![Len(inst)] = 0] =
                        [OriginalInst(p) EXCEPT ![Len(OriginalInst(p))] = 0]
        /\ \A p \in Applied("32") : WordAt(SiteOf(p)) = TargetOf(p) + OriginalWord(p)
        /\ LET sites == UNION {SiteBytes(p) : p \in Applied("SLOT0_OP") \cup Applied("32")}
           IN  \A p \in DOMAIN placed : \A o \in DOMAIN Section(p).bytes :
                    placed[p] + o \notin sites => ByteOf(placed[p] + o) = Section(p).bytes[o]

(* The operands an encoding has room for: the first, how many, and the step *)
(* of the address from one to the next.                                     *)
Operands(form) ==
    CASE form = "Call" -> <<-131072, 262144, 4>>
      [] form = "J" -> <<-131072, 262144, 1>>
      [] form = "L32r" -> <<0, 65536, 4>>
      [] form = "BranchZ" -> <<-2048, 4096, 1>>
      [] form = "BranchZN" -> <<0, 64, 1>>
      [] form \in Rri8Forms -> <<-128, 256, 1>>

Defines(p, name) == Symbol(p).global /\ Symbol(p).name = name /\ HomeOf(p) \in DOMAIN placed
SymbolItems == {Work("define")[k] : k \in DOMAIN Work("define")}
Pending(s) == Work(s)[step]

(* Linking and loading refuse only what cannot be done: no operand of the   *)
(* instruction leads to the target, no object defines the symbol or two     *)
(* do, the sections of a region do not fit whatever their order, or a byte  *)
(* has no place in the board's memory.                                      *)
RefusedOnlyIfImpossible ==
    /\ err = "OperandRange" =>
        LET p == Pending("relocate")
            inst == InstAt(SiteOf(p))
            field == Operands(inst[1])
            first == EffectiveTarget([inst EXCEPT ![Len(inst)] = field[1]], SiteOf(p))
        IN  \/ (TargetOf(p) - first) % field[3] # 0
            \/ (TargetOf(p) - first) \div field[3] \notin 0 .. field[2] - 1
    /\ err = "UndefinedSymbol" =>
        LET p == Pending("relocate")
        IN  \A q \in SymbolItems : ~Defines(q, Symbol(<<p[1], RelocAt(p).symbol>>).name)
    /\ err = "DuplicateSymbol" =>
        \E q \in SymbolItems \ {Pending("define")} : Defines(q, Symbol(Pending("define")).name)
    /\ err = "RegionOverflow" =>
        LET same == {q \in DOMAIN placed \cup {Pending("place")} :
                        RegionFor(Section(q)) = RegionFor(Section(Pending("place")))}
        IN  MapThenSumSet(LAMBDA q : Section(q).size + Max({Section(q).align, 4}) - 1, same) > RegionHalf
    /\ err = "Unmapped" =>
        LET r == RangeFor(Pending("load"))
        IN  \E a \in {r.base, r.base + r.len - 1} : Resolve(Regions, a, "data") = {}
    /\ err = "panic" => input.len > Profile.code_region_len

(* A word that decodes is the encoding of what it decodes to, in as many    *)
(* bytes as its first byte announces; SSAI drops three bits it ignores.     *)
RoundTrip ==
    stage = "relocate" /\ RelocAt(Item).type = "SLOT0_OP" =>
        LET inst == OriginalInst(Item)
            n == EncodedLen(inst)
        IN  \/ inst = Unsupported
            \/ inst[1] = "Ssai" /\ T(RawAt(Item)) > 1
            \/ n = BaseInstLen(RawAt(Item)) /\ Encode(inst) = RawAt(Item) % 256 ^ n

(* After loading, every byte is fetched where it was linked, whatever was   *)
(* loaded after it; only text can be fetched; and the board runs a payload  *)
(* from the very bytes the emulator runs it from.                           *)
Fetched(a) == Read(Regions, mem, a, "fetch")
Loaded(a) == Read(Regions, mem, a, "data")
FetchesWhatWasLoaded ==
    stage = "done" =>
        CASE input.mode = "link" ->
                /\ \A a \in DOMAIN out["text"].bytes : Fetched(a) = {out["text"].bytes[a]}
                /\ \A a \in DOMAIN out["data"].bytes :
                        Loaded(a) = {out["data"].bytes[a]} /\ Fetched(a) = {}
          [] input.mode = "elf" ->
                \A k \in DOMAIN input.segments : \A a \in DOMAIN input.segments[k].bytes :
                    Loaded(a) = {input.segments[k].bytes[a]}
          [] input.mode = "blob" ->
                \A i \in DOMAIN input.blob :
                    /\ Fetched(CodeIbusBase(Profile) + i) = {input.blob[i]}
                    /\ dev # NoDevice => DeviceFetch(input.board, dev, dev.entry + i) = input.blob[i]

(* Segments of an executable share no byte of the board's memory, under     *)
(* either address, as the tool that linked it made sure; the loader does    *)
(* not look.                                                                *)
InputApart(i) ==
    i.mode = "elf" =>
        LET regions == Install(IF i.board = "esp32" THEN Esp32 ELSE Esp32s3)
            Extent(k) == i.segments[k].base .. i.segments[k].base + i.segments[k].len - 1
        IN  \A j, k \in DOMAIN i.segments : j < k =>
                \A b \in Extent(k) : \A c \in Resolve(regions, b, "data") : Views(regions, c) \cap Extent(j) = {}
SegmentsApart == \A family \in Families : \A i \in family : InputApart(i)
=============================================================================
