------------------------------ MODULE Machine -------------------------------
(* hardware.py: what the probes say a machine has, and which local models    *)
(* are picked for it. Memory is counted in tenths of a GB.                    *)
EXTENDS Values, Integers, Sequences, SequencesExt, FiniteSetsExt

CONSTANTS
  BonsaiFiles,   \* its two packings: [small, big], each [gb, vram, unified, ram] (a need or None)
  JevTiers       \* best first: [id, gb, commercial, default, gguf, needs: [vendors, vram, unified, ram] or None]

\* The sizes of data/local_models.json: a model fits where its needs are met, and
\* next to the larger packing in the memory a Mac must have for that one.
ASSUME ModelSizes ==
  /\ None \notin {"cuda", "rocm", "metal", "cpu", "browser"} /\ JevTiers \in Seq(Range(JevTiers))
  /\ LET big == BonsaiFiles.big
         smallPack == BonsaiFiles.small
     IN /\ big.gb \in Nat /\ smallPack.gb \in Nat
        /\ \A need \in {smallPack.vram, smallPack.ram} : need \in Nat /\ smallPack.gb <= need
        /\ \A need \in {big.vram, big.unified} : need \in Nat /\ big.gb <= need
        /\ \A i \in DOMAIN JevTiers :
             LET tier == JevTiers[i]
             IN /\ tier.gb \in Nat /\ tier.gb + big.gb <= big.unified
                /\ tier.needs # None => \A need \in {tier.needs[kind] : kind \in {"vram", "unified", "ram"}} :
                                         need = None \/ (need \in Nat /\ tier.gb <= need)

GPU(vendor, vram, unified) == [vendor |-> vendor, vram |-> vram, unified |-> unified]
Sized(gb) == gb # None /\ gb # 0

\* What each probe's output says. Apple's GPU shares the memory; a Windows
\* adapter reports 32 bits of bytes; an unreadable size is unknown.
ParseMeminfo(kb) == kb
ParseNvidiaSmi(sizes) == [i \in DOMAIN sizes |-> GPU("nvidia", sizes[i], FALSE)]
ParseRocmSmi(sizes) == [i \in DOMAIN sizes |-> GPU("amd", sizes[i], FALSE)]
ParseSystemProfiler(cards, ram) ==
  [i \in DOMAIN cards |-> IF cards[i].vendor = "apple" THEN GPU("apple", ram, TRUE)
                          ELSE GPU(cards[i].vendor, cards[i].vram, FALSE)]
ParseWindowsCim(cards) == [i \in DOMAIN cards |-> GPU(cards[i].vendor, cards[i].vram, FALSE)]

\* A tool that is missing, fails or hangs says None. On Linux the cards come
\* from the vendors' tools alone; elsewhere nvidia-smi replaces what the system
\* said of NVIDIA cards. A card keeps its place, so that there may be gaps.
Detect(box) ==
  LET system == CASE box.os = "linux" \/ box.cards = None -> <<>>
                  [] box.os = "macos" /\ box.cards # None -> ParseSystemProfiler(box.cards, box.ram)
                  [] OTHER -> ParseWindowsCim(box.cards)
      all == system \o (IF box.nvidia = None THEN <<>> ELSE ParseNvidiaSmi(box.nvidia))
                    \o (IF box.os # "linux" \/ box.rocm = None THEN <<>> ELSE ParseRocmSmi(box.rocm))
      replaced == IF box.nvidia = None THEN {} ELSE {i \in DOMAIN system : system[i].vendor = "nvidia"}
  IN [os |-> box.os, ram |-> ParseMeminfo(box.ram), gpus |-> Restrict(all, DOMAIN all \ replaced)]

Ram(hw) == IF hw.ram = None THEN 0 ELSE hw.ram

NvidiaVram(hw) ==
  LET sizes == {hw.gpus[i].vram : i \in {j \in DOMAIN hw.gpus :
                  hw.gpus[j].vendor = "nvidia" /\ Sized(hw.gpus[j].vram)}}
  IN IF sizes = {} THEN 0 ELSE Max(sizes)

\* A Mac with enough memory, else the best NVIDIA card, else the CPU.
PickBonsai(hw) ==
  LET big == BonsaiFiles.big
      smallPack == BonsaiFiles.small
      pick(gb, device) == [fits |-> TRUE, gb |-> gb, device |-> device]
      apple == \E i \in DOMAIN hw.gpus : hw.gpus[i].vendor = "apple" /\ hw.gpus[i].unified
                                          /\ Sized(hw.gpus[i].vram) /\ hw.gpus[i].vram >= big.unified
  IN IF apple THEN pick(big.gb, "metal")
     ELSE IF NvidiaVram(hw) >= big.vram THEN pick(big.gb, "cuda")
     ELSE IF NvidiaVram(hw) >= smallPack.vram THEN pick(smallPack.gb, "cuda")
     ELSE IF Ram(hw) >= smallPack.ram THEN pick(smallPack.gb, "cpu")
     ELSE [fits |-> FALSE, gb |-> 0, device |-> None]

\* The device of one card a tier fits on, beside what is reserved on it.
FitsCard(needs, g, reserved) ==
  LET left == g.vram - reserved
  IN IF (needs.vendors # None /\ g.vendor \notin needs.vendors) \/ ~Sized(g.vram) THEN None
     ELSE IF g.unified /\ needs.unified # None THEN (IF left >= needs.unified THEN "metal" ELSE None)
     ELSE IF g.vendor \in {"nvidia", "amd"} /\ needs.vram # None /\ left >= needs.vram
          THEN (IF g.vendor = "nvidia" THEN "cuda" ELSE "rocm") ELSE None

\* The first card that fits; the CPU, unless the tier is for cards only.
DeviceFor(needs, hw, gpuReserved, ramReserved) ==
  IF needs = None THEN "browser"
  ELSE LET cards == {i \in DOMAIN hw.gpus : FitsCard(needs, hw.gpus[i], gpuReserved) # None}
       IN CASE cards # {} -> FitsCard(needs, hw.gpus[Min(cards)], gpuReserved)
            [] cards = {} /\ needs.vendors = None /\ needs.ram # None /\ Ram(hw) - ramReserved >= needs.ram -> "cpu"
            [] OTHER -> None

\* Mutant: nothing is left to the first model.
ReservedNothing(bonsai, where) == 0

Reserved(bonsai, where) ==
  CASE ~bonsai.fits -> 0
    [] bonsai.fits /\ bonsai.device = "cpu" -> IF where = "ram" THEN bonsai.gb + 20 ELSE 0
    [] OTHER -> IF where = "gpu" THEN bonsai.gb + 15 ELSE 0

\* The best commercial tier on an accelerator, else on the CPU; one that is
\* no default is only named as an alternative.
PickJev(hw, bonsai) ==
  LET device(t) == DeviceFor(t.needs, hw, Reserved(bonsai, "gpu"), Reserved(bonsai, "ram"))
      among(devices) == {i \in DOMAIN JevTiers : JevTiers[i].commercial /\ JevTiers[i].default
                                                  /\ device(JevTiers[i]) \in devices}
      fast == among({"cuda", "metal", "rocm"})
      slow == among({"cpu", "browser"})
      pick(i) == [id |-> JevTiers[i].id, gb |-> JevTiers[i].gb, gguf |-> JevTiers[i].gguf, device |-> device(JevTiers[i])]
  IN CASE fast # {} -> pick(Min(fast))
       [] fast = {} /\ slow # {} -> pick(Min(slow))
       [] OTHER -> [id |-> None, gb |-> 0, gguf |-> FALSE, device |-> None]

Beside(hw, bonsai) == [bonsai |-> bonsai, jev |-> PickJev(hw, bonsai)]
Recommend(hw) == Beside(hw, PickBonsai(hw))

\* Both picks fit at once where they are to run: a card's memory, a Mac's
\* unified memory, or the main memory.
Memory(hw, device) ==
  LET vendor == CASE device = "cuda" -> "nvidia" [] device = "rocm" -> "amd" [] OTHER -> "apple"
      cards == {hw.gpus[i].vram : i \in {j \in DOMAIN hw.gpus : hw.gpus[j].vendor = vendor /\ Sized(hw.gpus[j].vram)}}
  IN IF device \in {"cpu", None} THEN Ram(hw)
     ELSE IF device = "browser" \/ cards = {} THEN 0 ELSE Max(cards)

PicksFit(hw, bonsai, jev) ==
  /\ bonsai.gb <= Memory(hw, bonsai.device)
  /\ jev.device # "browser" => jev.gb <= Memory(hw, jev.device)
  /\ jev.device = bonsai.device \/ (bonsai.device = "metal" /\ jev.device = "cpu") =>
       jev.gb + bonsai.gb <= Memory(hw, jev.device)
=============================================================================
