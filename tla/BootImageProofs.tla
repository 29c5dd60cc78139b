-------------------------- MODULE BootImageProofs --------------------------
(***************************************************************************)
(* Machine-checked proofs about BootImage, for any layout of guest memory, *)
(* any width of the address words and files, memories and command lines of *)
(* any size.                                                               *)
(***************************************************************************)
EXTENDS BootImage, TLAPS

-----------------------------------------------------------------------------
(* The inductive invariant.                                                 *)

\* Every unit of memory m holds a value of its part or field.
Tagged(m) == \A a \in DOMAIN m : m[a][2] \in Contents(m[a][1])

Placed  == {"initrd", "cmdline", "e820", "regs", "sregs"}
Started == {"start", "thread", "guest"}

\* What is still unset where, and which loader is at work.
PathInv ==
    /\ at \in {"ram", "bzimage", "binary"} =>
         file = NoFile /\ initrd = -1 /\ cmdline = 0 /\ wild = {}
    /\ at \in Placed => file.entry = 0
    /\ at = "initrd" => initrd = -1
    /\ at \in {"initrd", "cmdline"} => cmdline = 0
    /\ at \in {"binary_sregs", "binary_regs"} => file.entry # 0 /\ platform # "hvf_arm64"

\* boot_setup_linux() has placed the kernel.
Loaded == at \in Placed \cup Started /\ file.entry = 0

\* A kernel that was placed lies in guest memory, and so does its setup part.
KernelInv ==
    Loaded => /\ SetupSize <= file.size /\ ParamsAt + SetupSize <= ram
              /\ LoadedAt + (file.size - SetupSize) <= ram

\* What is in memory m: a setup part of s units, a kernel of b, an initrd of i
\* at addr and a command line of c units, the last two with their fields.
Found(m, s, b, i, addr, c, written) ==
    /\ SetupHolds(m, s, written)
    /\ Holds(m, KernelAt, b, "image", s)
    /\ i # -1 => /\ FieldHolds(m, "ramdisk_size", i) /\ FieldHolds(m, "ramdisk_image", addr)
                 /\ Holds(m, addr, i, "initrd", 0)
    /\ c > 0 => FieldHolds(m, "cmd_line_ptr", CmdlineAt) /\ Holds(m, CmdlineAt, c, "cmdline", 0)

\* BootHandover for every loader that has done its part.
HandoverInv ==
    (Loaded /\ ~Untested /\ Disjoint) =>
        Found(mem, SetupSize, file.size - SetupSize, initrd, InitrdAt(ram, initrd), cmdline, Written)

\* setup_e820() has stored the map and the number of its ranges.
MapInv ==
    (Loaded /\ at \notin {"initrd", "cmdline", "e820"} /\ LoadedAt = KernelAt) =>
        FieldHolds(mem, "e820", Map820) /\ FieldHolds(mem, "e820_entries", 3)

\* The registers that have been set by then.
RegsInv ==
    /\ at = "sregs" => /\ platform # "hvf_arm64"
                       /\ {"rip", "rsi", "flags", "gp"} \subseteq Set("linux")
    /\ at \in Started /\ file.entry = 0 =>
         /\ platform # "hvf_arm64"
         /\ {"rip", "rsi", "flags", "gp", "segments", "cr"} \subseteq Set("linux")
    /\ at = "guest" /\ file.entry # 0 /\ platform = "hvf_arm64" =>
         {"rip", "flags"} \subseteq Set("raw")

BootInv == /\ TypeOK /\ PathInv /\ CopiesInside /\ KernelInv /\ HandoverInv /\ MapInv
           /\ RegsInv

-----------------------------------------------------------------------------
(* Arithmetic.                                                              *)

\* The layout as inequalities between numbers.
LEMMA LayoutFacts ==
    /\ Wrap \in Nat /\ Word \in Nat /\ Sector \in Nat /\ HeaderEnd \in Nat /\ MaxSects \in Nat
    /\ Page \in Nat /\ ParamsAt \in Nat /\ CmdlineAt \in Nat /\ LowEnd \in Nat /\ KernelAt \in Nat
    /\ RamCap \in Nat /\ FallbackAt \in Nat
    /\ 0 < Sector /\ 0 < Page /\ ParamsAt + Page <= CmdlineAt /\ ParamsAt < CmdlineAt /\ CmdlineAt < LowEnd /\ LowEnd < KernelAt
    /\ KernelAt < RamCap /\ RamCap < FallbackAt /\ FallbackAt < Word /\ 2 * Word <= Wrap
BY LayoutAssumption

\* Additions and subtractions of 64 bits, with and without a wrap.
LEMMA Unsigned ==
    ASSUME NEW a \in Address, NEW b \in Address
    PROVE  /\ Add(a, b) \in Address /\ Sub(a, b) \in Address
           /\ a + b < Wrap => Add(a, b) = a + b
           /\ b <= a => Sub(a, b) = a - b
BY LayoutFacts DEF Address, Add, Sub

\* The setup part is shorter than 2^32.
LEMMA SetupBound ==
    ASSUME NEW s \in 0 .. MaxSects
    PROVE  (s + 1) * Sector \in 1 .. Word - 1
<1>1. /\ (s + 1) * Sector \in Nat /\ (s + 1) * Sector <= (MaxSects + 1) * Sector
      /\ (s + 1) * Sector >= 1
  BY LayoutFacts
<1>2. (MaxSects + 1) * Sector < Word
  BY LayoutAssumption
<1> DEFINE x == (s + 1) * Sector
           y == (MaxSects + 1) * Sector
<1>3. x \in Nat /\ x <= y /\ x >= 1 /\ y < Word /\ y \in Nat
  BY <1>1, <1>2, LayoutFacts
<1> HIDE DEF x, y
<1>4. x \in 1 .. Word - 1
  BY <1>3, LayoutFacts
<1>5. QED
  BY <1>4 DEF x

\* The low 32 bits of a number are all of a smaller one.
LEMMA Low32Facts ==
    ASSUME NEW a \in Nat
    PROVE  Low32(a) \in 0 .. Word - 1 /\ (a < Word => Low32(a) = a)
BY LayoutFacts DEF Low32

\* Rounding down to a page.
LEMMA AlignFacts ==
    ASSUME NEW a \in Nat
    PROVE  AlignDown(a) \in Nat /\ AlignDown(a) <= a
BY LayoutFacts DEF AlignDown

\* load_initrd() puts an initrd at or above the kernel's place, and one that
\* fits into memory ends inside it or is refused.
LEMMA InitrdPlace ==
    ASSUME NEW r \in 0 .. RamCap, NEW n \in Address
    PROVE  /\ InitrdAt(r, n) \in Address /\ KernelAt <= InitrdAt(r, n)
           /\ n <= r => InitrdAt(r, n) < Word
<1> DEFINE d == Sub(r, n)
<1>1. r \in Address /\ d \in Address /\ (n <= r => d = r - n)
  <2>1. r \in Address
    BY LayoutFacts DEF Address
  <2>2. QED
    BY <2>1, Unsigned
<1> HIDE DEF d
<1>2. AlignDown(d) \in Nat /\ AlignDown(d) <= d
  BY <1>1, AlignFacts DEF Address
<1>3. InitrdAt(r, n) = IF AlignDown(d) < KernelAt THEN FallbackAt ELSE AlignDown(d)
  BY DEF InitrdAt, d
<1>4. QED
  BY <1>1, <1>2, <1>3, LayoutFacts DEF Address

-----------------------------------------------------------------------------
(* Guest memory.                                                            *)

\* What the tags of the parts and the fields carry.
LEMMA ContentsFacts ==
    /\ \A p \in {"zero", "image", "initrd", "cmdline", "binary"} : Contents(p) = Address
    /\ \A f \in Fields \ {"e820"} : Contents(f) = 0 .. Word - 1
    /\ Contents("e820") = E820Map
<1>1. \A p \in {"zero", "image", "initrd", "cmdline", "binary"} : p \notin Fields
  BY DEF Fields
<1>2. ASSUME NEW p \in {"zero", "image", "initrd", "cmdline", "binary"} PROVE Contents(p) = Address
  <2>1. p # "e820" /\ p \notin Fields \ {"e820"}
    BY <1>1
  <2>2. QED
    BY <2>1 DEF Contents
<1>3. ASSUME NEW f \in Fields \ {"e820"} PROVE Contents(f) = 0 .. Word - 1
  <2>1. f # "e820" /\ f \in Fields \ {"e820"}
    OBVIOUS
  <2>2. QED
    BY <2>1 DEF Contents
<1>4. Contents("e820") = E820Map
  <2>1. "e820" = "e820" /\ "e820" \notin Fields \ {"e820"}
    OBVIOUS
  <2>2. QED
    BY <2>1 DEF Contents
<1>5. QED
  BY <1>2, <1>3, <1>4

\* A copy tags what it writes with 64-bit offsets.
LEMMA CopiedType ==
    ASSUME TypeOK, NEW gpa \in Address, NEW size, NEW part \in {"image", "initrd", "cmdline", "binary"},
           NEW src \in Address
    PROVE  DOMAIN Copied(gpa, size, part, src) = DOMAIN mem /\ Tagged(Copied(gpa, size, part, src))
<1>1. DOMAIN mem \subseteq Address
  <2>1. DOMAIN mem = 0 .. ram - 1 /\ ram \in 0 .. RamCap
    BY DEF TypeOK
  <2>2. QED
    BY <2>1, LayoutFacts DEF Address
<1>2. ASSUME NEW a \in DOMAIN mem PROVE Add(src, Sub(a, gpa)) \in Contents(part)
  BY <1>1, Unsigned, ContentsFacts
<1>3. \A a \in DOMAIN mem : mem[a][2] \in Contents(mem[a][1])
  BY DEF TypeOK
<1>4. QED
  BY <1>2, <1>3 DEF Copied, Tagged

\* A store tags a field with a value of it.
LEMMA StoreType ==
    ASSUME NEW m, Tagged(m), NEW f, NEW v \in Contents(f)
    PROVE  DOMAIN Store(m, f, v) = DOMAIN m /\ Tagged(Store(m, f, v))
BY DEF Store, Tagged

\* The map of setup_e820() is one of 64-bit numbers.
LEMMA Map820Type == ASSUME TypeOK PROVE Map820 \in E820Map
<1>1. HighRam \in Address
  <2>1. ram \in Address /\ KernelAt \in Address
    BY LayoutFacts DEF TypeOK, Address
  <2>2. QED
    BY <2>1, Unsigned DEF HighRam
<1>2. 0 \in Address /\ LowEnd \in Address /\ KernelAt - LowEnd \in Address /\ KernelAt \in Address
  BY LayoutFacts DEF Address
<1> DEFINE R == [addr : Address, size : Address, type : {"RAM", "RESERVED"}]
<1>3. /\ Range820(0, LowEnd, "RAM") \in R /\ Range820(LowEnd, KernelAt - LowEnd, "RESERVED") \in R
      /\ Range820(KernelAt, HighRam, "RAM") \in R
  BY <1>1, <1>2 DEF Range820
<1> HIDE DEF R
<1>4. ASSUME NEW x \in R, NEW y \in R, NEW z \in R PROVE <<x, y, z>> \in [1 .. 3 -> R]
  OBVIOUS
<1>5. QED
  BY <1>3, <1>4 DEF Map820, E820Map, R

\* A copy that stays inside memory writes the units of its place and no other.
LEMMA CopiedAt ==
    ASSUME TypeOK, NEW gpa \in Address, NEW size \in Nat, NEW part, NEW src \in Address,
           Inside(gpa, size), src + size <= Wrap, NEW a \in DOMAIN mem
    PROVE  Copied(gpa, size, part, src)[a] =
             IF gpa <= a /\ a < gpa + size THEN <<part, src + (a - gpa)>> ELSE mem[a]
<1>1. a \in Nat /\ a < ram /\ ram \in Nat /\ ram < Wrap /\ gpa + size <= ram /\ gpa \in Nat /\ src \in Nat
  BY LayoutFacts DEF TypeOK, Inside, Address
<1>2. Copied(gpa, size, part, src)[a] =
        IF Sub(a, gpa) < size THEN <<part, Add(src, Sub(a, gpa))>> ELSE mem[a]
  BY DEF Copied
<1>3. CASE gpa <= a
  <2>1. Sub(a, gpa) = a - gpa
    BY <1>1, <1>3 DEF Sub
  <2>2. a - gpa < size => Add(src, a - gpa) = src + (a - gpa)
    BY <1>1, <1>3, LayoutFacts DEF Add
  <2>3. a - gpa < size <=> a < gpa + size
    BY <1>1
  <2>4. QED
    BY <1>2, <1>3, <2>1, <2>2, <2>3
<1>4. CASE ~(gpa <= a)
  <2>1. ~(Sub(a, gpa) < size)
    BY <1>1, <1>4, LayoutFacts DEF Sub
  <2>2. QED
    BY <1>2, <1>4, <2>1
<1>5. QED
  BY <1>3, <1>4

\* A copy leaves what lies before or behind it.
LEMMA HoldsKept ==
    ASSUME TypeOK, NEW gpa \in Address, NEW size \in Nat, NEW part, Inside(gpa, size),
           NEW g \in Nat, NEW n \in Nat, NEW p, NEW o \in Nat,
           Holds(mem, g, n, p, o), g + n <= gpa \/ gpa + size <= g
    PROVE  Holds(Copied(gpa, size, part, 0), g, n, p, o)
<1> SUFFICES ASSUME NEW k \in 0 .. n - 1
             PROVE  /\ g + k \in DOMAIN Copied(gpa, size, part, 0)
                    /\ Copied(gpa, size, part, 0)[g + k] = <<p, o + k>>
  BY DEF Holds
<1>1. g + k \in DOMAIN mem /\ mem[g + k] = <<p, o + k>>
  BY DEF Holds
<1>2. 0 \in Address /\ 0 + size <= Wrap
  BY LayoutFacts DEF Inside, Address, TypeOK
<1>3. ~(gpa <= g + k /\ g + k < gpa + size)
  BY DEF Address
<1>4. DOMAIN Copied(gpa, size, part, 0) = DOMAIN mem
  BY DEF Copied
<1>5. Copied(gpa, size, part, 0)[g + k] = mem[g + k]
  <2> DEFINE a == g + k
  <2>1. a \in DOMAIN mem /\ ~(gpa <= a /\ a < gpa + size)
    BY <1>1, <1>3
  <2> HIDE DEF a
  <2>2. Copied(gpa, size, part, 0)[a] =
          IF gpa <= a /\ a < gpa + size THEN <<part, 0 + (a - gpa)>> ELSE mem[a]
    BY <1>2, <2>1, CopiedAt
  <2>3. QED
    BY <2>1, <2>2, Zenon DEF a
<1>6. QED
  BY <1>1, <1>4, <1>5

\* What was copied is there.
LEMMA HoldsCopied ==
    ASSUME TypeOK, NEW gpa \in Address, NEW size \in Nat, NEW part, Inside(gpa, size)
    PROVE  Holds(Copied(gpa, size, part, 0), gpa, size, part, 0)
<1> SUFFICES ASSUME NEW k \in 0 .. size - 1
             PROVE  /\ gpa + k \in DOMAIN Copied(gpa, size, part, 0)
                    /\ Copied(gpa, size, part, 0)[gpa + k] = <<part, 0 + k>>
  BY DEF Holds
<1>1. gpa + k \in DOMAIN mem
  BY LayoutFacts DEF Inside, Address, TypeOK
<1>2. 0 \in Address /\ 0 + size <= Wrap
  BY LayoutFacts DEF Inside, Address, TypeOK
<1>3. gpa <= gpa + k /\ gpa + k < gpa + size /\ 0 + (gpa + k - gpa) = 0 + k
  BY DEF Address
<1>4. DOMAIN Copied(gpa, size, part, 0) = DOMAIN mem
  BY DEF Copied
<1>5. Copied(gpa, size, part, 0)[gpa + k] = <<part, 0 + k>>
  <2> DEFINE a == gpa + k
  <2>1. a \in DOMAIN mem /\ gpa <= a /\ a < gpa + size /\ 0 + (a - gpa) = 0 + k
    BY <1>1, <1>3 DEF Address
  <2> HIDE DEF a
  <2>2. Copied(gpa, size, part, 0)[a] =
          IF gpa <= a /\ a < gpa + size THEN <<part, 0 + (a - gpa)>> ELSE mem[a]
    BY <1>2, <2>1, CopiedAt
  <2>3. Copied(gpa, size, part, 0)[a] = <<part, 0 + k>>
    BY <2>1, <2>2, Zenon
  <2>4. QED
    BY <2>3 DEF a
<1>6. QED
  BY <1>1, <1>3, <1>4, <1>5

-----------------------------------------------------------------------------
(* The fields of the boot parameters.                                       *)

\* The fields lie in the page of the boot parameters, below the command line.
LEMMA SlotFacts ==
    ASSUME NEW f \in Fields, NEW a \in Slot(f)
    PROVE  a \in Nat /\ ParamsAt <= a /\ a < ParamsAt + Page /\ a < CmdlineAt
<1>1. Offset[f] \in Nat /\ Width[f] \in Nat /\ Offset[f] + Width[f] <= Page
  BY FieldsAssumption
<1>2. QED
  BY <1>1, LayoutFacts DEF Slot

\* No two fields share a unit.
LEMMA SlotsApart ==
    ASSUME NEW f \in Fields, NEW g \in Fields, f # g, NEW a \in Slot(f)
    PROVE  a \notin Slot(g)
<1>1. /\ Offset[f] \in Nat /\ Width[f] \in Nat /\ Offset[g] \in Nat /\ Width[g] \in Nat
      /\ Offset[f] + Width[f] <= Offset[g] \/ Offset[g] + Width[g] <= Offset[f]
  BY FieldsAssumption
<1>2. QED
  BY <1>1, LayoutFacts DEF Slot

\* A field has a first unit.
LEMMA SlotStart == ASSUME NEW f \in Fields PROVE ParamsAt + Offset[f] \in Slot(f)
<1>1. Offset[f] \in Nat /\ Width[f] \in Nat /\ Width[f] > 0
  BY FieldsAssumption
<1>2. QED
  BY <1>1, LayoutFacts DEF Slot

\* A store changes the units of its field and no other.
LEMMA StoreAt ==
    ASSUME NEW m, NEW f, NEW v, NEW a \in DOMAIN m
    PROVE  Store(m, f, v)[a] = IF a \in Slot(f) THEN <<f, v>> ELSE m[a]
BY DEF Store

\* A store leaves what lies behind the boot parameters.
LEMMA StoreHolds ==
    ASSUME NEW m, NEW f \in Fields, NEW v, NEW g \in Nat, NEW n \in Nat, NEW p, NEW o \in Nat,
           CmdlineAt <= g, Holds(m, g, n, p, o)
    PROVE  Holds(Store(m, f, v), g, n, p, o)
<1> SUFFICES ASSUME NEW k \in 0 .. n - 1
             PROVE  g + k \in DOMAIN Store(m, f, v) /\ Store(m, f, v)[g + k] = <<p, o + k>>
  BY DEF Holds
<1> DEFINE a == g + k
<1>1. a \in DOMAIN m /\ m[a] = <<p, o + k>>
  BY DEF Holds
<1>2. a \notin Slot(f)
  <2>1. ~(a < CmdlineAt)
    BY LayoutFacts
  <2>2. QED
    BY <2>1, SlotFacts
<1>3. DOMAIN Store(m, f, v) = DOMAIN m
  BY DEF Store
<1> HIDE DEF a
<1>4. Store(m, f, v)[a] = m[a]
  BY <1>1, <1>2, StoreAt, Zenon
<1>5. QED
  BY <1>1, <1>3, <1>4 DEF a

\* A store puts its value into its field.
LEMMA StoreField ==
    ASSUME NEW m, NEW f \in Fields, NEW v, Slot(f) \subseteq DOMAIN m
    PROVE  FieldHolds(Store(m, f, v), f, v)
BY StoreAt DEF FieldHolds, Store

\* A store leaves the other fields.
LEMMA StoreOther ==
    ASSUME NEW m, NEW f \in Fields, NEW v, NEW g \in Fields, f # g, NEW x, FieldHolds(m, g, x)
    PROVE  FieldHolds(Store(m, f, v), g, x)
<1> SUFFICES ASSUME NEW a \in Slot(g)
             PROVE  a \in DOMAIN Store(m, f, v) /\ Store(m, f, v)[a] = <<g, x>>
  BY DEF FieldHolds
<1>1. a \in DOMAIN m /\ m[a] = <<g, x>>
  BY DEF FieldHolds
<1>2. a \notin Slot(f)
  BY SlotsApart
<1>3. QED
  BY <1>1, <1>2 DEF Store

\* A store leaves the setup part but for its field.
LEMMA StoreSetup ==
    ASSUME NEW m, NEW f, NEW v, NEW s \in Nat, NEW W, f \in W, SetupHolds(m, s, W)
    PROVE  SetupHolds(Store(m, f, v), s, W)
<1> SUFFICES ASSUME NEW k \in 0 .. s - 1
             PROVE  /\ ParamsAt + k \in DOMAIN Store(m, f, v)
                    /\ (\A h \in W : ParamsAt + k \notin Slot(h)) =>
                         Store(m, f, v)[ParamsAt + k] = <<"image", k>>
  BY DEF SetupHolds
<1> DEFINE a == ParamsAt + k
<1>1. a \in DOMAIN m /\ ((\A h \in W : a \notin Slot(h)) => m[a] = <<"image", k>>)
  BY DEF SetupHolds
<1>2. DOMAIN Store(m, f, v) = DOMAIN m
  BY DEF Store
<1> HIDE DEF a
<1>3. (\A h \in W : a \notin Slot(h)) => Store(m, f, v)[a] = <<"image", k>>
  BY <1>1, StoreAt, Zenon
<1>4. QED
  BY <1>1, <1>2, <1>3 DEF a

\* The more fields are left out, the less is said.
LEMMA SetupMore ==
    ASSUME NEW m, NEW s, NEW V, NEW W, V \subseteq W, SetupHolds(m, s, V)
    PROVE  SetupHolds(m, s, W)
BY DEF SetupHolds

\* A copy behind the boot parameters leaves their fields and a setup part that
\* ends before it.
LEMMA CopyAbove ==
    ASSUME TypeOK, NEW gpa \in Address, NEW size \in Nat, NEW part, Inside(gpa, size),
           CmdlineAt <= gpa
    PROVE  /\ \A f \in Fields : \A x :
                FieldHolds(mem, f, x) => FieldHolds(Copied(gpa, size, part, 0), f, x)
           /\ \A s \in Nat : \A W : ParamsAt + s <= CmdlineAt /\ SetupHolds(mem, s, W) =>
                                  SetupHolds(Copied(gpa, size, part, 0), s, W)
<1> DEFINE m == Copied(gpa, size, part, 0)
<1>1. DOMAIN m = DOMAIN mem
  BY DEF Copied
<1>2. 0 \in Address /\ 0 + size <= Wrap /\ gpa \in Nat
  BY LayoutFacts DEF Inside, Address, TypeOK
<1>3. ASSUME NEW a \in DOMAIN mem, a < CmdlineAt PROVE m[a] = mem[a]
  <2>1. m[a] = IF gpa <= a /\ a < gpa + size THEN <<part, 0 + (a - gpa)>> ELSE mem[a]
    BY <1>2, CopiedAt
  <2>2. a \in Int /\ ~(gpa <= a)
    BY <1>2, <1>3, LayoutFacts DEF TypeOK
  <2>3. QED
    BY <2>1, <2>2, Zenon
<1> HIDE DEF m
<1>4. ASSUME NEW f \in Fields, NEW x, FieldHolds(mem, f, x) PROVE FieldHolds(m, f, x)
  BY <1>1, <1>3, <1>4, SlotFacts DEF FieldHolds
<1>5. ASSUME NEW s \in Nat, NEW W, ParamsAt + s <= CmdlineAt, SetupHolds(mem, s, W)
      PROVE  SetupHolds(m, s, W)
  <2> SUFFICES ASSUME NEW k \in 0 .. s - 1
               PROVE  /\ ParamsAt + k \in DOMAIN m
                      /\ (\A h \in W : ParamsAt + k \notin Slot(h)) => m[ParamsAt + k] = <<"image", k>>
    BY DEF SetupHolds
  <2> DEFINE a == ParamsAt + k
  <2>1. a \in DOMAIN mem /\ ((\A h \in W : a \notin Slot(h)) => mem[a] = <<"image", k>>)
    BY <1>5 DEF SetupHolds
  <2>2. a < CmdlineAt
    BY <1>5, LayoutFacts
  <2> HIDE DEF a
  <2>3. QED
    BY <1>1, <1>3, <2>1, <2>2 DEF a
<1>6. QED
  BY <1>4, <1>5 DEF m

-----------------------------------------------------------------------------
(* What the loaders do.                                                     *)

\* Guest memory with the setup part, of s units, and a kernel of b units at to.
ImageIn(s, to, b) ==
    [a \in DOMAIN mem |->
        IF to <= a /\ a < to + b THEN <<"image", s + (a - to)>>
        ELSE IF ParamsAt <= a /\ a < ParamsAt + s THEN <<"image", a - ParamsAt>> ELSE mem[a]]

\* A mapping whose end does not wrap around lies inside memory.
LEMMA MappedInside ==
    ASSUME TypeOK, NEW gpa \in Address, NEW size \in Address, gpa + size < Wrap
    PROVE  vm_gpa_to_hva(gpa, size) <=> Inside(gpa, size)
BY LayoutFacts DEF vm_gpa_to_hva, Inside, Add, Address, TypeOK

\* load_bzimage() fails or places the whole file.  It reads past its buffer
\* only for a file that is too short; a copy never leaves guest memory.
LEMMA BzImage ==
    ASSUME TypeOK, load_bzimage
    PROVE  \/ Fail /\ UNCHANGED file
           \/ \E n \in FileSizes, s \in 0 .. MaxSects, c \in Code32 :
                 LET w == (s + 1) * Sector
                     to == IF c = 0 THEN KernelAt ELSE c
                 IN /\ file' = [size |-> n, sects |-> s, code32 |-> c, entry |-> 0]
                    /\ at' \in {"failed", "crashed", "initrd"}
                    /\ DOMAIN mem' = DOMAIN mem /\ Tagged(mem')
                    /\ wild' \subseteq wild \cup {"header", "setup", "kernel"}
                    /\ wild' # wild => n < w \/ n < HeaderEnd
                    /\ at' = "initrd" => /\ w <= n /\ ParamsAt + w <= ram /\ to + (n - w) <= ram
                                         /\ mem' = ImageIn(w, to, n - w)
<1> SUFFICES ASSUME ~(Fail /\ UNCHANGED file)
             PROVE  \E n \in FileSizes, s \in 0 .. MaxSects, c \in Code32 :
                 LET w == (s + 1) * Sector
                     to == IF c = 0 THEN KernelAt ELSE c
                 IN /\ file' = [size |-> n, sects |-> s, code32 |-> c, entry |-> 0]
                    /\ at' \in {"failed", "crashed", "initrd"}
                    /\ DOMAIN mem' = DOMAIN mem /\ Tagged(mem')
                    /\ wild' \subseteq wild \cup {"header", "setup", "kernel"}
                    /\ wild' # wild => n < w \/ n < HeaderEnd
                    /\ at' = "initrd" => /\ w <= n /\ ParamsAt + w <= ram /\ to + (n - w) <= ram
                                         /\ mem' = ImageIn(w, to, n - w)
  OBVIOUS
<1>1. PICK n \in FileSizes, s \in 0 .. MaxSects, c \in Code32 :
        file' = [size |-> n, sects |-> s, code32 |-> c, entry |-> 0]
  BY DEF load_bzimage
<1>2. PlaceKernel
  BY DEF load_bzimage
<1> DEFINE w == (s + 1) * Sector
           to == IF c = 0 THEN KernelAt ELSE c
           b == Sub(n, w)
           over == {x \in {"header", "setup"} : n < IF x = "header" THEN HeaderEnd ELSE w}
<1>3. SetupSize' = w /\ LoadedAt' = to /\ file'.size = n
  BY <1>1 DEF SetupSize, LoadedAt
<1>4. w \in 1 .. Word - 1
  BY SetupBound
<1>5. /\ n \in Address /\ 2 * n < Wrap /\ to \in 0 .. Word - 1 /\ to \in Address /\ w \in Address
      /\ ParamsAt \in Address /\ 0 \in Address
  BY <1>4, InputsAssumption, LayoutFacts DEF Address
<1> HIDE DEF w, to
<1>6. b \in Address /\ (w <= n => b = n - w)
  BY <1>5, Unsigned
<1>7. \/ /\ ~vm_gpa_to_hva(ParamsAt, w)
         /\ at' = "failed" /\ wild' = wild \cup (over \ {"setup"}) /\ mem' = mem
      \/ /\ vm_gpa_to_hva(ParamsAt, w) /\ ~vm_gpa_to_hva(to, b)
         /\ at' = "failed" /\ wild' = wild \cup over /\ mem' = Copied(ParamsAt, w, "image", 0)
      \/ /\ vm_gpa_to_hva(ParamsAt, w) /\ vm_gpa_to_hva(to, b)
         /\ mem' = [a \in DOMAIN mem |->
                       IF Sub(a, to) < b THEN <<"image", Add(w, Sub(a, to))>>
                       ELSE Copied(ParamsAt, w, "image", 0)[a]]
         /\ wild' = wild \cup over \cup IF Inside(to, b) THEN {} ELSE {"kernel"}
         /\ at' = IF n < w THEN "crashed" ELSE "initrd"
  BY <1>2, <1>3, Zenon DEF PlaceKernel
<1> HIDE DEF b
<1>8. at' \in {"failed", "crashed", "initrd"} /\ wild' \subseteq wild \cup {"header", "setup", "kernel"}
  BY <1>7
<1>9. DOMAIN mem' = DOMAIN mem /\ Tagged(mem')
  <2> DEFINE m == Copied(ParamsAt, w, "image", 0)
  <2>1. DOMAIN m = DOMAIN mem /\ Tagged(m)
    BY <1>5, CopiedType
  <2>2. \A a \in DOMAIN mem : Add(w, Sub(a, to)) \in Contents("image")
    <3>1. DOMAIN mem \subseteq Address
      <4>1. DOMAIN mem = 0 .. ram - 1 /\ ram \in 0 .. RamCap
        BY DEF TypeOK
      <4>2. QED
        BY <4>1, LayoutFacts DEF Address
    <3>2. \A a \in DOMAIN mem : Add(w, Sub(a, to)) \in Address
      BY <1>5, <3>1, Unsigned
    <3>3. QED
      BY <3>2, ContentsFacts
  <2> HIDE DEF m
  <2>3. Tagged(mem)
    BY DEF TypeOK, Tagged
  <2>4. CASE mem' = mem
    BY <2>3, <2>4
  <2>5. CASE mem' = m
    BY <2>1, <2>5
  <2>6. CASE mem' = [a \in DOMAIN mem |-> IF Sub(a, to) < b THEN <<"image", Add(w, Sub(a, to))>> ELSE m[a]]
    BY <2>1, <2>2, <2>6 DEF Tagged
  <2>7. QED
    BY <1>7, <2>4, <2>5, <2>6 DEF m
<1>10. w <= n => (vm_gpa_to_hva(to, b) <=> Inside(to, b))
  <2> SUFFICES ASSUME w <= n PROVE vm_gpa_to_hva(to, b) <=> Inside(to, b)
    OBVIOUS
  <2>1. to + b < Wrap
    BY <1>4, <1>5, <1>6, LayoutFacts DEF Address
  <2>2. QED
    BY <1>5, <1>6, <2>1, MappedInside
<1>11. wild' # wild => n < w \/ n < HeaderEnd
  <2> SUFFICES ASSUME w <= n, HeaderEnd <= n PROVE wild' = wild
    BY <1>4, <1>5, LayoutFacts DEF Address
  <2>1. over = {}
    BY <1>4, <1>5, LayoutFacts DEF Address
  <2> HIDE DEF over
  <2>2. QED
    BY <1>7, <1>10, <2>1
<1>12. ASSUME at' = "initrd"
       PROVE  /\ w <= n /\ ParamsAt + w <= ram /\ to + (n - w) <= ram
              /\ mem' = ImageIn(w, to, n - w)
  <2>1. /\ vm_gpa_to_hva(ParamsAt, w) /\ vm_gpa_to_hva(to, b) /\ ~(n < w)
        /\ mem' = [a \in DOMAIN mem |->
                       IF Sub(a, to) < b THEN <<"image", Add(w, Sub(a, to))>>
                       ELSE Copied(ParamsAt, w, "image", 0)[a]]
    BY <1>7, <1>12
  <2>2. w <= n /\ b = n - w
    BY <1>4, <1>5, <1>6, <2>1 DEF Address
  <2>3. ParamsAt + w < Wrap
    BY <1>4, LayoutFacts
  <2>4. Inside(ParamsAt, w) /\ Inside(to, b)
    BY <1>5, <1>10, <2>1, <2>2, <2>3, MappedInside
  <2>5. ASSUME NEW a \in DOMAIN mem
        PROVE  (IF Sub(a, to) < b THEN <<"image", Add(w, Sub(a, to))>>
                ELSE Copied(ParamsAt, w, "image", 0)[a])
               = IF to <= a /\ a < to + (n - w) THEN <<"image", w + (a - to)>>
                 ELSE IF ParamsAt <= a /\ a < ParamsAt + w THEN <<"image", a - ParamsAt>> ELSE mem[a]
    <3>1. a \in Nat /\ a < ram /\ ram \in Nat /\ ram < Wrap
      BY LayoutFacts DEF TypeOK
    <3>2. Copied(ParamsAt, w, "image", 0)[a] =
            IF ParamsAt <= a /\ a < ParamsAt + w THEN <<"image", 0 + (a - ParamsAt)>> ELSE mem[a]
      <4>1. w \in Nat /\ 0 + w <= Wrap
        BY <1>4, LayoutFacts
      <4>2. ParamsAt \in Address /\ 0 \in Address /\ Inside(ParamsAt, w)
        BY <1>5, <2>4
      <4>3. QED
        BY <4>1, <4>2, CopiedAt
    <3>3. 0 + (a - ParamsAt) = a - ParamsAt
      BY <3>1, LayoutFacts
    <3>4. CASE to <= a
      <4>1. Sub(a, to) = a - to /\ (a - to < b <=> a < to + (n - w))
        BY <1>5, <2>2, <3>1, <3>4 DEF Sub, Address
      <4>2. a - to < b => Add(w, a - to) = w + (a - to)
        BY <1>4, <1>5, <2>2, <3>1, <3>4, LayoutFacts DEF Add, Address
      <4>3. QED
        BY <3>2, <3>3, <3>4, <4>1, <4>2
    <3>5. CASE ~(to <= a)
      <4>1. ~(Sub(a, to) < b)
        BY <1>5, <1>6, <2>4, <3>1, <3>5, LayoutFacts DEF Sub, Address, Inside
      <4>2. QED
        BY <3>2, <3>3, <3>5, <4>1
    <3>6. QED
      BY <3>4, <3>5
  <2>6. mem' = ImageIn(w, to, n - w)
    BY <2>1, <2>5, Zenon DEF ImageIn
  <2>7. QED
    BY <2>2, <2>4, <2>6 DEF Inside
<1>13. QED
  BY <1>1, <1>2, <1>8, <1>9, <1>11, <1>12 DEF w, to

\* load_initrd() skips, fails, or copies to a place inside guest memory unless
\* the initrd is larger than it.
LEMMA Initrd ==
    ASSUME TypeOK, load_initrd
    PROVE  \/ at' = "cmdline" /\ UNCHANGED <<mem, wild, initrd>>
           \/ Fail /\ (initrd' = initrd \/ initrd' \in FileSizes)
           \/ \E n \in FileSizes :
                LET addr == InitrdAt(ram, n)
                IN /\ initrd' = n /\ mem' = Announce(Copied(addr, n, "initrd", 0), addr, n)
                   /\ at' \in {"cmdline", "crashed"}
                   /\ wild' \subseteq wild \cup {"initrd"}
                   /\ n <= ram => wild' = wild /\ Inside(addr, n)
<1>1. CASE at' = "cmdline" /\ UNCHANGED <<mem, wild, initrd>>
  BY <1>1
<1>2. CASE Fail /\ UNCHANGED initrd
  BY <1>2
<1>3. ASSUME NEW n \in FileSizes, initrd' = n, Fail
      PROVE  Fail /\ (initrd' = initrd \/ initrd' \in FileSizes)
  BY <1>3
<1> DEFINE addr(n) == InitrdAt(ram, n)
<1>4. ASSUME NEW n \in FileSizes, initrd' = n, vm_gpa_to_hva(addr(n), n),
             CopyTo(addr(n), n, "initrd", "cmdline"),
             mem' = Announce(Copied(addr(n), n, "initrd", 0), addr(n), n)
      PROVE  /\ initrd' = n /\ mem' = Announce(Copied(addr(n), n, "initrd", 0), addr(n), n)
             /\ at' \in {"cmdline", "crashed"}
             /\ wild' \subseteq wild \cup {"initrd"}
             /\ n <= ram => wild' = wild /\ Inside(addr(n), n)
  <2>1. n \in Address /\ ram \in 0 .. RamCap
    BY InputsAssumption DEF Address, TypeOK
  <2>2. addr(n) \in Address /\ (n <= ram => addr(n) < Word)
    BY <2>1, InitrdPlace
  <2> HIDE DEF addr
  <2>3. ASSUME n <= ram PROVE Inside(addr(n), n)
    <3>1. addr(n) + n < Wrap
      BY <2>1, <2>2, <2>3, LayoutFacts DEF Address
    <3>2. QED
      BY <1>4, <2>1, <2>2, <3>1, MappedInside
  <2>4. QED
    BY <1>4, <2>3 DEF CopyTo
<1>5. QED
  BY <1>1, <1>2, <1>3, <1>4 DEF load_initrd

\* setup_cmdline() skips, fails, or copies inside guest memory.
LEMMA Cmdline ==
    ASSUME TypeOK, setup_cmdline
    PROVE  \/ at' = "e820" /\ UNCHANGED <<mem, wild, cmdline>>
           \/ Fail /\ cmdline' \in CmdSizes
           \/ /\ cmdline' \in CmdSizes
              /\ mem' = Store(Copied(CmdlineAt, cmdline', "cmdline", 0), "cmd_line_ptr", CmdlineAt)
              /\ Inside(CmdlineAt, cmdline') /\ wild' = wild /\ at' = "e820"
<1>1. CASE at' = "e820" /\ UNCHANGED <<mem, wild, cmdline>>
  BY <1>1
<1>2. ASSUME NEW n \in CmdSizes, cmdline' = n, Fail PROVE Fail /\ cmdline' \in CmdSizes
  BY <1>2
<1>3. ASSUME NEW n \in CmdSizes, cmdline' = n, vm_gpa_to_hva(CmdlineAt, n),
             CopyTo(CmdlineAt, n, "cmdline", "e820"),
             mem' = Store(Copied(CmdlineAt, n, "cmdline", 0), "cmd_line_ptr", CmdlineAt)
      PROVE  /\ cmdline' \in CmdSizes
             /\ mem' = Store(Copied(CmdlineAt, cmdline', "cmdline", 0), "cmd_line_ptr", CmdlineAt)
             /\ Inside(CmdlineAt, cmdline') /\ wild' = wild /\ at' = "e820"
  <2>1. n \in Address /\ CmdlineAt \in Address /\ CmdlineAt + n < Wrap
    BY InputsAssumption, LayoutFacts DEF Address
  <2>2. Inside(CmdlineAt, n)
    BY <1>3, <2>1, MappedInside
  <2>3. QED
    BY <1>3, <2>2 DEF CopyTo
<1>4. QED
  BY <1>1, <1>2, <1>3 DEF setup_cmdline

\* boot_setup_raw_binary() fails or copies, inside guest memory unless the end
\* of the binary wraps around.
LEMMA Binary ==
    ASSUME TypeOK, LoadBinary
    PROVE  \/ Fail /\ UNCHANGED file
           \/ \E n \in FileSizes, e \in Entries :
                /\ file' = [NoFile EXCEPT !.size = n, !.entry = e]
                /\ \/ Fail
                   \/ /\ mem' = Copied(e, n, "binary", 0)
                      /\ wild' \subseteq wild \cup {"binary"} /\ (e + n < Wrap => wild' = wild)
                      /\ at' \in {"crashed", IF platform = "hvf_arm64" THEN "start" ELSE "binary_sregs"}
<1>1. CASE Fail /\ UNCHANGED file
  BY <1>1
<1>2. ASSUME NEW n \in FileSizes, NEW e \in Entries,
             file' = [NoFile EXCEPT !.size = n, !.entry = e],
             \/ Fail
             \/ /\ vm_gpa_to_hva(e, n) /\ mem' = Copied(e, n, "binary", 0)
                /\ CopyTo(e, n, "binary", IF platform = "hvf_arm64" THEN "start" ELSE "binary_sregs")
      PROVE  \/ Fail
             \/ /\ mem' = Copied(e, n, "binary", 0)
                /\ wild' \subseteq wild \cup {"binary"} /\ (e + n < Wrap => wild' = wild)
                /\ at' \in {"crashed", IF platform = "hvf_arm64" THEN "start" ELSE "binary_sregs"}
  <2>1. n \in Address /\ e \in Address
    BY InputsAssumption, LayoutFacts DEF Address
  <2>2. e + n < Wrap => (vm_gpa_to_hva(e, n) <=> Inside(e, n))
    BY <2>1, MappedInside
  <2> DEFINE next == IF platform = "hvf_arm64" THEN "start" ELSE "binary_sregs"
  <2>3. Fail \/ (/\ vm_gpa_to_hva(e, n) /\ mem' = Copied(e, n, "binary", 0)
                 /\ CopyTo(e, n, "binary", next))
    BY <1>2
  <2> HIDE DEF next
  <2>4. \/ Fail
        \/ /\ mem' = Copied(e, n, "binary", 0)
           /\ wild' \subseteq wild \cup {"binary"} /\ (e + n < Wrap => wild' = wild)
           /\ at' \in {"crashed", next}
    BY <2>2, <2>3 DEF CopyTo
  <2>5. QED
    BY <2>4 DEF next
<1>3. QED
  BY <1>1, <1>2 DEF LoadBinary

\* The steps that set registers or start the vCPU change nothing else.
Quiet == UNCHANGED <<inputs, mem, wild>>

\* What a backend's register calls have written when they succeed.
LEMMA RegisterCalls ==
    ASSUME TypeOK
    PROVE  /\ \A out \in hv_set_regs : out.ok => {"rip", "flags"} \subseteq out.names
           /\ platform # "hvf_arm64" => \A out \in hv_set_regs :
                out.ok => {"rip", "rsi", "flags", "gp"} \subseteq out.names
           /\ platform # "hvf_arm64" => \A out \in hv_set_sregs :
                out.ok => {"segments", "cr"} \subseteq out.names
<1>1. platform \in {"kvm", "hvf_x86", "hvf_arm64"}
  BY InputsAssumption DEF TypeOK
<1> DEFINE r == <<"rip", "flags", "gp", "rsi">>
           k == <<"segments", "cr", "dt", "efer">>
           h == <<"segments", "cr">>
<1>2. ASSUME NEW order, NEW S, S = {order[j] : j \in 1 .. Len(order)}, NEW out \in hvf_set(order), out.ok
      PROVE  out.names = S
  <2>1. PICK n \in 0 .. Len(order) : out = [ok |-> n = Len(order), names |-> {order[j] : j \in 1 .. n}]
    BY <1>2 DEF hvf_set
  <2>2. n = Len(order)
    BY <1>2, <2>1
  <2>3. QED
    BY <1>2, <2>1, <2>2
<1>3. ASSUME NEW order, NEW out \in kvm_set(order), out.ok PROVE out.names = Range(order)
  BY <1>3 DEF kvm_set
<1>4. /\ {"rip", "rsi", "flags", "gp"} \subseteq Range(r) /\ {"segments", "cr"} \subseteq Range(k)
  <2>1. DOMAIN r = 1 .. 4 /\ DOMAIN k = 1 .. 4
    OBVIOUS
  <2>2. /\ r[1] \in Range(r) /\ r[2] \in Range(r) /\ r[3] \in Range(r) /\ r[4] \in Range(r)
        /\ k[1] \in Range(k) /\ k[2] \in Range(k)
    BY <2>1 DEF Range
  <2>3. QED
    BY <2>2
<1>5. /\ {"rip", "rsi", "flags", "gp"} \subseteq {r[j] : j \in 1 .. Len(r)}
      /\ {"segments", "cr"} \subseteq {h[j] : j \in 1 .. Len(h)}
  <2>1. Len(r) = 4 /\ Len(h) = 2
    OBVIOUS
  <2>2. /\ r[1] \in {r[j] : j \in 1 .. Len(r)} /\ r[2] \in {r[j] : j \in 1 .. Len(r)}
        /\ r[3] \in {r[j] : j \in 1 .. Len(r)} /\ r[4] \in {r[j] : j \in 1 .. Len(r)}
        /\ h[1] \in {h[j] : j \in 1 .. Len(h)} /\ h[2] \in {h[j] : j \in 1 .. Len(h)}
    BY <2>1
  <2>3. QED
    BY <2>2
<1>6. CASE platform = "kvm"
  <2>1. hv_set_regs = kvm_set(r) /\ hv_set_sregs = kvm_set(k)
    BY <1>6 DEF hv_set_regs, hv_set_sregs
  <2> HIDE DEF r, k
  <2>2. QED
    BY <1>3, <1>4, <2>1
<1>7. CASE platform = "hvf_x86"
  <2>1. hv_set_regs = hvf_set(r) /\ hv_set_sregs = hvf_set(h)
    BY <1>7 DEF hv_set_regs, hv_set_sregs
  <2> HIDE DEF r, h
  <2>2. \A out \in hv_set_regs : out.ok => out.names = {r[j] : j \in 1 .. Len(r)}
    BY <1>2, <2>1
  <2>3. \A out \in hv_set_sregs : out.ok => out.names = {h[j] : j \in 1 .. Len(h)}
    BY <1>2, <2>1
  <2>4. QED
    BY <1>5, <2>2, <2>3
<1>8. CASE platform = "hvf_arm64"
  <2>1. hv_set_regs = hvf_arm64_set_regs
    BY <1>8 DEF hv_set_regs
  <2>2. QED
    BY <1>8, <2>1 DEF hvf_arm64_set_regs
<1>9. QED
  BY <1>1, <1>6, <1>7, <1>8

-----------------------------------------------------------------------------
(* Types and paths.                                                         *)

\* The actions that set registers or start the vCPU change nothing else.
LEMMA QuietSteps ==
    ASSUME TypeOK, setup_vcpu_regs \/ BinaryRegs \/ StartVcpu \/ EnterGuest
    PROVE  /\ Quiet /\ at' \in Labels /\ at' \notin {"ram", "bzimage", "binary"}
           /\ regs' \in [Registers -> {"reset", "linux", "raw"}]
<1>1. \A S : /\ [r \in Registers |-> IF r \in S THEN "linux" ELSE regs[r]]
                  \in [Registers -> {"reset", "linux", "raw"}]
             /\ [r \in Registers |-> IF r \in S THEN "raw" ELSE regs[r]]
                  \in [Registers -> {"reset", "linux", "raw"}]
  BY DEF TypeOK
<1> USE DEF Quiet, Labels, Linux, SetTo, SetChecked
<1>2. CASE setup_vcpu_regs
  BY <1>1, <1>2 DEF setup_vcpu_regs, TypeOK
<1>3. CASE BinaryRegs
  BY <1>1, <1>3 DEF BinaryRegs
<1>4. CASE StartVcpu
  BY <1>4 DEF StartVcpu, TypeOK
<1>5. CASE EnterGuest
  BY <1>1, <1>5 DEF EnterGuest, TypeOK
<1>6. QED
  BY <1>2, <1>3, <1>4, <1>5

\* Every step keeps the types.
LEMMA TypeStep == TypeOK /\ PathInv /\ [Next]_vars => TypeOK'
<1> SUFFICES ASSUME TypeOK, PathInv, [Next]_vars PROVE TypeOK'
  OBVIOUS
<1>A. 0 \in Address /\ Word - 1 \in Address
  BY LayoutFacts DEF Address
<1>T. Tagged(mem) /\ DOMAIN mem = 0 .. ram - 1
  BY DEF TypeOK, Tagged
<1>C. ASSUME ram' = ram, platform' = platform, regs' = regs, at' \in Labels,
             DOMAIN mem' = DOMAIN mem, Tagged(mem'),
             file' \in [size : Address, sects : 0 .. MaxSects, code32 : 0 .. Word - 1, entry : Address],
             initrd' \in {-1} \cup Address, cmdline' \in Address,
             wild' \subseteq wild \cup {"header", "setup", "kernel", "initrd", "cmdline", "binary"}
      PROVE  TypeOK'
  <2>1. wild' \subseteq {"header", "setup", "kernel", "initrd", "cmdline", "binary"}
    BY <1>C DEF TypeOK
  <2>2. QED
    BY <1>C, <2>1 DEF TypeOK, Tagged
<1>L. {"failed", "crashed"} \cup Linux \cup {"start", "binary_sregs"} \subseteq Labels
  BY DEF Labels, Linux
<1>F. ASSUME Fail PROVE /\ at' \in Labels /\ DOMAIN mem' = DOMAIN mem /\ wild' = wild /\ Tagged(mem')
  BY <1>F, <1>L, <1>T DEF Fail
<1>1. CASE AddRam
  <2>1. PICK m \in MemSizes : ram' = IF m < RamCap THEN m ELSE RamCap
    BY <1>1 DEF AddRam
  <2>2. ram' \in 0 .. RamCap
    BY <2>1, InputsAssumption, LayoutFacts
  <2>3. mem' = [a \in 0 .. ram' - 1 |-> <<"zero", 0>>]
    BY <1>1 DEF AddRam
  <2>4. at' \in Labels
    BY <1>1 DEF AddRam, Labels, Linux
  <2>5. DOMAIN mem' = 0 .. ram' - 1 /\ \A a \in DOMAIN mem' : mem'[a][2] \in Contents(mem'[a][1])
    BY <1>A, <2>3, ContentsFacts
  <2>6. QED
    BY <1>1, <2>2, <2>4, <2>5 DEF AddRam, TypeOK
<1>2. CASE load_bzimage
  <2>1. /\ ram' = ram /\ platform' = platform /\ regs' = regs /\ initrd' = initrd /\ cmdline' = cmdline
    BY <1>2 DEF load_bzimage
  <2>2. CASE Fail /\ UNCHANGED file
    BY <1>C, <1>F, <2>1, <2>2 DEF TypeOK
  <2>3. CASE ~(Fail /\ UNCHANGED file)
    <3>1. PICK n \in FileSizes, s \in 0 .. MaxSects, c \in Code32 :
             /\ file' = [size |-> n, sects |-> s, code32 |-> c, entry |-> 0]
             /\ at' \in {"failed", "crashed", "initrd"}
             /\ DOMAIN mem' = DOMAIN mem /\ Tagged(mem')
             /\ wild' \subseteq wild \cup {"header", "setup", "kernel"}
      BY <1>2, <2>3, BzImage
    <3>2. file' \in [size : Address, sects : 0 .. MaxSects, code32 : 0 .. Word - 1, entry : Address]
      BY <1>A, <3>1, InputsAssumption DEF Address
    <3>3. at' \in Labels
      BY <3>1 DEF Labels, Linux
    <3>4. initrd' \in {-1} \cup Address /\ cmdline' \in Address
      BY <2>1 DEF TypeOK
    <3>5. QED
      BY <1>C, <2>1, <3>1, <3>2, <3>3, <3>4
  <2>4. QED
    BY <2>2, <2>3
<1>3. CASE load_initrd
  <2>1. /\ ram' = ram /\ platform' = platform /\ regs' = regs /\ file' = file /\ cmdline' = cmdline
    BY <1>3 DEF load_initrd
  <2>2. FileSizes \subseteq Address
    BY InputsAssumption DEF Address
  <2>3. CASE at' = "cmdline" /\ UNCHANGED <<mem, wild, initrd>>
    BY <1>C, <1>T, <2>1, <2>3 DEF TypeOK, Labels, Linux
  <2>4. CASE Fail /\ (initrd' = initrd \/ initrd' \in FileSizes)
    BY <1>C, <1>F, <2>1, <2>2, <2>4 DEF TypeOK
  <2>5. ASSUME NEW n \in FileSizes, initrd' = n,
               mem' = Announce(Copied(InitrdAt(ram, n), n, "initrd", 0), InitrdAt(ram, n), n),
               at' \in {"cmdline", "crashed"}, wild' \subseteq wild \cup {"initrd"}
        PROVE  TypeOK'
    <3> DEFINE addr == InitrdAt(ram, n)
               m == Copied(addr, n, "initrd", 0)
    <3>1. n \in Address /\ ram \in 0 .. RamCap
      BY <2>2 DEF TypeOK
    <3>2. addr \in Address
      BY <3>1, InitrdPlace
    <3> HIDE DEF addr
    <3>3. DOMAIN m = DOMAIN mem /\ Tagged(m)
      BY <1>A, <3>2, CopiedType
    <3> HIDE DEF m
    <3>4. Low32(addr) \in Contents("ramdisk_image") /\ Low32(n) \in Contents("ramdisk_size")
      <4>1. Contents("ramdisk_image") = 0 .. Word - 1 /\ Contents("ramdisk_size") = 0 .. Word - 1
        BY ContentsFacts DEF Fields
      <4>2. addr \in Nat /\ n \in Nat
        BY <3>1, <3>2 DEF Address
      <4>3. Low32(addr) \in 0 .. Word - 1 /\ Low32(n) \in 0 .. Word - 1
        BY <4>2, Low32Facts
      <4>4. QED
        BY <4>1, <4>3
    <3>5. mem' = Store(Store(m, "ramdisk_image", Low32(addr)), "ramdisk_size", Low32(n))
      BY <2>5, Zenon DEF Announce, addr, m
    <3>6. DOMAIN mem' = DOMAIN mem /\ Tagged(mem')
      <4> DEFINE m1 == Store(m, "ramdisk_image", Low32(addr))
      <4>1. DOMAIN m1 = DOMAIN mem /\ Tagged(m1)
        BY <3>3, <3>4, StoreType
      <4> HIDE DEF m1
      <4>2. DOMAIN Store(m1, "ramdisk_size", Low32(n)) = DOMAIN m1
            /\ Tagged(Store(m1, "ramdisk_size", Low32(n)))
        BY <3>4, <4>1, StoreType
      <4>3. QED
        BY <3>5, <4>1, <4>2 DEF m1
    <3>7. at' \in Labels
      BY <2>5 DEF Labels, Linux
    <3>8. QED
      BY <1>C, <2>1, <2>5, <3>1, <3>6, <3>7 DEF TypeOK
  <2>6. QED
    BY <1>3, <2>3, <2>4, <2>5, Initrd
<1>4. CASE setup_cmdline
  <2>1. /\ ram' = ram /\ platform' = platform /\ regs' = regs /\ file' = file /\ initrd' = initrd
    BY <1>4 DEF setup_cmdline
  <2>2. CmdSizes \subseteq Address /\ CmdlineAt \in Address
    BY InputsAssumption, LayoutFacts DEF Address
  <2>3. CASE at' = "e820" /\ UNCHANGED <<mem, wild, cmdline>>
    BY <1>C, <1>T, <2>1, <2>3 DEF TypeOK, Labels, Linux
  <2>4. CASE Fail /\ cmdline' \in CmdSizes
    BY <1>C, <1>F, <2>1, <2>2, <2>4 DEF TypeOK
  <2>5. CASE /\ cmdline' \in CmdSizes /\ wild' = wild /\ at' = "e820"
             /\ mem' = Store(Copied(CmdlineAt, cmdline', "cmdline", 0), "cmd_line_ptr", CmdlineAt)
    <3> DEFINE m == Copied(CmdlineAt, cmdline', "cmdline", 0)
    <3>1. DOMAIN m = DOMAIN mem /\ Tagged(m)
      BY <1>A, <2>2, CopiedType
    <3> HIDE DEF m
    <3>2. CmdlineAt \in Contents("cmd_line_ptr")
      <4>1. Contents("cmd_line_ptr") = 0 .. Word - 1
        BY ContentsFacts DEF Fields
      <4>2. QED
        BY <4>1, LayoutFacts
    <3>3. DOMAIN mem' = DOMAIN mem /\ Tagged(mem')
      BY <2>5, <3>1, <3>2, StoreType DEF m
    <3>4. at' \in Labels
      BY <2>5 DEF Labels, Linux
    <3>5. QED
      BY <1>C, <2>1, <2>2, <2>5, <3>3, <3>4 DEF TypeOK
  <2>6. QED
    BY <1>4, <2>3, <2>4, <2>5, Cmdline
<1>5. CASE setup_e820
  <2>1. /\ ram' = ram /\ platform' = platform /\ regs' = regs /\ file' = file /\ initrd' = initrd
        /\ cmdline' = cmdline
    BY <1>5 DEF setup_e820, inputs
  <2>2. CASE Fail
    BY <1>C, <1>F, <2>1, <2>2 DEF TypeOK
  <2>3. CASE ~Fail
    <3>1. /\ mem' = Store(Store(mem, "e820", Map820), "e820_entries", 3)
          /\ at' = "regs" /\ UNCHANGED wild
      BY <1>5, <2>3 DEF setup_e820
    <3>2. Map820 \in Contents("e820") /\ 3 \in Contents("e820_entries")
      <4>1. Contents("e820") = E820Map /\ Contents("e820_entries") = 0 .. Word - 1
        BY ContentsFacts DEF Fields
      <4>2. 3 \in 0 .. Word - 1
        BY LayoutFacts
      <4>3. QED
        BY <4>1, <4>2, Map820Type
    <3> DEFINE m == Store(mem, "e820", Map820)
    <3>3. DOMAIN m = DOMAIN mem /\ Tagged(m)
      BY <1>T, <3>2, StoreType
    <3> HIDE DEF m
    <3>4. DOMAIN mem' = DOMAIN mem /\ Tagged(mem')
      BY <3>1, <3>2, <3>3, StoreType DEF m
    <3>5. at' \in Labels
      BY <3>1 DEF Labels, Linux
    <3>6. QED
      BY <1>C, <2>1, <3>1, <3>4, <3>5 DEF TypeOK
  <2>4. QED
    BY <2>2, <2>3
<1>6. CASE LoadBinary
  <2>1. /\ ram' = ram /\ platform' = platform /\ regs' = regs /\ initrd' = initrd /\ cmdline' = cmdline
    BY <1>6 DEF LoadBinary
  <2>2. CASE Fail /\ UNCHANGED file
    BY <1>C, <1>F, <2>1, <2>2 DEF TypeOK
  <2>3. CASE ~(Fail /\ UNCHANGED file)
    <3>1. PICK n \in FileSizes, e \in Entries :
             /\ file' = [NoFile EXCEPT !.size = n, !.entry = e]
             /\ \/ Fail
                \/ /\ mem' = Copied(e, n, "binary", 0)
                   /\ wild' \subseteq wild \cup {"binary"}
                   /\ at' \in {"crashed", IF platform = "hvf_arm64" THEN "start" ELSE "binary_sregs"}
      BY <1>6, <2>3, Binary
    <3>2. n \in Address /\ e \in Address
      BY InputsAssumption, LayoutFacts DEF Address
    <3>3. file' \in [size : Address, sects : 0 .. MaxSects, code32 : 0 .. Word - 1, entry : Address]
      <4>1. file' = [size |-> n, sects |-> 0, code32 |-> 0, entry |-> e]
        BY <3>1 DEF NoFile
      <4>2. 0 \in 0 .. MaxSects /\ 0 \in 0 .. Word - 1
        BY LayoutFacts
      <4>3. QED
        BY <3>2, <4>1, <4>2
    <3>4. DOMAIN mem' = DOMAIN mem /\ Tagged(mem')
      BY <1>A, <1>F, <3>1, <3>2, CopiedType
    <3>5. at' \in Labels
      BY <1>F, <3>1 DEF TypeOK, Labels, Linux
    <3>6. wild' \subseteq wild \cup {"binary"}
      BY <1>F, <3>1
    <3>7. QED
      BY <1>C, <2>1, <3>3, <3>4, <3>5, <3>6 DEF TypeOK
  <2>4. QED
    BY <2>2, <2>3
<1>7. CASE setup_vcpu_regs \/ BinaryRegs \/ StartVcpu \/ EnterGuest
  <2>1. /\ UNCHANGED <<platform, ram, file, initrd, cmdline, mem, wild>> /\ at' \in Labels
        /\ regs' \in [Registers -> {"reset", "linux", "raw"}]
    BY <1>7, QuietSteps DEF Quiet, inputs
  <2>2. QED
    BY <2>1 DEF TypeOK
<1>8. CASE UNCHANGED vars
  BY <1>8 DEF vars, TypeOK
<1>9. QED
  BY <1>1, <1>2, <1>3, <1>4, <1>5, <1>6, <1>7, <1>8 DEF Next, Done

\* Every step keeps to the path of its loader.
LEMMA PathStep == TypeOK /\ PathInv /\ [Next]_vars => PathInv'
<1> SUFFICES ASSUME TypeOK, PathInv, [Next]_vars PROVE PathInv'
  OBVIOUS
<1> USE DEF PathInv, Placed
<1>1. CASE AddRam
  BY <1>1 DEF AddRam
<1>2. CASE load_bzimage
  <2>1. CASE Fail /\ UNCHANGED file
    BY <1>2, <2>1 DEF load_bzimage, Fail
  <2>2. CASE ~(Fail /\ UNCHANGED file)
    <3>1. file'.entry = 0 /\ at' \in {"failed", "crashed", "initrd"}
      BY <1>2, <2>2, BzImage
    <3>2. at = "bzimage" /\ initrd' = initrd /\ cmdline' = cmdline
      BY <1>2 DEF load_bzimage
    <3>3. QED
      BY <3>1, <3>2
  <2>3. QED
    BY <2>1, <2>2
<1>3. CASE load_initrd
  <2>1. at' \in {"cmdline", "crashed", "failed"} /\ at = "initrd" /\ cmdline' = cmdline /\ file' = file
    BY <1>3, Initrd DEF load_initrd, Fail
  <2>2. QED
    BY <2>1
<1>4. CASE setup_cmdline
  <2>1. at' \in {"e820", "failed"} /\ at = "cmdline" /\ file' = file
    BY <1>4, Cmdline DEF setup_cmdline, Fail
  <2>2. QED
    BY <2>1
<1>5. CASE setup_e820
  BY <1>5 DEF setup_e820, inputs, Fail
<1>6. CASE setup_vcpu_regs
  <2>1. UNCHANGED inputs /\ at' \in {"crashed", "sregs", "start", "failed"} /\ at \in {"regs", "sregs"}
    BY <1>6 DEF setup_vcpu_regs, SetChecked
  <2>2. QED
    BY <2>1 DEF inputs
<1>7. CASE LoadBinary
  <2>1. CASE Fail
    BY <2>1 DEF Fail
  <2>2. CASE ~Fail
    <3> HIDE DEF PathInv, Placed
    <3>1. PICK n \in FileSizes, e \in Entries :
             /\ file' = [NoFile EXCEPT !.size = n, !.entry = e]
             /\ at' \in {"crashed", IF platform = "hvf_arm64" THEN "start" ELSE "binary_sregs"}
      BY <1>7, <2>2, Binary
    <3>2. file'.entry # 0
      BY <3>1, InputsAssumption DEF NoFile
    <3>3. platform' = platform
      BY <1>7 DEF LoadBinary
    <3> USE DEF PathInv, Placed
    <3>4. QED
      BY <3>1, <3>2, <3>3
  <2>3. QED
    BY <2>1, <2>2
<1>8. CASE BinaryRegs
  <2>1. UNCHANGED inputs /\ at' \in {"binary_regs", "start"} /\ at \in {"binary_sregs", "binary_regs"}
    BY <1>8 DEF BinaryRegs
  <2>2. QED
    BY <2>1 DEF inputs
<1>9. CASE StartVcpu
  BY <1>9 DEF StartVcpu
<1>10. CASE EnterGuest
  <2>1. at' \in {"guest", "dead"}
    BY <1>10 DEF EnterGuest
  <2>2. QED
    BY <2>1
<1>11. CASE UNCHANGED vars
  BY <1>11 DEF vars
<1>12. QED
  BY <1>1, <1>2, <1>3, <1>4, <1>5, <1>6, <1>7, <1>8, <1>9, <1>10, <1>11 DEF Next, Done

-----------------------------------------------------------------------------
(* Where the copies go.                                                     *)

\* Every step keeps the copies inside guest memory and inside their buffers,
\* but for the inputs that are not tested.
LEMMA CopiesStep == TypeOK /\ PathInv /\ CopiesInside /\ [Next]_vars => CopiesInside'
<1> SUFFICES ASSUME TypeOK, PathInv, CopiesInside, [Next]_vars PROVE CopiesInside'
  OBVIOUS
<1>K. ASSUME UNCHANGED <<file, ram, wild, initrd>> PROVE CopiesInside'
  BY <1>K DEF CopiesInside, Untested, SetupSize
<1>1. CASE AddRam
  BY <1>1 DEF AddRam, PathInv, CopiesInside
<1>2. CASE load_bzimage
  <2>1. wild = {}
    BY <1>2 DEF load_bzimage, PathInv
  <2>2. CASE Fail /\ UNCHANGED file
    BY <2>1, <2>2 DEF Fail, CopiesInside
  <2>3. CASE ~(Fail /\ UNCHANGED file)
    <3>1. PICK n \in FileSizes, s \in 0 .. MaxSects, c \in Code32 :
             /\ file' = [size |-> n, sects |-> s, code32 |-> c, entry |-> 0]
             /\ wild' # wild => n < (s + 1) * Sector \/ n < HeaderEnd
      BY <1>2, <2>3, BzImage
    <3>2. /\ file'.size = n /\ SetupSize' = (s + 1) * Sector /\ file'.entry = 0
      BY <3>1 DEF SetupSize
    <3>3. QED
      BY <2>1, <3>1, <3>2 DEF CopiesInside, Untested
  <2>4. QED
    BY <2>2, <2>3
<1>3. CASE load_initrd
  <2>1. initrd = -1 /\ UNCHANGED <<ram, file>> /\ ram \in Nat
    BY <1>3 DEF load_initrd, PathInv, TypeOK
  <2>2. Untested => Untested'
    <3>1. ~(initrd > ram)
      BY <2>1
    <3>2. QED
      BY <2>1, <3>1 DEF Untested, SetupSize
  <2>3. wild' = wild \/ initrd' > ram'
    <3>1. CASE ~(wild' = wild)
      <4>1. PICK n \in FileSizes : initrd' = n /\ ~(n <= ram)
        BY <1>3, <3>1, Initrd DEF Fail
      <4>2. n \in Nat
        BY InputsAssumption
      <4>3. QED
        BY <2>1, <4>1, <4>2
    <3>2. QED
      BY <3>1
  <2>4. QED
    BY <2>2, <2>3 DEF CopiesInside, Untested
<1>4. CASE setup_cmdline
  <2>1. wild' = wild /\ UNCHANGED <<file, ram, initrd>>
    BY <1>4, Cmdline DEF setup_cmdline, Fail
  <2>2. QED
    BY <1>K, <2>1
<1>5. CASE setup_e820
  BY <1>5, <1>K DEF setup_e820, Fail, inputs
<1>6. CASE setup_vcpu_regs \/ BinaryRegs \/ StartVcpu \/ EnterGuest
  BY <1>6, <1>K, QuietSteps DEF Quiet, inputs
<1>7. CASE LoadBinary
  <2>1. wild = {}
    BY <1>7 DEF LoadBinary, PathInv
  <2>2. CASE Fail
    BY <2>1, <2>2 DEF Fail, CopiesInside
  <2>3. CASE ~Fail
    <3>1. PICK n \in FileSizes, e \in Entries :
             /\ file' = [NoFile EXCEPT !.size = n, !.entry = e]
             /\ e + n < Wrap => wild' = wild
      BY <1>7, <2>3, Binary
    <3>2. file'.size = n /\ file'.entry = e /\ n \in Nat /\ e \in Nat
      BY <3>1, InputsAssumption DEF NoFile
    <3>3. QED
      BY <2>1, <3>1, <3>2, LayoutFacts DEF CopiesInside, Untested
  <2>4. QED
    BY <2>2, <2>3
<1>8. CASE UNCHANGED vars
  BY <1>8, <1>K DEF vars
<1>9. QED
  BY <1>1, <1>2, <1>3, <1>4, <1>5, <1>6, <1>7, <1>8 DEF Next, Done

\* Every step keeps a kernel that was placed inside guest memory.
LEMMA KernelStep == TypeOK /\ PathInv /\ KernelInv /\ [Next]_vars => KernelInv'
<1> SUFFICES ASSUME TypeOK, PathInv, KernelInv, [Next]_vars PROVE KernelInv'
  OBVIOUS
<1>K. ASSUME UNCHANGED <<file, ram>>, Loaded' => Loaded PROVE KernelInv'
  BY <1>K DEF KernelInv, SetupSize, LoadedAt
<1> USE DEF Loaded, Placed, Started
<1>1. CASE AddRam
  BY <1>1 DEF AddRam, KernelInv
<1>2. CASE load_bzimage
  <2>1. CASE Fail /\ UNCHANGED file
    BY <2>1 DEF Fail, KernelInv
  <2>2. CASE ~(Fail /\ UNCHANGED file)
    <3>1. PICK n \in FileSizes, s \in 0 .. MaxSects, c \in Code32 :
             LET w == (s + 1) * Sector
                 to == IF c = 0 THEN KernelAt ELSE c
             IN /\ file' = [size |-> n, sects |-> s, code32 |-> c, entry |-> 0]
                /\ at' \in {"failed", "crashed", "initrd"}
                /\ at' = "initrd" => w <= n /\ ParamsAt + w <= ram /\ to + (n - w) <= ram
      BY <1>2, <2>2, BzImage
    <3> DEFINE w == (s + 1) * Sector
               to == IF c = 0 THEN KernelAt ELSE c
    <3>2. SetupSize' = w /\ LoadedAt' = to /\ file'.size = n
      BY <3>1 DEF SetupSize, LoadedAt
    <3>3. ram' = ram
      BY <1>2 DEF load_bzimage
    <3>4. /\ at' \in {"failed", "crashed", "initrd"}
          /\ at' = "initrd" => w <= n /\ ParamsAt + w <= ram /\ to + (n - w) <= ram
      BY <3>1
    <3> HIDE DEF w, to
    <3>5. QED
      BY <3>2, <3>3, <3>4 DEF KernelInv
  <2>3. QED
    BY <2>1, <2>2
<1>3. CASE load_initrd
  BY <1>3, <1>K DEF load_initrd, PathInv
<1>4. CASE setup_cmdline
  BY <1>4, <1>K DEF setup_cmdline, PathInv
<1>5. CASE setup_e820
  BY <1>5, <1>K DEF setup_e820, PathInv, inputs
<1>6. CASE setup_vcpu_regs
  BY <1>6, <1>K DEF setup_vcpu_regs, PathInv, inputs
<1>7. CASE LoadBinary
  <2>1. CASE Fail
    BY <2>1 DEF Fail, KernelInv
  <2>2. CASE ~Fail
    <3>1. PICK n \in FileSizes, e \in Entries : file' = [NoFile EXCEPT !.size = n, !.entry = e]
      BY <1>7, <2>2, Binary
    <3>2. file'.entry # 0
      BY <3>1, InputsAssumption DEF NoFile
    <3>3. QED
      BY <3>2 DEF KernelInv
  <2>3. QED
    BY <2>1, <2>2
<1>8. CASE BinaryRegs
  BY <1>8, <1>K DEF BinaryRegs, PathInv, inputs
<1>9. CASE StartVcpu
  BY <1>9, <1>K DEF StartVcpu, inputs
<1>10. CASE EnterGuest
  BY <1>10, <1>K DEF EnterGuest, inputs
<1>11. CASE UNCHANGED vars
  BY <1>11, <1>K DEF vars
<1>12. QED
  BY <1>1, <1>2, <1>3, <1>4, <1>5, <1>6, <1>7, <1>8, <1>9, <1>10, <1>11 DEF Next, Done

-----------------------------------------------------------------------------
(* What the guest finds.                                                    *)

\* Two layouts with the same files and memory are equally disjoint.
LEMMA SameLayout ==
    ASSUME UNCHANGED <<file, ram, initrd, cmdline>>
    PROVE  /\ SetupSize' = SetupSize /\ LoadedAt' = LoadedAt
           /\ Untested' <=> Untested
           /\ Disjoint' <=> Disjoint
           /\ Written' = Written
BY DEF SetupSize, LoadedAt, Untested, Disjoint, Written

\* The kernel and its setup part are whole when both have been copied: the
\* second copy starts behind the first.
LEMMA ImageHolds ==
    ASSUME TypeOK, NEW w \in Nat, NEW b \in Nat, ParamsAt + w <= KernelAt,
           ParamsAt + w <= ram, KernelAt + b <= ram
    PROVE  /\ SetupHolds(ImageIn(w, KernelAt, b), w, {})
           /\ Holds(ImageIn(w, KernelAt, b), KernelAt, b, "image", w)
<1> DEFINE m == ImageIn(w, KernelAt, b)
<1>1. DOMAIN m = 0 .. ram - 1 /\ ram \in Nat /\ ParamsAt \in Nat /\ KernelAt \in Nat
  BY LayoutFacts DEF ImageIn, TypeOK
<1>2. ASSUME NEW a \in 0 .. ram - 1
      PROVE  m[a] = IF KernelAt <= a /\ a < KernelAt + b THEN <<"image", w + (a - KernelAt)>>
                    ELSE IF ParamsAt <= a /\ a < ParamsAt + w THEN <<"image", a - ParamsAt>> ELSE mem[a]
  BY DEF ImageIn, TypeOK
<1> HIDE DEF m
<1>3. ASSUME NEW k \in 0 .. w - 1
      PROVE  ParamsAt + k \in DOMAIN m /\ m[ParamsAt + k] = <<"image", k>>
  <2>1. /\ ParamsAt + k \in 0 .. ram - 1 /\ ~(KernelAt <= ParamsAt + k)
        /\ ParamsAt <= ParamsAt + k /\ ParamsAt + k < ParamsAt + w /\ (ParamsAt + k) - ParamsAt = k
    BY <1>1
  <2>2. m[ParamsAt + k] = <<"image", (ParamsAt + k) - ParamsAt>>
    BY <1>2, <2>1
  <2>3. QED
    BY <1>1, <2>1, <2>2
<1>4. ASSUME NEW k \in 0 .. b - 1
      PROVE  KernelAt + k \in DOMAIN m /\ m[KernelAt + k] = <<"image", w + k>>
  <2>1. /\ KernelAt + k \in 0 .. ram - 1 /\ KernelAt <= KernelAt + k /\ KernelAt + k < KernelAt + b
        /\ w + ((KernelAt + k) - KernelAt) = w + k
    BY <1>1
  <2>2. m[KernelAt + k] = <<"image", w + ((KernelAt + k) - KernelAt)>>
    BY <1>2, <2>1
  <2>3. QED
    BY <1>1, <2>1, <2>2
<1>5. QED
  BY <1>3, <1>4 DEF Holds, SetupHolds, m

\* A store to a field that nothing was announced in leaves what was found.
LEMMA FoundStore ==
    ASSUME NEW m, NEW f \in Fields, NEW v, NEW s \in Nat, NEW b \in Nat, NEW i \in {-1} \cup Nat,
           NEW addr, NEW c \in Nat, NEW W, f \in W, Found(m, s, b, i, addr, c, W),
           i # -1 => /\ addr \in Nat /\ CmdlineAt <= addr
                     /\ f # "ramdisk_size" /\ f # "ramdisk_image",
           c > 0 => f # "cmd_line_ptr"
    PROVE  Found(Store(m, f, v), s, b, i, addr, c, W)
<1>1. SetupHolds(Store(m, f, v), s, W)
  BY StoreSetup DEF Found
<1>2. Holds(Store(m, f, v), KernelAt, b, "image", s)
  <2>1. Holds(m, KernelAt, b, "image", s) /\ KernelAt \in Nat /\ CmdlineAt <= KernelAt
    BY LayoutFacts DEF Found
  <2>2. QED
    BY <2>1, StoreHolds
<1>3. ASSUME i # -1
      PROVE  /\ FieldHolds(Store(m, f, v), "ramdisk_size", i)
             /\ FieldHolds(Store(m, f, v), "ramdisk_image", addr)
             /\ Holds(Store(m, f, v), addr, i, "initrd", 0)
  <2>1. /\ FieldHolds(m, "ramdisk_size", i) /\ FieldHolds(m, "ramdisk_image", addr)
        /\ Holds(m, addr, i, "initrd", 0) /\ i \in Nat /\ 0 \in Nat
    BY <1>3 DEF Found
  <2>2. "ramdisk_size" \in Fields /\ "ramdisk_image" \in Fields
    BY DEF Fields
  <2>3. Holds(Store(m, f, v), addr, i, "initrd", 0)
    BY <1>3, <2>1, StoreHolds
  <2>4. FieldHolds(Store(m, f, v), "ramdisk_size", i)
    BY <1>3, <2>1, <2>2, StoreOther
  <2>5. FieldHolds(Store(m, f, v), "ramdisk_image", addr)
    BY <1>3, <2>1, <2>2, StoreOther
  <2>6. QED
    BY <2>3, <2>4, <2>5
<1>4. ASSUME c > 0
      PROVE  /\ FieldHolds(Store(m, f, v), "cmd_line_ptr", CmdlineAt)
             /\ Holds(Store(m, f, v), CmdlineAt, c, "cmdline", 0)
  <2>1. /\ FieldHolds(m, "cmd_line_ptr", CmdlineAt) /\ Holds(m, CmdlineAt, c, "cmdline", 0)
        /\ CmdlineAt \in Nat /\ 0 \in Nat /\ CmdlineAt <= CmdlineAt
    BY <1>4, LayoutFacts DEF Found
  <2>2. "cmd_line_ptr" \in Fields
    BY DEF Fields
  <2>3. Holds(Store(m, f, v), CmdlineAt, c, "cmdline", 0)
    BY <2>1, StoreHolds
  <2>4. FieldHolds(Store(m, f, v), "cmd_line_ptr", CmdlineAt)
    BY <1>4, <2>1, <2>2, StoreOther
  <2>5. QED
    BY <2>3, <2>4
<1>5. QED
  BY <1>1, <1>2, <1>3, <1>4 DEF Found

\* A copy to where nothing was placed leaves what was found.
LEMMA FoundCopied ==
    ASSUME TypeOK, NEW gpa \in Address, NEW size \in Nat, NEW part, Inside(gpa, size),
           NEW s \in Nat, NEW b \in Nat, NEW i \in {-1} \cup Nat, NEW addr, NEW W,
           Found(mem, s, b, i, addr, 0, W), CmdlineAt <= gpa, ParamsAt + s <= CmdlineAt,
           KernelAt + b <= gpa \/ gpa + size <= KernelAt,
           i # -1 => addr \in Nat /\ gpa + size <= addr
    PROVE  Found(Copied(gpa, size, part, 0), s, b, i, addr, 0, W)
<1> DEFINE m == Copied(gpa, size, part, 0)
<1>1. SetupHolds(m, s, W)
  BY CopyAbove DEF Found
<1>2. Holds(m, KernelAt, b, "image", s)
  <2>1. Holds(mem, KernelAt, b, "image", s) /\ KernelAt \in Nat
    BY LayoutFacts DEF Found
  <2>2. QED
    BY <2>1, HoldsKept
<1>3. ASSUME i # -1
      PROVE  /\ FieldHolds(m, "ramdisk_size", i) /\ FieldHolds(m, "ramdisk_image", addr)
             /\ Holds(m, addr, i, "initrd", 0)
  <2>1. /\ FieldHolds(mem, "ramdisk_size", i) /\ FieldHolds(mem, "ramdisk_image", addr)
        /\ Holds(mem, addr, i, "initrd", 0) /\ i \in Nat /\ 0 \in Nat
    BY <1>3 DEF Found
  <2>2. "ramdisk_size" \in Fields /\ "ramdisk_image" \in Fields
    BY DEF Fields
  <2>3. Holds(m, addr, i, "initrd", 0)
    BY <1>3, <2>1, HoldsKept
  <2>4. FieldHolds(m, "ramdisk_size", i) /\ FieldHolds(m, "ramdisk_image", addr)
    BY <2>1, <2>2, CopyAbove
  <2>5. QED
    BY <2>3, <2>4
<1>4. QED
  BY <1>1, <1>2, <1>3 DEF Found

\* With a kernel at its usual place, the boot parameters lie in guest memory.
LEMMA SlotsInside ==
    ASSUME TypeOK, KernelInv, Loaded, LoadedAt = KernelAt, NEW f \in Fields
    PROVE  Slot(f) \subseteq DOMAIN mem
<1>1. SetupSize \in Nat /\ file.size \in Nat /\ ram \in Nat
  <2>1. file.sects \in 0 .. MaxSects /\ file.size \in Nat /\ ram \in Nat
    BY DEF TypeOK, Address
  <2>2. QED
    BY <2>1, SetupBound, LayoutFacts DEF SetupSize
<1>2. KernelAt <= ram
  BY <1>1, LayoutFacts DEF KernelInv
<1>3. \A a \in Slot(f) : a \in Nat /\ a < CmdlineAt
  BY SlotFacts
<1>4. \A a \in Slot(f) : a \in 0 .. ram - 1
  BY <1>1, <1>2, <1>3, LayoutFacts
<1>5. QED
  BY <1>4 DEF TypeOK

\* Every step keeps what the loaders have placed and announced.
LEMMA HandoverStep ==
    TypeOK /\ PathInv /\ KernelInv /\ HandoverInv /\ [Next]_vars => HandoverInv'
<1> SUFFICES ASSUME TypeOK, PathInv, KernelInv, HandoverInv, [Next]_vars PROVE HandoverInv'
  OBVIOUS
<1> DEFINE b == file.size - SetupSize
<1>K. ASSUME UNCHANGED <<file, ram, initrd, cmdline, mem>>, Loaded' => Loaded PROVE HandoverInv'
  <2>1. /\ SetupSize' = SetupSize /\ Written' = Written
        /\ (Loaded /\ ~Untested /\ Disjoint)' => Loaded /\ ~Untested /\ Disjoint
    BY <1>K, SameLayout
  <2>2. InitrdAt(ram, initrd)' = InitrdAt(ram, initrd)
    BY <1>K
  <2>3. QED
    BY <1>K, <2>1, <2>2 DEF HandoverInv
<1>F. ASSUME ~Loaded' PROVE HandoverInv'
  BY <1>F DEF HandoverInv
<1>S. SetupSize \in Nat
  <2>1. file.sects \in 0 .. MaxSects
    BY DEF TypeOK
  <2>2. QED
    BY <2>1, SetupBound, LayoutFacts DEF SetupSize
<1>B. Loaded => b \in Nat
  <2>1. file.size \in Nat
    BY DEF TypeOK, Address
  <2>2. QED
    BY <1>S, <2>1 DEF KernelInv
<1>W. Written \subseteq Fields /\ Written' \subseteq Fields
  BY DEF Written, Fields
<1>1. CASE AddRam
  BY <1>1, <1>F DEF AddRam, Loaded, Placed, Started
<1>2. CASE load_bzimage
  <2>1. CASE Fail /\ UNCHANGED file
    BY <2>1, <1>F DEF Fail, Loaded, Placed, Started
  <2>2. CASE ~(Fail /\ UNCHANGED file)
    <3>1. PICK n \in FileSizes, s \in 0 .. MaxSects, c \in Code32 :
             LET w == (s + 1) * Sector
                 to == IF c = 0 THEN KernelAt ELSE c
             IN /\ file' = [size |-> n, sects |-> s, code32 |-> c, entry |-> 0]
                /\ at' \in {"failed", "crashed", "initrd"}
                /\ at' = "initrd" => /\ w <= n /\ ParamsAt + w <= ram /\ to + (n - w) <= ram
                                     /\ mem' = ImageIn(w, to, n - w)
      BY <1>2, <2>2, BzImage
    <3> DEFINE w == (s + 1) * Sector
               to == IF c = 0 THEN KernelAt ELSE c
    <3>2. SetupSize' = w /\ LoadedAt' = to /\ file'.size = n
      BY <3>1 DEF SetupSize, LoadedAt
    <3>3. /\ at' \in {"failed", "crashed", "initrd"}
          /\ at' = "initrd" => /\ w <= n /\ ParamsAt + w <= ram /\ to + (n - w) <= ram
                               /\ mem' = ImageIn(w, to, n - w)
      BY <3>1
    <3>4. w \in Nat /\ n \in Nat
      BY SetupBound, LayoutFacts, InputsAssumption
    <3>5. initrd' = -1 /\ cmdline' = 0 /\ ram' = ram
      BY <1>2 DEF load_bzimage, PathInv
    <3> HIDE DEF w, to
    <3> SUFFICES ASSUME Loaded', Disjoint' PROVE HandoverInv'
      BY DEF HandoverInv
    <3>6. at' = "initrd" /\ to = KernelAt /\ ParamsAt + w <= CmdlineAt
      BY <3>2, <3>3 DEF Disjoint, Loaded, Placed, Started
    <3>7. w <= n /\ ParamsAt + w <= ram /\ KernelAt + (n - w) <= ram /\ mem' = ImageIn(w, KernelAt, n - w)
      BY <3>3, <3>6
    <3>8. n - w \in Nat /\ ParamsAt + w <= KernelAt
      BY <3>4, <3>6, <3>7, LayoutFacts
    <3>9. SetupHolds(mem', w, {}) /\ Holds(mem', KernelAt, n - w, "image", w)
      BY <3>4, <3>7, <3>8, ImageHolds
    <3>10. SetupHolds(mem', w, Written')
      BY <3>9, SetupMore
    <3>11. \A addr : Found(mem', w, n - w, -1, addr, 0, Written')
      BY <3>9, <3>10 DEF Found
    <3>12. QED
      BY <3>2, <3>5, <3>11 DEF HandoverInv
  <2>3. QED
    BY <2>1, <2>2
<1>3. CASE load_initrd
  <2>1. at = "initrd" /\ initrd = -1 /\ cmdline = 0 /\ UNCHANGED <<file, ram, cmdline>> /\ Loaded
    BY <1>3 DEF load_initrd, PathInv, Loaded, Placed
  <2>2. CASE at' = "cmdline" /\ UNCHANGED <<mem, wild, initrd>>
    BY <1>K, <2>1, <2>2
  <2>3. CASE Fail
    BY <1>F, <2>3 DEF Fail, Loaded, Placed, Started
  <2>4. ASSUME NEW n \in FileSizes, initrd' = n,
               mem' = Announce(Copied(InitrdAt(ram, n), n, "initrd", 0), InitrdAt(ram, n), n),
               n <= ram => Inside(InitrdAt(ram, n), n)
        PROVE  HandoverInv'
    <3> SUFFICES ASSUME ~Untested', Disjoint' PROVE HandoverInv'
      BY DEF HandoverInv
    <3> DEFINE addr == InitrdAt(ram, n)
    <3>1. n \in Nat /\ n \in Address /\ ram \in Nat /\ ram \in 0 .. RamCap /\ n # -1
      BY InputsAssumption DEF TypeOK, Address
    <3>2. n <= ram
      BY <2>1, <2>4, <3>1 DEF Untested
    <3>3. addr \in Address /\ KernelAt <= addr /\ addr < Word /\ addr \in Nat
      BY <3>1, <3>2, InitrdPlace DEF Address
    <3>4. /\ SetupSize' = SetupSize /\ LoadedAt' = LoadedAt
          /\ LoadedAt = KernelAt /\ ParamsAt + SetupSize <= CmdlineAt /\ KernelAt + b <= addr
      <4>1. SetupSize' = SetupSize /\ LoadedAt' = LoadedAt
        BY <2>1 DEF SetupSize, LoadedAt
      <4>2. QED
        BY <2>1, <2>4, <3>1, <4>1 DEF Disjoint
    <3>5. ~Untested
      <4>1. ~(initrd > ram)
        BY <2>1, <3>1
      <4>2. QED
        BY <2>1, <3>4, <4>1 DEF Untested
    <3>6. Disjoint
      BY <2>1, <3>4, LayoutFacts DEF Disjoint
    <3>7. Found(mem, SetupSize, b, -1, addr, 0, Written) /\ b \in Nat
      <4>1. Found(mem, SetupSize, b, initrd, InitrdAt(ram, initrd), cmdline, Written)
        BY <2>1, <3>5, <3>6 DEF HandoverInv
      <4>2. QED
        BY <1>B, <2>1, <4>1 DEF Found
    <3>8. /\ Inside(addr, n)
          /\ mem' = Store(Store(Copied(addr, n, "initrd", 0), "ramdisk_image", addr), "ramdisk_size", n)
      <4>1. Low32(addr) = addr /\ Low32(n) = n
        BY <3>1, <3>2, <3>3, Low32Facts, LayoutFacts
      <4>2. QED
        BY <2>4, <3>2, <4>1 DEF Announce
    <3> HIDE DEF addr, b
    <3> DEFINE m == Copied(addr, n, "initrd", 0)
               m1 == Store(m, "ramdisk_image", addr)
               m2 == Store(m1, "ramdisk_size", n)
    <3>9. Found(m, SetupSize, b, -1, addr, 0, Written)
      <4>1. CmdlineAt <= addr /\ (KernelAt + b <= addr \/ addr + n <= KernelAt)
        BY <3>3, <3>4, LayoutFacts
      <4>2. QED
        BY <1>S, <3>1, <3>3, <3>4, <3>7, <3>8, <4>1, FoundCopied
    <3>10. Holds(m, addr, n, "initrd", 0)
      BY <3>1, <3>3, <3>8, HoldsCopied
    <3>11. DOMAIN m = DOMAIN mem /\ DOMAIN m1 = DOMAIN mem
      BY DEF Copied, Store
    <3> HIDE DEF m
    <3>12. /\ Written \subseteq Written' /\ "ramdisk_image" \in Written' /\ "ramdisk_size" \in Written'
           /\ "ramdisk_image" \in Fields /\ "ramdisk_size" \in Fields /\ "ramdisk_image" # "ramdisk_size"
      BY <2>1, <2>4, <3>1 DEF Written, Fields
    <3>13. Found(m, SetupSize, b, -1, addr, 0, Written')
      BY <3>9, <3>12, SetupMore DEF Found
    <3>14. Found(m1, SetupSize, b, -1, addr, 0, Written')
      BY <1>S, <3>7, <3>12, <3>13, FoundStore
    <3>15. Slot("ramdisk_image") \subseteq DOMAIN mem /\ Slot("ramdisk_size") \subseteq DOMAIN mem
      BY <2>1, <3>4, <3>12, SlotsInside
    <3>16. Holds(m1, addr, n, "initrd", 0) /\ FieldHolds(m1, "ramdisk_image", addr)
      <4>1. CmdlineAt <= addr /\ 0 \in Nat
        BY <3>3, LayoutFacts
      <4>2. QED
        BY <3>1, <3>3, <3>10, <3>11, <3>12, <3>15, <4>1, StoreHolds, StoreField
    <3> HIDE DEF m1
    <3>17. Found(m2, SetupSize, b, -1, addr, 0, Written')
      BY <1>S, <3>7, <3>12, <3>14, FoundStore
    <3>18. Holds(m2, addr, n, "initrd", 0)
      <4>1. CmdlineAt <= addr /\ 0 \in Nat
        BY <3>3, LayoutFacts
      <4>2. QED
        BY <3>1, <3>3, <3>12, <3>16, <4>1, StoreHolds
    <3>19. FieldHolds(m2, "ramdisk_size", n) /\ FieldHolds(m2, "ramdisk_image", addr)
      BY <3>11, <3>12, <3>15, <3>16, StoreField, StoreOther
    <3>20. mem' = m2
      BY <3>8 DEF m1, m
    <3> HIDE DEF m2
    <3>21. Found(mem', SetupSize, b, n, addr, 0, Written')
      BY <3>17, <3>18, <3>19, <3>20 DEF Found
    <3>22. Found(mem', SetupSize', file'.size - SetupSize', initrd', InitrdAt(ram', initrd'), cmdline', Written')
      BY <2>1, <2>4, <3>4, <3>21 DEF b, addr
    <3>23. QED
      BY <3>22 DEF HandoverInv
  <2>5. QED
    BY <1>3, <2>2, <2>3, <2>4, Initrd
<1>4. CASE setup_cmdline
  <2>1. at = "cmdline" /\ cmdline = 0 /\ UNCHANGED <<file, ram, initrd>> /\ Loaded
    BY <1>4 DEF setup_cmdline, PathInv, Loaded, Placed
  <2>2. CASE at' = "e820" /\ UNCHANGED <<mem, wild, cmdline>>
    BY <1>K, <2>1, <2>2
  <2>3. CASE Fail
    BY <1>F, <2>3 DEF Fail, Loaded, Placed, Started
  <2>4. ASSUME NEW n \in CmdSizes, cmdline' = n, Inside(CmdlineAt, n),
               mem' = Store(Copied(CmdlineAt, n, "cmdline", 0), "cmd_line_ptr", CmdlineAt)
        PROVE  HandoverInv'
    <3> SUFFICES ASSUME ~Untested', Disjoint' PROVE HandoverInv'
      BY DEF HandoverInv
    <3>1. n \in Nat /\ n > 0 /\ CmdlineAt \in Address /\ KernelAt \in Nat /\ CmdlineAt \in Nat
      BY InputsAssumption, LayoutFacts DEF Address
    <3> DEFINE addr == InitrdAt(ram, initrd)
    <3>2. /\ SetupSize' = SetupSize /\ LoadedAt' = LoadedAt
          /\ LoadedAt = KernelAt /\ ParamsAt + SetupSize <= CmdlineAt /\ CmdlineAt + n <= KernelAt
          /\ initrd # -1 => KernelAt + b <= addr
      <4>1. SetupSize' = SetupSize /\ LoadedAt' = LoadedAt
        BY <2>1 DEF SetupSize, LoadedAt
      <4>2. QED
        BY <2>1, <2>4, <4>1 DEF Disjoint
    <3>3. ~Untested /\ Disjoint
      BY <2>1, <3>2, LayoutFacts DEF Untested, Disjoint
    <3>4. Found(mem, SetupSize, b, initrd, addr, 0, Written) /\ b \in Nat
      BY <1>B, <2>1, <3>3 DEF HandoverInv
    <3>5. initrd \in {-1} \cup Nat /\ (initrd # -1 => addr \in Nat /\ KernelAt <= addr)
      <4>1. ram \in 0 .. RamCap /\ initrd \in {-1} \cup Address
        BY DEF TypeOK
      <4>2. QED
        BY <4>1, InitrdPlace DEF Address
    <3> HIDE DEF addr, b
    <3>6. initrd # -1 => CmdlineAt + n <= addr /\ CmdlineAt <= addr
      BY <3>1, <3>2, <3>5
    <3> DEFINE m == Copied(CmdlineAt, n, "cmdline", 0)
               m1 == Store(m, "cmd_line_ptr", CmdlineAt)
    <3>7. Found(m, SetupSize, b, initrd, addr, 0, Written)
      <4>1. CmdlineAt <= CmdlineAt /\ (KernelAt + b <= CmdlineAt \/ CmdlineAt + n <= KernelAt)
        BY <3>1, <3>2
      <4>2. QED
        BY <1>S, <2>4, <3>1, <3>2, <3>4, <3>5, <3>6, <4>1, FoundCopied
    <3>8. Holds(m, CmdlineAt, n, "cmdline", 0)
      BY <2>4, <3>1, HoldsCopied
    <3>9. DOMAIN m = DOMAIN mem
      BY DEF Copied
    <3> HIDE DEF m
    <3>10. /\ Written \subseteq Written' /\ "cmd_line_ptr" \in Written' /\ "cmd_line_ptr" \in Fields
           /\ "cmd_line_ptr" # "ramdisk_image" /\ "cmd_line_ptr" # "ramdisk_size"
      BY <2>1, <2>4, <3>1 DEF Written, Fields
    <3>11. Found(m, SetupSize, b, initrd, addr, 0, Written')
      BY <3>7, <3>10, SetupMore DEF Found
    <3>12. Found(m1, SetupSize, b, initrd, addr, 0, Written')
      BY <1>S, <3>4, <3>5, <3>6, <3>10, <3>11, FoundStore
    <3>13. Holds(m1, CmdlineAt, n, "cmdline", 0)
      <4>1. CmdlineAt <= CmdlineAt /\ 0 \in Nat
        BY <3>1
      <4>2. QED
        BY <3>1, <3>8, <3>10, <4>1, StoreHolds
    <3>14. FieldHolds(m1, "cmd_line_ptr", CmdlineAt)
      <4>1. Slot("cmd_line_ptr") \subseteq DOMAIN m
        BY <2>1, <3>2, <3>9, <3>10, SlotsInside
      <4>2. QED
        BY <3>10, <4>1, StoreField
    <3>15. mem' = m1
      BY <2>4 DEF m
    <3> HIDE DEF m1
    <3>16. Found(mem', SetupSize, b, initrd, addr, n, Written')
      BY <3>12, <3>13, <3>14, <3>15 DEF Found
    <3>17. Found(mem', SetupSize', file'.size - SetupSize', initrd', InitrdAt(ram', initrd'), cmdline', Written')
      BY <2>1, <2>4, <3>2, <3>16 DEF b, addr
    <3>18. QED
      BY <3>17 DEF HandoverInv
  <2>5. QED
    BY <1>4, <2>2, <2>3, <2>4, Cmdline
<1>5. CASE setup_e820
  <2>1. CASE Fail
    BY <1>F, <2>1 DEF Fail, Loaded, Placed, Started
  <2>2. CASE ~Fail
    <3>1. /\ mem' = Store(Store(mem, "e820", Map820), "e820_entries", 3) /\ Loaded
          /\ UNCHANGED <<file, ram, initrd, cmdline>>
      BY <1>5, <2>2 DEF setup_e820, inputs, PathInv, Loaded, Placed
    <3> SUFFICES ASSUME ~Untested', Disjoint' PROVE HandoverInv'
      BY DEF HandoverInv
    <3>2. /\ SetupSize' = SetupSize /\ LoadedAt' = LoadedAt /\ Written' = Written
          /\ ~Untested /\ Disjoint
      BY <3>1, SameLayout
    <3> DEFINE addr == InitrdAt(ram, initrd)
    <3>3. Found(mem, SetupSize, b, initrd, addr, cmdline, Written) /\ b \in Nat /\ cmdline \in Nat
      BY <1>B, <3>1, <3>2 DEF HandoverInv, TypeOK, Address
    <3>4. initrd \in {-1} \cup Nat /\ (initrd # -1 => addr \in Nat /\ CmdlineAt <= addr)
      <4>1. ram \in 0 .. RamCap /\ initrd \in {-1} \cup Address
        BY DEF TypeOK
      <4>2. QED
        BY <4>1, InitrdPlace, LayoutFacts DEF Address
    <3>5. /\ "e820" \in Written /\ "e820_entries" \in Written
          /\ "e820" \in Fields /\ "e820_entries" \in Fields
      BY DEF Written, Fields
    <3> HIDE DEF addr, b
    <3> DEFINE m == Store(mem, "e820", Map820)
               m1 == Store(m, "e820_entries", 3)
    <3>6. Found(m, SetupSize, b, initrd, addr, cmdline, Written)
      BY <1>S, <3>3, <3>4, <3>5, FoundStore
    <3> HIDE DEF m
    <3>7. Found(m1, SetupSize, b, initrd, addr, cmdline, Written)
      BY <1>S, <3>3, <3>4, <3>5, <3>6, FoundStore
    <3>8. mem' = m1
      BY <3>1 DEF m
    <3> HIDE DEF m1
    <3>9. Found(mem', SetupSize', file'.size - SetupSize', initrd', InitrdAt(ram', initrd'), cmdline', Written')
      BY <3>1, <3>2, <3>7, <3>8 DEF b, addr
    <3>10. QED
      BY <3>9 DEF HandoverInv
  <2>3. QED
    BY <2>1, <2>2
<1>6. CASE setup_vcpu_regs
  BY <1>6, <1>K DEF setup_vcpu_regs, PathInv, inputs, Loaded, Placed, Started
<1>7. CASE LoadBinary
  <2>1. CASE Fail
    BY <2>1, <1>F DEF Fail, Loaded, Placed, Started
  <2>2. CASE ~Fail
    <3>1. PICK n \in FileSizes, e \in Entries : file' = [NoFile EXCEPT !.size = n, !.entry = e]
      BY <1>7, <2>2, Binary
    <3>2. file'.entry # 0
      BY <3>1, InputsAssumption DEF NoFile
    <3>3. QED
      BY <3>2, <1>F DEF Loaded
  <2>3. QED
    BY <2>1, <2>2
<1>8. CASE BinaryRegs
  BY <1>8, <1>F DEF BinaryRegs, PathInv, inputs, Loaded, Placed, Started
<1>9. CASE StartVcpu
  BY <1>9, <1>K DEF StartVcpu, inputs, Loaded, Placed, Started
<1>10. CASE EnterGuest
  BY <1>10, <1>K DEF EnterGuest, inputs, Loaded, Placed, Started
<1>11. CASE UNCHANGED vars
  BY <1>11, <1>K DEF vars, Loaded
<1>12. QED
  BY <1>1, <1>2, <1>3, <1>4, <1>5, <1>6, <1>7, <1>8, <1>9, <1>10, <1>11 DEF Next, Done

\* Every step keeps the map setup_e820() has stored: nothing is written after it.
LEMMA MapStep == TypeOK /\ PathInv /\ KernelInv /\ MapInv /\ [Next]_vars => MapInv'
<1> SUFFICES ASSUME TypeOK, PathInv, KernelInv, MapInv, [Next]_vars PROVE MapInv'
  OBVIOUS
<1> DEFINE Before == {"initrd", "cmdline", "e820"}
<1>F. ASSUME ~Loaded' \/ at' \in Before PROVE MapInv'
  BY <1>F DEF MapInv
<1>K. ASSUME UNCHANGED <<file, ram, mem>>, (Loaded /\ at \notin Before)' => Loaded /\ at \notin Before
      PROVE  MapInv'
  <2>1. LoadedAt' = LoadedAt /\ Map820' = Map820
    BY <1>K DEF LoadedAt, Map820, HighRam
  <2>2. QED
    BY <1>K, <2>1 DEF MapInv
<1>1. CASE AddRam
  BY <1>1, <1>F DEF AddRam, Loaded, Placed, Started
<1>2. CASE load_bzimage
  <2>1. at' \in {"failed", "crashed", "initrd"}
    BY <1>2, BzImage DEF Fail
  <2>2. QED
    BY <1>F, <2>1 DEF Loaded, Placed, Started
<1>3. CASE load_initrd
  <2>1. at' \in {"cmdline", "crashed", "failed"}
    BY <1>3, Initrd DEF Fail
  <2>2. QED
    BY <1>F, <2>1 DEF Loaded, Placed, Started
<1>4. CASE setup_cmdline
  <2>1. at' \in {"e820", "failed"}
    BY <1>4, Cmdline DEF Fail
  <2>2. QED
    BY <1>F, <2>1 DEF Loaded, Placed, Started
<1>5. CASE setup_e820
  <2>1. CASE Fail
    BY <1>F, <2>1 DEF Fail, Loaded, Placed, Started
  <2>2. CASE ~Fail
    <3>1. /\ mem' = Store(Store(mem, "e820", Map820), "e820_entries", 3) /\ Loaded
          /\ UNCHANGED <<file, ram>>
      BY <1>5, <2>2 DEF setup_e820, inputs, PathInv, Loaded, Placed
    <3>2. LoadedAt' = LoadedAt /\ Map820' = Map820
      BY <3>1 DEF LoadedAt, Map820, HighRam
    <3> SUFFICES ASSUME LoadedAt = KernelAt
                 PROVE  FieldHolds(mem', "e820", Map820) /\ FieldHolds(mem', "e820_entries", 3)
      BY <3>2 DEF MapInv
    <3>3. "e820" \in Fields /\ "e820_entries" \in Fields /\ "e820" # "e820_entries"
      BY DEF Fields
    <3>4. Slot("e820") \subseteq DOMAIN mem /\ Slot("e820_entries") \subseteq DOMAIN mem
      BY <3>1, <3>3, SlotsInside
    <3> DEFINE m == Store(mem, "e820", Map820)
    <3>5. FieldHolds(m, "e820", Map820) /\ DOMAIN m = DOMAIN mem
      <4>1. DOMAIN m = DOMAIN mem
        BY DEF Store
      <4>2. QED
        BY <3>3, <3>4, <4>1, StoreField
    <3> HIDE DEF m
    <3>6. FieldHolds(Store(m, "e820_entries", 3), "e820", Map820)
      BY <3>3, <3>5, StoreOther
    <3>7. FieldHolds(Store(m, "e820_entries", 3), "e820_entries", 3)
      BY <3>3, <3>4, <3>5, StoreField
    <3>8. QED
      BY <3>1, <3>6, <3>7 DEF m
  <2>3. QED
    BY <2>1, <2>2
<1>6. CASE setup_vcpu_regs
  BY <1>6, <1>K DEF setup_vcpu_regs, PathInv, inputs, Loaded, Placed, Started
<1>7. CASE LoadBinary
  <2>1. CASE Fail
    BY <2>1, <1>F DEF Fail, Loaded, Placed, Started
  <2>2. CASE ~Fail
    <3>1. PICK n \in FileSizes, e \in Entries : file' = [NoFile EXCEPT !.size = n, !.entry = e]
      BY <1>7, <2>2, Binary
    <3>2. file'.entry # 0
      BY <3>1, InputsAssumption DEF NoFile
    <3>3. QED
      BY <3>2, <1>F DEF Loaded
  <2>3. QED
    BY <2>1, <2>2
<1>8. CASE BinaryRegs
  BY <1>8, <1>F DEF BinaryRegs, PathInv, inputs, Loaded, Placed, Started
<1>9. CASE StartVcpu
  BY <1>9, <1>K DEF StartVcpu, inputs, Loaded, Placed, Started
<1>10. CASE EnterGuest
  BY <1>10, <1>K DEF EnterGuest, inputs, Loaded, Placed, Started
<1>11. CASE UNCHANGED vars
  BY <1>11, <1>K DEF vars, Loaded
<1>12. QED
  BY <1>1, <1>2, <1>3, <1>4, <1>5, <1>6, <1>7, <1>8, <1>9, <1>10, <1>11 DEF Next, Done

-----------------------------------------------------------------------------
(* The registers.                                                           *)

\* Every step keeps the registers of a loader that succeeded.
LEMMA RegsStep == TypeOK /\ PathInv /\ RegsInv /\ [Next]_vars => RegsInv'
<1> SUFFICES ASSUME TypeOK, PathInv, RegsInv, [Next]_vars PROVE RegsInv'
  OBVIOUS
<1>F. ASSUME at' \notin {"sregs"} \cup Started PROVE RegsInv'
  BY <1>F DEF RegsInv, Started
<1>S. ASSUME NEW names, NEW value, SetTo(value, names)
      PROVE  Set(value)' = Set(value) \cup (names \cap Registers)
  BY <1>S DEF SetTo, Set
<1>R. {"rip", "flags", "rsi", "gp", "segments", "cr"} \subseteq Registers
  BY DEF Registers
<1>1. CASE AddRam
  BY <1>1, <1>F DEF AddRam, Started
<1>2. CASE load_bzimage
  <2>1. at' \in {"failed", "crashed", "initrd"}
    BY <1>2, BzImage DEF Fail
  <2>2. QED
    BY <1>F, <2>1 DEF Started
<1>3. CASE load_initrd
  <2>1. at' \in {"cmdline", "crashed", "failed"}
    BY <1>3, Initrd DEF Fail
  <2>2. QED
    BY <1>F, <2>1 DEF Started
<1>4. CASE setup_cmdline
  <2>1. at' \in {"e820", "failed"}
    BY <1>4, Cmdline DEF Fail
  <2>2. QED
    BY <1>F, <2>1 DEF Started
<1>5. CASE setup_e820
  BY <1>5, <1>F DEF setup_e820, Fail, Started
<1>6. CASE setup_vcpu_regs
  <2>1. CASE at' \in {"crashed", "failed"}
    BY <1>F, <2>1 DEF Started
  <2>2. ASSUME platform # "hvf_arm64", at = "regs", NEW out \in hv_set_regs, out.ok,
               SetTo("linux", out.names), at' = "sregs", UNCHANGED inputs
        PROVE  RegsInv'
    <3>1. {"rip", "rsi", "flags", "gp"} \subseteq out.names
      BY <2>2, RegisterCalls
    <3>2. {"rip", "rsi", "flags", "gp"} \subseteq Set("linux")'
      BY <1>R, <1>S, <2>2, <3>1
    <3>3. QED
      BY <2>2, <3>2 DEF RegsInv, Started, inputs
  <2>3. ASSUME platform # "hvf_arm64", at = "sregs", NEW out \in hv_set_sregs, out.ok,
               SetTo("linux", out.names), at' = "start", UNCHANGED inputs
        PROVE  RegsInv'
    <3>1. {"segments", "cr"} \subseteq out.names
      BY <2>3, RegisterCalls
    <3>2. {"rip", "rsi", "flags", "gp"} \subseteq Set("linux")
      BY <2>3 DEF RegsInv
    <3>3. {"rip", "rsi", "flags", "gp", "segments", "cr"} \subseteq Set("linux")'
      BY <1>R, <1>S, <2>3, <3>1, <3>2
    <3>4. QED
      BY <2>3, <3>3 DEF RegsInv, Started, inputs
  <2>4. QED
    BY <1>6, <2>1, <2>2, <2>3 DEF setup_vcpu_regs, SetChecked
<1>7. CASE LoadBinary
  <2>1. CASE Fail
    BY <2>1, <1>F DEF Fail, Started
  <2>2. CASE ~Fail
    <3>1. PICK n \in FileSizes, e \in Entries :
             /\ file' = [NoFile EXCEPT !.size = n, !.entry = e]
             /\ at' \in {"crashed", IF platform = "hvf_arm64" THEN "start" ELSE "binary_sregs"}
      BY <1>7, <2>2, Binary
    <3>2. file'.entry # 0
      BY <3>1, InputsAssumption DEF NoFile
    <3>3. QED
      BY <3>1, <3>2 DEF RegsInv, Started
  <2>3. QED
    BY <2>1, <2>2
<1>8. CASE BinaryRegs
  BY <1>8 DEF BinaryRegs, PathInv, RegsInv, inputs
<1>9. CASE StartVcpu
  <2>1. at = "start" /\ at' \in {"thread", "failed"} /\ UNCHANGED <<platform, file, regs>>
    BY <1>9 DEF StartVcpu, inputs
  <2>2. QED
    BY <2>1 DEF RegsInv, Started, Set
<1>10. CASE EnterGuest
  <2>1. at = "thread" /\ UNCHANGED <<platform, file>>
    BY <1>10 DEF EnterGuest, inputs
  <2>2. CASE platform # "hvf_arm64" /\ at' = "guest" /\ UNCHANGED regs
    BY <2>1, <2>2 DEF RegsInv, Started, Set
  <2>3. CASE at' = "dead"
    BY <1>F, <2>3 DEF Started
  <2>4. ASSUME platform = "hvf_arm64", NEW out \in hv_set_regs, out.ok,
               SetTo("raw", out.names), at' = "guest"
        PROVE  RegsInv'
    <3>1. file.entry # 0
      BY <2>1, <2>4 DEF RegsInv, Started
    <3>2. {"rip", "flags"} \subseteq out.names
      BY <2>4, RegisterCalls
    <3>3. {"rip", "flags"} \subseteq Set("raw")'
      BY <1>R, <1>S, <2>4, <3>2
    <3>4. QED
      BY <2>1, <2>4, <3>1, <3>3 DEF RegsInv
  <2>5. QED
    BY <1>10, <2>2, <2>3, <2>4 DEF EnterGuest
<1>11. CASE UNCHANGED vars
  BY <1>11 DEF vars, RegsInv, Set
<1>12. QED
  BY <1>1, <1>2, <1>3, <1>4, <1>5, <1>6, <1>7, <1>8, <1>9, <1>10, <1>11 DEF Next, Done

-----------------------------------------------------------------------------
(* The theorems.                                                            *)

\* The inductive invariant holds at the start.
LEMMA BootStart == Init => BootInv
<1> SUFFICES ASSUME Init PROVE BootInv
  OBVIOUS
<1> USE DEF Init
<1>1. TypeOK
  <2>1. NoFile \in [size : Address, sects : 0 .. MaxSects, code32 : 0 .. Word - 1, entry : Address]
    BY LayoutFacts DEF NoFile, Address
  <2>2. DOMAIN mem = 0 .. ram - 1 /\ \A a \in DOMAIN mem : mem[a][2] \in Contents(mem[a][1])
    <3>1. DOMAIN mem = {} /\ 0 .. ram - 1 = {}
      OBVIOUS
    <3>2. QED
      BY <3>1
  <2>3. 0 \in Address /\ 0 \in 0 .. RamCap
    BY LayoutFacts DEF Address
  <2>4. QED
    BY <2>1, <2>2, <2>3 DEF TypeOK, Labels
<1>2. PathInv /\ CopiesInside
  BY DEF PathInv, CopiesInside, Placed
<1>3. KernelInv /\ HandoverInv /\ MapInv
  BY DEF KernelInv, HandoverInv, MapInv, Loaded, Placed, Started
<1>4. RegsInv
  BY DEF RegsInv, Started
<1>5. QED
  BY <1>1, <1>2, <1>3, <1>4 DEF BootInv

\* The inductive invariant holds throughout.
THEOREM BootInvThm == Spec => []BootInv
<1>1. BootInv /\ [Next]_vars => BootInv'
  BY TypeStep, PathStep, CopiesStep, KernelStep, HandoverStep, MapStep, RegsStep DEF BootInv
<1>2. QED
  BY BootStart, <1>1, PTL DEF Spec

\* Every variable keeps its type; the 32-bit fields of the boot parameters hold
\* 32-bit numbers and the E820 map 64-bit ones.
THEOREM TypeOKThm == Spec => []TypeOK
<1>1. BootInv => TypeOK
  BY DEF BootInv
<1>2. QED
  BY BootInvThm, <1>1, PTL

\* On every input the loaders test, each copy stays inside guest memory and
\* inside the buffer it reads.
THEOREM CopiesInsideThm == Spec => []CopiesInside
<1>1. BootInv => CopiesInside
  BY DEF BootInv
<1>2. QED
  BY BootInvThm, <1>1, PTL

\* The guest of a Linux boot finds every part whole where the boot parameters
\* or the protocol say it is: the loaders that store into the setup part change
\* the fields of this boot and no other byte of it, and each of these fields
\* keeps its value.
THEOREM BootHandoverThm == Spec => []BootHandover
<1>1. BootInv => BootHandover
  <2> SUFFICES ASSUME BootInv, LinuxBooted, ~Untested, Disjoint
               PROVE  /\ SetupHolds(mem, SetupSize, Written)
                      /\ Holds(mem, KernelAt, file.size - SetupSize, "image", SetupSize)
                      /\ initrd # -1 =>
                           /\ FieldHolds(mem, "ramdisk_size", initrd)
                           /\ \E a \in 0 .. Word - 1 : /\ FieldHolds(mem, "ramdisk_image", a)
                                                      /\ Holds(mem, a, initrd, "initrd", 0)
                      /\ cmdline > 0 => /\ FieldHolds(mem, "cmd_line_ptr", CmdlineAt)
                                        /\ Holds(mem, CmdlineAt, cmdline, "cmdline", 0)
                      /\ FieldHolds(mem, "e820_entries", 3)
    BY DEF BootHandover
  <2>1. Loaded /\ at \notin {"initrd", "cmdline", "e820"} /\ LoadedAt = KernelAt
    BY DEF LinuxBooted, Loaded, Started, Disjoint
  <2> DEFINE addr == InitrdAt(ram, initrd)
  <2>2. Found(mem, SetupSize, file.size - SetupSize, initrd, addr, cmdline, Written)
    BY <2>1 DEF BootInv, HandoverInv
  <2>3. initrd # -1 => addr \in 0 .. Word - 1
    <3>1. ram \in 0 .. RamCap /\ initrd \in {-1} \cup Address /\ ~(initrd > ram)
      BY DEF BootInv, TypeOK, Untested
    <3>2. ASSUME initrd # -1 PROVE initrd \in Address /\ initrd <= ram
      BY <3>1, <3>2 DEF Address
    <3>3. QED
      BY <3>1, <3>2, InitrdPlace, LayoutFacts DEF Address
  <2>4. FieldHolds(mem, "e820_entries", 3)
    BY <2>1 DEF BootInv, MapInv
  <2> HIDE DEF addr
  <2>5. QED
    BY <2>2, <2>3, <2>4 DEF Found
<1>2. QED
  BY BootInvThm, <1>1, PTL

\* The E820 map of a Linux boot at the usual place is whole and promises no
\* memory that is not there.
THEOREM E820HonestThm == Spec => []E820Honest
<1>1. BootInv => E820Honest
  <2> SUFFICES ASSUME BootInv, LinuxBooted, LoadedAt = KernelAt
               PROVE  /\ FieldHolds(mem, "e820", ReadMap)
                      /\ \A k \in 1 .. 3 : ReadMap[k].type = "RAM" =>
                                            ReadMap[k].addr + ReadMap[k].size <= ram
    BY DEF E820Honest
  <2>1. TypeOK /\ KernelInv /\ Loaded /\ at \notin {"initrd", "cmdline", "e820"}
    BY DEF BootInv, LinuxBooted, Loaded, Started
  <2>2. SetupSize \in Nat /\ file.size \in Nat /\ ram \in Nat
    <3>1. file.sects \in 0 .. MaxSects /\ file.size \in Nat /\ ram \in Nat
      BY <2>1 DEF TypeOK, Address
    <3>2. QED
      BY <3>1, SetupBound, LayoutFacts DEF SetupSize
  <2>3. KernelAt <= ram
    BY <2>1, <2>2, LayoutFacts DEF KernelInv
  <2>4. HighRam = ram - KernelAt
    BY <2>2, <2>3, LayoutFacts DEF HighRam, Sub
  <2>5. FieldHolds(mem, "e820", Map820)
    BY <2>1 DEF BootInv, MapInv
  <2>6. ReadMap = Map820
    <3>1. ParamsAt + Offset["e820"] \in Slot("e820")
      BY SlotStart DEF Fields
    <3>2. mem[ParamsAt + Offset["e820"]] = <<"e820", Map820>>
      BY <2>5, <3>1 DEF FieldHolds
    <3>3. QED
      BY <3>2 DEF ReadMap
  <2>7. \A k \in 1 .. 3 : Map820[k].type = "RAM" => Map820[k].addr + Map820[k].size <= ram
    BY <2>2, <2>3, <2>4, LayoutFacts DEF Map820, Range820
  <2>8. QED
    BY <2>5, <2>6, <2>7
<1>2. QED
  BY BootInvThm, <1>1, PTL

\* vCPU 0 enters the guest only with the registers its loader chose.
THEOREM EntersPreparedThm == Spec => []EntersPrepared
<1>1. BootInv => EntersPrepared
  BY DEF BootInv, RegsInv, EntersPrepared, Started
<1>2. QED
  BY BootInvThm, <1>1, PTL
=============================================================================
