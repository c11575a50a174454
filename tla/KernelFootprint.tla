--------------------------- MODULE KernelFootprint ---------------------------
(***************************************************************************)
(* check-kernel-footprint.py: may the decompressed kernel reach the        *)
(* companion, which U-Boot has put at a fixed address?  The script walks   *)
(* the program headers of vmlinux and keeps three extremes; the image is   *)
(* then moved so that its lowest address is KERNEL_PHYS.  Python integers  *)
(* do not wrap, so addresses are plain naturals.                           *)
(***************************************************************************)
EXTENDS Integers, Sequences

CONSTANTS Kernels,         \* vmlinux files, see FootprintAssumption
          UImageSizes,
          KernelPhys,    \* where the decompressor puts the kernel (0x00008000)
          InitrdLoad,    \* where the companion lies               (0x02600000)
          Scratch,       \* decompressor scratch                   (1 MiB)
          Nothing        \* no segment seen yet

Segments == [load: BOOLEAN, paddr: Nat, filesz: Nat, memsz: Nat]

\* elf: the header passes lines 32-45; phnum: the headers it announces;
\* headers: those the file is long enough to hold.
ASSUME FootprintAssumption ==
  /\ Kernels \subseteq [elf: BOOLEAN, phnum: Nat, headers: Seq(Segments)]
  /\ UImageSizes \subseteq Nat
  /\ {KernelPhys, InitrdLoad} \subseteq Nat /\ Scratch \in Nat \ {0}
  /\ Nothing \notin [lowest: Nat, highest: Nat, file: Nat]

VARIABLES vmlinux, uimage,  \* the arguments
          index,            \* program headers read
          extent,           \* lowest, highest, highest_file
          fpc               \* "open", "read", then the verdict

footprintVars == <<vmlinux, uimage, index, extent, fpc>>

FootprintInit == /\ vmlinux \in Kernels /\ uimage \in UImageSizes
                 /\ index = 0 /\ extent = Nothing /\ fpc = "open"

OpenVmlinux == /\ fpc = "open"
               /\ fpc' = IF vmlinux.elf /\ vmlinux.phnum > 0 THEN "read" ELSE "error"
               /\ UNCHANGED <<vmlinux, uimage, index, extent>>

Counts(s) == s.load /\ s.memsz > 0

Least(a, b) == IF a <= b THEN a ELSE b
Most(a, b) == IF a >= b THEN a ELSE b

WidenedByMemory(s) ==                                                \* mutant
  IF extent = Nothing
  THEN [lowest |-> s.paddr, highest |-> s.paddr + s.memsz, file |-> s.paddr + s.memsz]
  ELSE [lowest |-> Least(extent.lowest, s.paddr),
        highest |-> s.paddr + s.memsz,
        file |-> s.paddr + s.filesz]

Widened(s) ==
  IF extent = Nothing
  THEN [lowest |-> s.paddr, highest |-> s.paddr + s.memsz, file |-> s.paddr + s.filesz]
  ELSE [lowest |-> Least(extent.lowest, s.paddr),
        highest |-> Most(extent.highest, s.paddr + s.memsz),
        file |-> Most(extent.file, s.paddr + s.filesz)]

\* Lines 47-57, one header.
ReadSegment == /\ fpc = "read" /\ index < vmlinux.phnum
               /\ index < Len(vmlinux.headers)
               /\ LET s == vmlinux.headers[index + 1]
                  IN extent' = IF Counts(s) THEN Widened(s) ELSE extent
               /\ index' = index + 1
               /\ UNCHANGED <<vmlinux, uimage, fpc>>

\* Lines 50-51 and 58-59: a table cut short; no segment that is loaded.
ReadFails == /\ fpc = "read"
             /\ \/ index < vmlinux.phnum /\ index >= Len(vmlinux.headers)
                \/ index = vmlinux.phnum /\ extent = Nothing
             /\ fpc' = "error"
             /\ UNCHANGED <<vmlinux, uimage, index, extent>>

ImageSize == extent.file - extent.lowest
FootprintSize == extent.highest - extent.lowest
DecompressorEnd == KernelPhys + ImageSize + uimage + Scratch
WorstCaseEnd == KernelPhys + Most(FootprintSize, ImageSize + uimage + Scratch)

\* check() and the comparisons of main().
Judge == /\ fpc = "read" /\ index = vmlinux.phnum /\ extent # Nothing
         /\ fpc' = IF DecompressorEnd >= InitrdLoad THEN "overwritten"
                   ELSE IF WorstCaseEnd >= InitrdLoad THEN "covered"
                   ELSE "accepted"
         /\ UNCHANGED <<vmlinux, uimage, index, extent>>

FootprintNext == OpenVmlinux \/ ReadSegment \/ ReadFails \/ Judge
FootprintSpec == FootprintInit /\ [][FootprintNext]_footprintVars

-----------------------------------------------------------------------------
Headers == {vmlinux.headers[i] : i \in 1..vmlinux.phnum}
Loaded == {s \in Headers : Counts(s)}
Origin == CHOOSE a \in {s.paddr : s \in Loaded} : \A s \in Loaded : a <= s.paddr

\* The addresses of the memory that each part of the boot takes: the kernel as
\* the decompressor writes it, as Linux reserves it, and the zImage with its
\* scratch directly behind the former.
Place(s, size) == {KernelPhys + s.paddr - Origin + k : k \in 0..size - 1}
Decompressed == UNION {Place(s, s.filesz) : s \in Loaded}
Reserved == UNION {Place(s, s.memsz) : s \in Loaded}
ImageEnd == CHOOSE e \in {KernelPhys + s.paddr - Origin + s.filesz : s \in Loaded} :
              \A s \in Loaded : KernelPhys + s.paddr - Origin + s.filesz <= e
Relocated == ImageEnd..(ImageEnd + uimage + Scratch - 1)

Reaches(addresses) == \E a \in addresses : a >= InitrdLoad - 1

\* The verdict is the one that the memory map gives, byte by byte, with one byte
\* to spare: a kernel is accepted exactly if nothing of it is written or
\* reserved up to the companion, and refused for the part that is (lines 95-99).
VerdictIsMemoryMap ==
  /\ fpc = "accepted" => ~Reaches(Decompressed \cup Relocated \cup Reserved)
  /\ fpc = "overwritten" => Reaches(Decompressed \cup Relocated)
  /\ fpc = "covered" => Reaches(Reserved) /\ ~Reaches(Decompressed \cup Relocated)

=============================================================================
