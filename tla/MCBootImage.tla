---------------------------- MODULE MCBootImage ----------------------------
(* Files, memory sizes and entries for model checking BootImage.           *)
EXTENDS BootImage

\* The number of E820 ranges is before the end of the first sector, the fields
\* of the header follow, and the map is behind the header.
Offsets == [e820_entries |-> 3, ramdisk_image |-> 4, ramdisk_size |-> 5, cmd_line_ptr |-> 6,
            e820 |-> 7]
Widths == [f \in Fields |-> 1]

\* Memory that ends before the boot parameters, inside and behind them, in
\* the hole below the kernel, behind the kernel's first unit, and beyond the
\* cap; page-aligned and not.
Mems == {5, 11, 13, 22, 31, 34, 40, 47, 80}

\* Empty, shorter than a sector and than the header, of odd and even length,
\* longer than low memory, and longer than all of guest memory.
Files == {0, 3, 4, 6, 7, 9, 13, 20, 27, 60}

\* Short, and reaching into the kernel.
Cmds == {1, 17}

\* The default, below, at and above the usual place, and outside memory.
Starts == {0, 12, 32, 36, 60}

\* In low memory, at the kernel's place, near and beyond the end of memory and
\* close enough to the top of the address space for a binary to wrap around.
EntryPoints == {1, 14, 32, 45, 60, 120}
=============================================================================
