----------------------------- MODULE MCVmSetup -----------------------------
(* Command lines for model checking VmSetup.                               *)
EXTENDS VmSetup

\* Every command line, on each platform.  Only Linux has VFIO.
AllConfigs ==
    {S \cup P : S \in SUBSET {"kernel", "initrd", "disk", "net"},
                P \in {{}, {"vfio"}, {"arm64"}, {"hvf_x86"}}}
=============================================================================
