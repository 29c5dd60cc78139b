----------------------------- MODULE MCExitPath -----------------------------
(* Guest instructions for model checking ExitPath.                         *)
EXTENDS ExitPath

Mmio(op, dev, off, size, val) ==
    [op |-> op, dev |-> dev, off |-> off, size |-> size, val |-> val, x0 |-> val]
Event(op) == Mmio(op, "other", 0, 1, 0)

\* Transmit, divisor latch, line control with DLAB, a wide store,
\* loads, a configuration field, an access size that fails, an interrupt
\* acknowledgement, and an address nobody has.
KvmMmio == {Mmio("store", "uart", 0, 1, 65), Mmio("store", "uart", 0, 4, 256),
            Mmio("store", "uart", 3, 1, 128), Mmio("load", "uart", 5, 1, 0),
            Mmio("store", "net", 262, 4, 65537), Mmio("load", "block", 64, 2, 0),
            Mmio("store", "console", 56, 4, 1),
            Mmio("store", "unmapped", 0, 1, 1)}
KvmEvents == {Event("shutdown"), Event("fail_entry"), Event("system_event"),
              Event("intr")}
KvmPorts  == {Mmio("out", "com1", 0, 2, 65)}

KvmGuest == KvmMmio \cup KvmPorts \cup KvmEvents

\* Stores of a byte from X0, as the test kernels do, a wide store from another
\* register, a load, an abort at the address of the UART, and the other exits.
ArmGuest == {Mmio("store", "uart", 0, 1, 65),
             Mmio("store", "uart", 3, 1, 128),
             [Mmio("store", "uart", 0, 4, 65) EXCEPT !.x0 = 66], Mmio("load", "uart", 5, 1, 7),
             Mmio("store", "console", 64, 1, 7), Mmio("store", "unmapped", 0, 1, 1),
             Mmio("abort", "uart", 0, 1, 66),
             Event("canceled"), Event("exception")}

\* On x86_64 HVF the exits are all alike.
IntelMacGuest == {Mmio("store", "uart", 0, 1, 65), Event("shutdown"), Event("intr")}

Guests == [p \in {"kvm", "hvf_arm64", "hvf_x86"} |->
             CASE p = "kvm"       -> KvmGuest
               [] p = "hvf_arm64" -> ArmGuest
               [] p = "hvf_x86"   -> IntelMacGuest]

\* A guest that only loads.
Loads == [kvm |-> {Mmio("load", "uart", 5, 1, 0)}]

\* A guest that acknowledges an interrupt of the console.
Acks == [kvm |-> {Mmio("store", "console", 56, 4, 1), Event("hlt")}]
=============================================================================
