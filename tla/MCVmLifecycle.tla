--------------------------- MODULE MCVmLifecycle ---------------------------
(* Instances of VmLifecycle for TLC.                                        *)
EXTENDS VmLifecycle

\* Signals are delivered to main()'s thread only.
MainOnly == {Main}

\* Signals are delivered to any thread.
AnyThread == Threads
=============================================================================
