----------------------------- MODULE MCWrapped ------------------------------
(***************************************************************************)
(* Instances of WrappedBuffers for TLC.                                    *)
(***************************************************************************)
EXTENDS WrappedBuffers, MCDmaHeap

\* Flags without MANUAL_SYNC: every session is an automatic one. No flags at
\* all stands for READ and WRITE together.
AutomaticFlags == {{}, {"READ"}}

=============================================================================
