----------------------------- MODULE Alignment ------------------------------
(***************************************************************************)
(* The alignment trick of the allocators whose backend takes no alignment: *)
(* ask for `alignment` more bytes, and move the start up to the next       *)
(* multiple. Addresses and sizes stay far below the width of size_t.       *)
(***************************************************************************)
EXTENDS Integers

\* Mutant: rounds down.
AlignValToDown(v, alignment) == (v \div alignment) * alignment

\* IMX_DMA_BUFFER_ALIGN_VAL_TO
AlignValTo(v, alignment) == ((v + alignment - 1) \div alignment) * alignment

\* An alignment of 0 means none, as 1 does.
EffectiveAlignment(alignment) == IF alignment = 0 THEN 1 ELSE alignment

\* Mutant: one byte less than the offset may need.
ActualSizeTight(size, alignment) ==
  IF alignment > 2 THEN size + alignment - 2 ELSE size

ActualSize(size, alignment) ==
  IF EffectiveAlignment(alignment) > 1 THEN size + alignment ELSE size

\* The address that is reported for a buffer whose memory starts at v.
AlignedAddress(v, alignment) == AlignValTo(v, EffectiveAlignment(alignment))

=============================================================================
