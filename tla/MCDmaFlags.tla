----------------------------- MODULE MCDmaFlags -----------------------------
(* DmaFlags for TLC: two channels of DMA1 whose users clear their flags,   *)
(* and one of DMA2, with the number of one of them, whose user calls       *)
(* DMA_Reset; or two that share DMA1 and call DMA_Reset.                   *)
EXTENDS DmaFlags

ThreeUsers == {<<1, 4>>, <<1, 5>>, <<2, 5>>}
Apart == {<<2, 5>>}
TwoUsers == {<<1, 4>>, <<1, 5>>}
=============================================================================
