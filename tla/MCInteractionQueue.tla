------------------------- MODULE MCInteractionQueue -------------------------
(* InteractionQueue on small instances.  Two steers and a follow-up meet a *)
(* queue of two in a Run of three Turns: a full queue, a steer arriving      *)
(* between the two drains of a Turn end, and a drain of two items cut      *)
(* short by a listener or by the second of two cancellations all happen.   *)
EXTENDS InteractionQueue
=============================================================================
