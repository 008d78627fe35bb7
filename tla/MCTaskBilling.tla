--------------------------- MODULE MCTaskBilling ---------------------------
(* An instance of TaskBilling for TLC: two songs of one channel, two       *)
(* videos of which the user fetches one, two pictures of which one is free.*)
(* The loop reads both songs at once, and one video at a time.             *)
EXTENDS TaskBilling, TLC

CONSTANTS t1, t2, n1

MCMixes ==
    {[kinds |-> t1 :> "suno" @@ t2 :> "suno", limit |-> 2],
     [kinds |-> t1 :> "gemini" @@ t2 :> "video", limit |-> 1],
     [kinds |-> t1 :> "mj" @@ t2 :> "mjfree", limit |-> 1]}
=============================================================================
