-------------------------------- MODULE MCWatch --------------------------------
(***************************************************************************)
(* A watch with an event that is larger than a buffer of the pool and much *)
(* smaller than the largest that readStreaming means to allow.             *)
(***************************************************************************)
EXTENDS ResponseStream, TLC

CONSTANT w1

MCFrames == w1 :> <<[size |-> 1, kind |-> "passed"],
                    [size |-> BaseWidth + 1, kind |-> "passed"]>>
===============================================================================
