------------------------------ MODULE SupportMC ------------------------------
(***************************************************************************)
(* The two passive modules sysgaze is built on, the buffer and the         *)
(* statistics.  They share no state and neither calls the other, so it is  *)
(* enough to see each used while the other is as it was initialised.       *)
(*                                                                         *)
(* A size_t of three bits and an initial capacity of two bytes.  Two       *)
(* catalogued calls whose names sort against their numbers, and two numbers*)
(* the catalogue does not know; seconds of 2 ns and counters up to 4.  The *)
(* clock values leave out one difference the code does not refuse and does *)
(* not hold: UINT64_MAX / 10^9 seconds and a bit, which is 584 years.      *)
(***************************************************************************)
EXTENDS Stats, Buffer, TLC

SmallTexts == {<< >>, <<"a">>, <<"b", "a">>, [i \in 1..5 |-> "b"], [i \in 1..7 |-> "a"]}

Ranks == (1 :> 2) @@ (2 :> 1)
Times == {<<0, 1>>, <<1, 0>>, <<1, 1>>, <<4, 1>>}

SupportNext == \/ BufferInit /\ Next /\ UNCHANGED bufferVars
               \/ Init /\ BufferNext /\ UNCHANGED vars

SupportInit == Init /\ BufferInit

SupportSpec == SupportInit /\ [][SupportNext]_<<vars, bufferVars>>
=============================================================================
