------------------------------ MODULE MCCommon ------------------------------
(* Two parts of the common library for TLC: the byte buffer (ByteBuffer),    *)
(* with texts of up to two characters, the empty one included, and words     *)
(* with zero bytes and with one that is not ASCII; and the numbers           *)
(* (ArithUint).  They share no state.  One of them runs while the other is   *)
(* at its start, so that their states add up and do not multiply.            *)
EXTENDS ByteBuffer, ArithUint

Texts == {<<>>, <<1>>, <<1, 2>>}
Numbers == {<<0, 0>>, <<1, 0>>, <<2, 200>>}

BufferAtStart == Init /\ data = <<>>
NumbersAtStart == ArithInit /\ bpn = Zero

CommonInit == Init /\ ArithInit /\ (BufferAtStart \/ NumbersAtStart)

CommonNext ==
    \/ Next      /\ NumbersAtStart /\ UNCHANGED arithVars
    \/ ArithNext /\ BufferAtStart  /\ UNCHANGED vars

CommonSpec == CommonInit /\ [][CommonNext]_<<vars, arithVars>>
=============================================================================
