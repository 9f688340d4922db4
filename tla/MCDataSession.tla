------------------------------ MODULE MCDataSession ------------------------------
(***************************************************************************)
(* Instances of DataSession for TLC: a server owns the odd identifiers, a  *)
(* client the even ones.  Of TwoIds each side owns one.                    *)
(***************************************************************************)
EXTENDS DataSession

ServerIds == {0, 1, 3}
TwoIds == {0, 1}

==================================================================================
